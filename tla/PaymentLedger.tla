--------------------------- MODULE PaymentLedger ---------------------------
(***************************************************************************)
(* Payments and what they add up to. A payment is recorded as a row; every *)
(* request that records one then runs a pass, process_all_payments, over   *)
(* all rows that nobody has credited yet.                                  *)
(*                                                                         *)
(* Requests of the admin site run in one transaction from beginning to     *)
(* end. A notification from PayPal does not: its row is committed before   *)
(* its pass begins. Transactions see what is committed when a statement    *)
(* begins (READ COMMITTED), wait for the rows that others have locked, and *)
(* then look at the row again.                                             *)
(***************************************************************************)
EXTENDS Integers, FiniteSets, Sequences, FiniteSetsExt

CONSTANTS
    Accounts,
    Sources,        \* a payment as somebody entered or reported it, one row each
    KindOf,         \* the table of the source
    StatusOf,       \* payment_status of a PayPal notification
    FromOf, ToOf,   \* the account of a source; a transfer has two
    AmountOf,
    Workers,        \* web server processes
    Mortal,         \* those that may be killed, or raise, half-way
    MaxPayment      \* bound: rows of Payment

Kinds == {"ipn", "manual", "refund", "write_off", "transfer"}
Statuses == {"Completed", "Canceled_Reversal", "Refunded", "Pending", "other"}
Ids == 1..MaxPayment

ASSUME PaymentLedgerAssumption ==
    /\ IsFiniteSet(Accounts)
    /\ KindOf \in [Sources -> Kinds]
    /\ StatusOf \in [Sources -> Statuses]
    /\ FromOf \in [Sources -> Accounts]
    /\ ToOf \in [Sources -> Accounts]
    /\ AmountOf \in [Sources -> Int]
    /\ Mortal \subseteq Workers
    /\ MaxPayment \in Nat

VARIABLES
    source,     \* the source rows that are committed
    body,       \* what each id of a Payment row stands for; ids are not taken back
    recorded,   \* the Payment rows that are committed
    credited,   \* those of them with processed_at set
    total,      \* BookingAccount.total_received
    orphans,    \* rows whose own pass was cut short
    tx          \* what each worker is doing, and has not committed

tables == <<source, body, recorded, credited, total, orphans>>
vars == <<tables, tx>>

Body == [account : Accounts, amount : Int, of : Sources]

Tx == [at : {"idle", "unlink", "insert", "pass", "lock"},
       of : Sources \cup {"none"}, becomes : {"recorded", "deleted"},
       atomic : BOOLEAN,                \* all of the request is one transaction
       lines : Seq(Accounts \X Int),    \* the rows still to be recorded
       mine : SUBSET Ids,               \* the rows it recorded
       found : SUBSET Ids,              \* the rows the pass found
       rows : SUBSET Ids,               \* those it has not locked yet
       todo : SUBSET Ids,               \* locked, to be credited
       done : SUBSET Ids,               \* credited
       held : SUBSET Ids,               \* the Payment rows locked
       change : [Accounts -> Int],      \* added to the totals
       changed : SUBSET Accounts]       \* the account rows locked

NoChange == [a \in Accounts |-> 0]

Idle == [at |-> "idle", of |-> "none", becomes |-> "recorded", atomic |-> FALSE, lines |-> <<>>,
         mine |-> {}, found |-> {}, rows |-> {}, todo |-> {}, done |-> {}, held |-> {},
         change |-> NoChange, changed |-> {}]

-----------------------------------------------------------------------------

\* paypal_payment_received: the statuses that credit the account.
CreditedStatuses == {"Completed", "Canceled_Reversal", "Refunded"}

\* The rows that the handlers of hooks.py record for a source.
Lines(s) ==
    IF KindOf[s] = "transfer" THEN << <<FromOf[s], -AmountOf[s]>>, <<ToOf[s], AmountOf[s]>> >>
    ELSE IF KindOf[s] = "ipn" /\ StatusOf[s] \notin CreditedStatuses THEN <<>>
    ELSE << <<FromOf[s], IF KindOf[s] = "refund" THEN -AmountOf[s] ELSE AmountOf[s]>> >>

\* And when it is deleted.
Reversal(s) == [i \in DOMAIN Lines(s) |-> <<Lines(s)[i][1], -Lines(s)[i][2]>>]

\* The rows about a source, and those that refer to it.
RowsOf(s) == {p \in recorded : body[p].of = s}
Linked(s) == IF source[s] = "recorded" THEN RowsOf(s) ELSE {}

SumOf(S) == MapThenSumSet(LAMBDA p : body[p].amount, S)
SumFor(a, S) == SumOf({p \in S : body[p].account = a})

\* The locks that a statement of w has to wait for.
PaymentLockedBy(v, S) == tx[v].held \cap S # {}
AccountLockedBy(v, a) == a \in tx[v].changed

\* The row a pass locks, or credits, next: order_by("created_at").
First(p, S) == p \in S /\ \A q \in S : p <= q

\* Rows found are locked, rows locked are credited.
Locking(w) == tx[w].at = "lock" /\ tx[w].rows # {}
Crediting(w) == tx[w].at = "lock" /\ tx[w].rows = {} /\ tx[w].todo # {}
PassOver(w) == tx[w].at = "lock" /\ tx[w].rows = {} /\ tx[w].todo = {}

\* No locks on Payment rows.
WaitsForAccounts(w, v) ==
    /\ v # w
    /\ Crediting(w)
    /\ \E p \in tx[w].todo : First(p, tx[w].todo) /\ AccountLockedBy(v, body[p].account)

\* w cannot go on before v commits.
WaitsFor(w, v) ==
    /\ v # w
    /\ \/ tx[w].at = "unlink" /\ PaymentLockedBy(v, Linked(tx[w].of))
       \/ Locking(w) /\ \E p \in tx[w].rows : First(p, tx[w].rows) /\ PaymentLockedBy(v, {p})
       \/ /\ Crediting(w)
          /\ \E p \in tx[w].todo : First(p, tx[w].todo) /\ AccountLockedBy(v, body[p].account)

Free(w) == \A v \in Workers : ~WaitsFor(w, v)

-----------------------------------------------------------------------------
(* A request begins. *)

\* django-paypal stores the notification and sends its signal.
ReceiveIPN(w) ==
    /\ tx[w].at = "idle"
    /\ \E s \in Sources :
        /\ KindOf[s] = "ipn" /\ source[s] = "none"
        /\ source' = [source EXCEPT ![s] = "recorded"]
        /\ tx' = [tx EXCEPT ![w] = IF Lines(s) = <<>> THEN Idle
                                   ELSE [Idle EXCEPT !.at = "insert", !.of = s, !.lines = Lines(s)]]
    /\ UNCHANGED <<body, recorded, credited, total, orphans>>

\* The halves of a transfer in a transaction each.
EnterInSteps(w) ==
    /\ tx[w].at = "idle"
    /\ \E s \in Sources :
        /\ KindOf[s] # "ipn" /\ source[s] = "none"
        /\ \A v \in Workers : tx[v].of # s
        /\ tx' = [tx EXCEPT ![w] = [Idle EXCEPT !.at = "insert", !.of = s, !.lines = Lines(s)]]
    /\ UNCHANGED tables

\* Staff enter a payment, refund, transfer or debt: a new row each time.
Enter(w) ==
    /\ tx[w].at = "idle"
    /\ \E s \in Sources :
        /\ KindOf[s] # "ipn" /\ source[s] = "none"
        /\ \A v \in Workers : tx[v].of # s
        /\ tx' = [tx EXCEPT ![w] = [Idle EXCEPT !.at = "insert", !.of = s, !.atomic = TRUE,
                                                !.lines = Lines(s)]]
    /\ UNCHANGED tables

\* Staff delete a source. Its row is read without a lock.
Delete(w) ==
    /\ tx[w].at = "idle"
    /\ \E s \in Sources :
        /\ KindOf[s] # "ipn" /\ source[s] = "recorded"
        /\ tx' = [tx EXCEPT ![w] = [Idle EXCEPT !.at = "unlink", !.of = s, !.becomes = "deleted",
                                                !.atomic = TRUE, !.lines = Reversal(s)]]
    /\ UNCHANGED tables

\* Payment.source is set to NULL, which locks those rows; then the source is
\* deleted. post_delete is sent even if somebody else has deleted it by now, and
\* there was nothing left to do.
Unlink(w) ==
    /\ tx[w].at = "unlink"
    /\ Free(w)
    /\ tx' = [tx EXCEPT ![w].at = "insert", ![w].held = Linked(tx[w].of)]
    /\ UNCHANGED tables

-----------------------------------------------------------------------------
(* credit_account: a row, and a pass. *)

CreatePayment(w) ==
    /\ tx[w].at = "insert"
    /\ Len(body) < MaxPayment
    /\ LET p == Len(body) + 1
           line == Head(tx[w].lines)
       IN
       /\ body' = Append(body, [account |-> line[1], amount |-> line[2], of |-> tx[w].of])
       /\ recorded' = IF tx[w].atomic THEN recorded ELSE recorded \cup {p}
       /\ tx' = [tx EXCEPT ![w].at = "pass", ![w].lines = Tail(@), ![w].mine = @ \cup {p}]
    /\ UNCHANGED <<source, credited, total, orphans>>

\* The rows that are not processed, as far as w can see.
Unprocessed(w) == ((recorded \ credited) \cup tx[w].mine) \ tx[w].done

OpenPass(w) ==
    /\ tx[w].at = "pass"
    /\ tx' = [tx EXCEPT ![w].at = "lock", ![w].rows = Unprocessed(w), ![w].found = Unprocessed(w)]
    /\ UNCHANGED tables

\* select_for_update without the second look at processed_at.
LockPaymentUnchecked(w) ==
    /\ Locking(w) /\ Free(w)
    /\ \E p \in tx[w].rows :
        /\ First(p, tx[w].rows)
        /\ tx' = [tx EXCEPT ![w].rows = @ \ {p}, ![w].todo = @ \cup {p}, ![w].held = @ \cup {p}]
    /\ UNCHANGED tables

\* select_for_update with skip_locked.
LockPaymentSkipLocked(w) ==
    /\ Locking(w)
    /\ \E p \in tx[w].rows :
        LET take == IF p \in credited \/ ~Free(w) THEN {} ELSE {p} IN
        /\ First(p, tx[w].rows)
        /\ tx' = [tx EXCEPT ![w].rows = @ \ {p}, ![w].todo = @ \cup take, ![w].held = @ \cup take]
    /\ UNCHANGED tables

\* select_for_update: a row that has been processed by whoever held the lock is
\* left out.
LockPayment(w) ==
    /\ Locking(w) /\ Free(w)
    /\ \E p \in tx[w].rows :
        LET take == IF p \in credited THEN {} ELSE {p} IN
        /\ First(p, tx[w].rows)
        /\ tx' = [tx EXCEPT ![w].rows = @ \ {p}, ![w].todo = @ \cup take, ![w].held = @ \cup take]
    /\ UNCHANGED tables

\* process_one_payment. The locks are kept, so its two updates are one step.
CreditPayment(w) ==
    /\ Crediting(w) /\ Free(w)
    /\ \E p \in tx[w].todo :
        LET a == body[p].account IN
        /\ First(p, tx[w].todo)
        /\ tx' = [tx EXCEPT ![w].todo = @ \ {p}, ![w].done = @ \cup {p},
                            ![w].change[a] = @ + body[p].amount, ![w].changed = @ \cup {a}]
    /\ UNCHANGED tables

\* The second half of a transfer, in the same transaction.
NextLine(w) ==
    /\ PassOver(w)
    /\ tx[w].lines # <<>>
    /\ tx' = [tx EXCEPT ![w].at = "insert"]
    /\ UNCHANGED tables

Commit(w) ==
    /\ PassOver(w)
    /\ tx[w].lines = <<>>
    /\ source' = [source EXCEPT ![tx[w].of] = tx[w].becomes]
    /\ recorded' = recorded \cup tx[w].mine
    /\ credited' = credited \cup tx[w].done
    /\ total' = [a \in Accounts |-> total[a] + tx[w].change[a]]
    /\ tx' = [tx EXCEPT ![w] = Idle]
    /\ UNCHANGED <<body, orphans>>

\* Whatever is not committed is undone.
RollBack(w) ==
    /\ orphans' = orphans \cup (tx[w].mine \cap (recorded \ credited))
    /\ tx' = [tx EXCEPT ![w] = Idle]
    /\ UNCHANGED <<source, body, recorded, credited, total>>

Die(w) == w \in Mortal /\ tx[w].at # "idle" /\ RollBack(w)

\* The database picks one of those that wait for each other.
AbortDeadlocked(w) ==
    /\ \E S \in SUBSET Workers :
        /\ w \in S
        /\ \A v \in S : \E u \in S : WaitsFor(v, u)
        /\ \A v \in S : \E u \in S : WaitsFor(u, v)
    /\ RollBack(w)

-----------------------------------------------------------------------------

Init ==
    /\ source = [s \in Sources |-> "none"]
    /\ body = <<>>
    /\ recorded = {} /\ credited = {} /\ orphans = {}
    /\ total = [a \in Accounts |-> 0]
    /\ tx = [w \in Workers |-> Idle]

Begin(w) == ReceiveIPN(w) \/ Enter(w) \/ Delete(w) \/ Unlink(w)
Pass(w) == OpenPass(w) \/ LockPayment(w) \/ CreditPayment(w)
Work(w) == Begin(w) \/ CreatePayment(w) \/ Pass(w) \/ NextLine(w) \/ Commit(w)

Next == \E w \in Workers : Work(w) \/ Die(w) \/ AbortDeadlocked(w)

Spec == Init /\ [][Next]_vars

-----------------------------------------------------------------------------

TypeOK ==
    /\ source \in [Sources -> {"none", "recorded", "deleted"}]
    /\ body \in Seq(Body)
    /\ recorded \in SUBSET Ids /\ credited \in SUBSET Ids /\ orphans \in SUBSET Ids
    /\ total \in [Accounts -> Int]
    /\ tx \in [Workers -> Tx]

\* process_all_payments, "to avoid race conditions that would cause this field
\* to have the wrong value": what an account has received is the sum of the
\* payments that are marked as processed, whatever passes overlap.
TotalIsSum == \A a \in Accounts : total[a] = SumFor(a, credited)

\* No payment is in the hands of two passes, nor credited again.
CreditedOnce ==
    /\ \A w \in Workers : (tx[w].todo \cup tx[w].done) \cap credited = {}
    /\ \A v, w \in Workers : v # w => (tx[v].todo \cup tx[v].done) \cap (tx[w].todo \cup tx[w].done) = {}

\* A payment is credited or its own request is still at it, unless that
\* request was cut short: no other request can make it forget the payment.
NothingForgotten ==
    \A p \in recorded \ (credited \cup orphans) : \E w \in Workers : p \in tx[w].mine

\* A payment that was left behind is credited by the next pass, of any request
\* for any account, that opens afterwards and comes to its end.
PassCreditsAllItFound ==
    [][\A w \in Workers : Commit(w) => tx[w].found \subseteq credited']_vars

\* What a transfer takes from one account it gives to the other, in every
\* committed state; deleted transfers too.
TransfersBalance ==
    \A s \in Sources : KindOf[s] = "transfer" => SumOf({p \in credited : body[p].of = s}) = 0

(* What comments say. *)

\* payments.py: "if, for example, a ManualPayment object is deleted because of
\* an entry error, a new (negative) Payment object is created". The two add up
\* to nothing.
DeletedCancelsOut == \A s \in Sources : source[s] = "deleted" => SumOf(RowsOf(s)) = 0

=============================================================================
