------------------------ MODULE PaymentLedger_proofs ------------------------
(***************************************************************************)
(* What module PaymentLedger keeps for any accounts, sources and workers.  *)
(***************************************************************************)
EXTENDS PaymentLedger, TLAPS, FiniteSetTheorems, WellFoundedInduction, SequenceTheorems

USE PaymentLedgerAssumption

\* What the transaction of a worker is made of: it works on rows that exist,
\* holds the lock of each row it credits, and has lost no row on the way.
Coherent(w) ==
    /\ tx[w].at \in {"idle", "unlink"} => tx[w].mine \cup tx[w].todo \cup tx[w].done = {}
    /\ tx[w].at # "idle" => tx[w].of \in Sources
    /\ tx[w].at \in {"unlink", "insert"} => tx[w].lines # <<>>
    /\ tx[w].mine \cup tx[w].rows \cup tx[w].todo \subseteq DOMAIN body
    /\ tx[w].todo \cup tx[w].done \subseteq tx[w].held \ credited
    /\ tx[w].at = "lock" =>
        tx[w].found \cup tx[w].mine \subseteq tx[w].rows \cup tx[w].todo \cup tx[w].done \cup credited

\* No row is locked twice.
Exclusive == \A v, w \in Workers : v # w => tx[v].held \cap tx[w].held = {}

LedgerInv ==
    /\ TypeOK
    /\ recorded \subseteq DOMAIN body
    /\ \A w \in Workers : Coherent(w)
    /\ Exclusive
    /\ NothingForgotten

-----------------------------------------------------------------------------
(* Types. *)

Line == Accounts \X Int

\* An idle worker has a transaction of the right type.
LEMMA IdleType == Idle \in Tx
  BY DEF Idle, Tx, NoChange

\* The handlers of a source yield rows, and so does its deletion; those that
\* staff enter yield one at least.
LEMMA LinesType ==
  ASSUME NEW s \in Sources
  PROVE  /\ Lines(s) \in Seq(Line)
         /\ Reversal(s) \in Seq(Line)
         /\ KindOf[s] # "ipn" => Lines(s) # <<>> /\ Reversal(s) # <<>>
<1>1. KindOf[s] \in Kinds /\ FromOf[s] \in Accounts /\ ToOf[s] \in Accounts /\ AmountOf[s] \in Int
  OBVIOUS
<1>2. -AmountOf[s] \in Int
  BY <1>1
<1>3. CASE Lines(s) = <<>>
  <2>1. Reversal(s) = <<>>
    BY <1>3 DEF Reversal
  <2>2. KindOf[s] = "ipn"
    BY <1>1, <1>3 DEF Lines, Kinds
  <2>. QED
    BY <1>3, <2>1, <2>2
<1>4. ASSUME NEW a \in Accounts, NEW n \in Int, Lines(s) = << <<a, n>> >>
      PROVE  Lines(s) \in Seq(Line) /\ Reversal(s) \in Seq(Line)
             /\ Lines(s) # <<>> /\ Reversal(s) # <<>>
  BY <1>4 DEF Reversal, Line
<1>5. ASSUME NEW a \in Accounts, NEW n \in Int, NEW b \in Accounts, NEW k \in Int,
             Lines(s) = << <<a, n>>, <<b, k>> >>
      PROVE  Lines(s) \in Seq(Line) /\ Reversal(s) \in Seq(Line)
             /\ Lines(s) # <<>> /\ Reversal(s) # <<>>
  BY <1>5 DEF Reversal, Line
<1>6. CASE KindOf[s] = "transfer"
  BY <1>1, <1>2, <1>5, <1>6 DEF Lines
<1>7. CASE KindOf[s] = "ipn" /\ StatusOf[s] \notin CreditedStatuses
  BY <1>3, <1>7 DEF Lines
<1>8. CASE KindOf[s] # "transfer" /\ ~(KindOf[s] = "ipn" /\ StatusOf[s] \notin CreditedStatuses)
  BY <1>1, <1>2, <1>4, <1>8 DEF Lines
<1>. QED
  BY <1>6, <1>7, <1>8

-----------------------------------------------------------------------------
(* The steps. *)

\* A step of one worker leaves the work of another coherent, if it takes no row
\* away and credits none that the other has locked.
LEMMA OthersCoherent ==
  ASSUME NEW v \in Workers, Coherent(v), tx'[v] = tx[v],
         DOMAIN body \subseteq DOMAIN body', credited \subseteq credited',
         tx[v].held \cap credited' \subseteq credited
  PROVE  Coherent(v)'
  BY DEF Coherent

\* What a step of w has to show for itself.
LEMMA StepKeeps ==
  ASSUME LedgerInv, NEW w \in Workers,
         \A v \in Workers \ {w} : tx'[v] = tx[v],
         TypeOK', Coherent(w)',
         \A v \in Workers \ {w} : tx[v].held \cap tx'[w].held = {},
         DOMAIN body \subseteq DOMAIN body', recorded' \subseteq DOMAIN body',
         credited \subseteq credited', credited' \subseteq credited \cup tx[w].held,
         orphans \subseteq orphans',
         recorded' \subseteq recorded \cup tx'[w].mine \cup credited',
         tx[w].mine \cap recorded \subseteq tx'[w].mine \cup credited' \cup orphans'
  PROVE  LedgerInv'
<1>. USE DEF LedgerInv
<1>1. ASSUME NEW v \in Workers \ {w} PROVE Coherent(v)'
  <2>1. tx[v].held \cap credited' \subseteq credited
    BY DEF Exclusive
  <2>. QED
    BY <2>1, OthersCoherent
<1>2. Exclusive'
  <2>. SUFFICES ASSUME NEW u \in Workers, NEW v \in Workers, u # v
                PROVE  tx'[u].held \cap tx'[v].held = {}
    BY DEF Exclusive
  <2>1. CASE u = w
    BY <2>1
  <2>2. CASE v = w
    BY <2>2
  <2>3. CASE u # w /\ v # w
    BY <2>3 DEF Exclusive
  <2>. QED
    BY <2>1, <2>2, <2>3
<1>3. NothingForgotten'
  <2>. SUFFICES ASSUME NEW p \in recorded' \ (credited' \cup orphans')
                PROVE  \E v \in Workers : p \in tx'[v].mine
    BY DEF NothingForgotten
  <2>1. CASE p \in recorded
    <3>1. PICK v \in Workers : p \in tx[v].mine
      BY <2>1 DEF NothingForgotten
    <3>. QED
      BY <2>1, <3>1
  <2>2. CASE p \notin recorded
    BY <2>2
  <2>. QED
    BY <2>1, <2>2
<1>. QED
  BY <1>1, <1>2, <1>3

\* A request that begins keeps the invariant.
LEMMA BeginKeeps ==
  ASSUME LedgerInv, NEW w \in Workers, Begin(w)
  PROVE  LedgerInv'
<1>. USE DEF LedgerInv
<1>1. ASSUME NEW s \in Sources, NEW r \in Tx, tx' = [tx EXCEPT ![w] = r],
             source' \in [Sources -> {"none", "recorded", "deleted"}],
             UNCHANGED <<body, recorded, credited, total, orphans>>,
             tx[w].at = "idle",
             r = Idle \/ (r.at \in {"insert", "unlink"} /\ r.of \in Sources /\ r.lines # <<>>),
             r.mine = {} /\ r.rows = {} /\ r.todo = {} /\ r.done = {} /\ r.held = {}
      PROVE  LedgerInv'
  <2>1. TypeOK'
    BY <1>1 DEF TypeOK
  <2>2. tx'[w] = r /\ \A v \in Workers \ {w} : tx'[v] = tx[v]
    BY <1>1 DEF TypeOK
  <2>3. Coherent(w)'
    BY <1>1, <2>2 DEF Coherent, Idle
  <2>4. tx[w].mine = {}
    BY <1>1 DEF Coherent
  <2>. QED
    BY <1>1, <2>1, <2>2, <2>3, <2>4, StepKeeps
<1>2. CASE ReceiveIPN(w)
  <2>1. PICK s \in Sources :
          /\ tx[w].at = "idle"
          /\ source' = [source EXCEPT ![s] = "recorded"]
          /\ tx' = [tx EXCEPT ![w] = IF Lines(s) = <<>> THEN Idle
                                     ELSE [Idle EXCEPT !.at = "insert", !.of = s, !.lines = Lines(s)]]
          /\ UNCHANGED <<body, recorded, credited, total, orphans>>
    BY <1>2 DEF ReceiveIPN
  <2>. source' \in [Sources -> {"none", "recorded", "deleted"}]
    BY <2>1 DEF TypeOK
  <2>2. CASE Lines(s) = <<>>
    BY <1>1, <2>1, <2>2, IdleType DEF Idle
  <2>3. CASE Lines(s) # <<>>
    <3>. DEFINE r == [Idle EXCEPT !.at = "insert", !.of = s, !.lines = Lines(s)]
    <3>1. r \in Tx
      BY IdleType, LinesType DEF Tx, Line
    <3>2. r.at = "insert" /\ r.of = s /\ r.lines = Lines(s)
          /\ r.mine = {} /\ r.rows = {} /\ r.todo = {} /\ r.done = {} /\ r.held = {}
      BY DEF Idle
    <3>3. tx' = [tx EXCEPT ![w] = r]
      BY <2>1, <2>3
    <3>. HIDE DEF r
    <3>. QED
      BY <1>1, <2>1, <2>3, <3>1, <3>2, <3>3
  <2>. QED
    BY <2>2, <2>3
<1>3. CASE Enter(w)
  <2>1. PICK s \in Sources :
          /\ KindOf[s] # "ipn"
          /\ tx' = [tx EXCEPT ![w] = [Idle EXCEPT !.at = "insert", !.of = s, !.atomic = TRUE,
                                                  !.lines = Lines(s)]]
    BY <1>3 DEF Enter
  <2>. DEFINE r == [Idle EXCEPT !.at = "insert", !.of = s, !.atomic = TRUE, !.lines = Lines(s)]
  <2>2. r \in Tx
    BY IdleType, LinesType DEF Tx, Line
  <2>3. r.at = "insert" /\ r.of = s /\ r.lines = Lines(s)
        /\ r.mine = {} /\ r.rows = {} /\ r.todo = {} /\ r.done = {} /\ r.held = {}
    BY DEF Idle
  <2>4. Lines(s) # <<>>
    BY <2>1, LinesType
  <2>. QED
    BY <1>1, <1>3, <2>1, <2>2, <2>3, <2>4 DEF TypeOK, Enter, tables
<1>4. CASE Delete(w)
  <2>1. PICK s \in Sources :
          /\ KindOf[s] # "ipn"
          /\ tx' = [tx EXCEPT ![w] = [Idle EXCEPT !.at = "unlink", !.of = s, !.becomes = "deleted",
                                                  !.atomic = TRUE, !.lines = Reversal(s)]]
    BY <1>4 DEF Delete
  <2>. DEFINE r == [Idle EXCEPT !.at = "unlink", !.of = s, !.becomes = "deleted",
                                !.atomic = TRUE, !.lines = Reversal(s)]
  <2>2. r \in Tx
    BY IdleType, LinesType DEF Tx, Line
  <2>3. r.at = "unlink" /\ r.of = s /\ r.lines = Reversal(s)
        /\ r.mine = {} /\ r.rows = {} /\ r.todo = {} /\ r.done = {} /\ r.held = {}
    BY DEF Idle
  <2>4. Reversal(s) # <<>>
    BY <2>1, LinesType
  <2>. QED
    BY <1>1, <1>4, <2>1, <2>2, <2>3, <2>4 DEF TypeOK, Delete, tables
<1>5. CASE Unlink(w)
  <2>1. /\ tx[w].at = "unlink" /\ Free(w)
        /\ tx' = [tx EXCEPT ![w].at = "insert", ![w].held = Linked(tx[w].of)]
        /\ UNCHANGED tables
    BY <1>5 DEF Unlink
  <2>2. Linked(tx[w].of) \in SUBSET Ids
    BY DEF Linked, RowsOf, TypeOK
  <2>. tx[w] \in Tx
    BY DEF TypeOK
  <2>3. /\ tx'[w] = [tx[w] EXCEPT !.at = "insert", !.held = Linked(tx[w].of)]
        /\ \A v \in Workers \ {w} : tx'[v] = tx[v]
    BY <2>1 DEF TypeOK
  <2>4. /\ tx'[w].at = "insert" /\ tx'[w].held = Linked(tx[w].of)
         /\ tx'[w].of = tx[w].of /\ tx'[w].lines = tx[w].lines /\ tx'[w].mine = tx[w].mine
         /\ tx'[w].rows = tx[w].rows /\ tx'[w].todo = tx[w].todo /\ tx'[w].done = tx[w].done
    BY <2>3 DEF Tx
  <2>5. TypeOK'
    BY <2>1, <2>2 DEF TypeOK, Tx, tables
  <2>6. Coherent(w)'
    BY <2>1, <2>4 DEF Coherent, tables
  <2>7. ASSUME NEW v \in Workers \ {w} PROVE tx[v].held \cap Linked(tx[w].of) = {}
    BY <2>1 DEF Free, WaitsFor, PaymentLockedBy
  <2>. QED
    BY <2>1, <2>3, <2>4, <2>5, <2>6, <2>7, StepKeeps DEF tables
<1>. QED
  BY <1>2, <1>3, <1>4, <1>5 DEF Begin

\* A payment is recorded in a row of its own, in the hands of its worker.
LEMMA CreateKeeps ==
  ASSUME LedgerInv, NEW w \in Workers, CreatePayment(w)
  PROVE  LedgerInv'
<1>. USE DEF LedgerInv
<1>. DEFINE p == Len(body) + 1
            line == Head(tx[w].lines)
            row == [account |-> line[1], amount |-> line[2], of |-> tx[w].of]
<1>1. /\ tx[w].at = "insert" /\ Len(body) < MaxPayment
      /\ body' = Append(body, row)
      /\ recorded' \subseteq recorded \cup {p} /\ recorded \subseteq recorded'
      /\ tx' = [tx EXCEPT ![w].at = "pass", ![w].lines = Tail(@), ![w].mine = @ \cup {p}]
      /\ UNCHANGED <<source, credited, total, orphans>>
  BY DEF CreatePayment
<1>2. tx[w] \in Tx /\ body \in Seq(Body) /\ p \in Ids
  BY <1>1 DEF TypeOK, Ids
<1>3. tx[w].lines \in Seq(Line) /\ tx[w].lines # <<>> /\ tx[w].of \in Sources
  BY <1>1, <1>2 DEF Tx, Coherent, Line
<1>4. line \in Line /\ Tail(tx[w].lines) \in Seq(Line)
  BY <1>3
<1>5. row \in Body
  BY <1>3, <1>4 DEF Body, Line
<1>. HIDE DEF row, line
<1>6. PICK t, ls, M, u :
        t = tx[w] /\ ls = Tail(tx[w].lines) /\ M = tx[w].mine \cup {p} /\ u = tx'[w]
  OBVIOUS
<1>7. /\ t \in Tx /\ ls \in Seq(Line) /\ M \in SUBSET Ids
      /\ u = [t EXCEPT !.at = "pass", !.lines = ls, !.mine = M]
      /\ \A v \in Workers \ {w} : tx'[v] = tx[v]
  <2>1. M \in SUBSET Ids
    BY <1>2, <1>6 DEF Tx
  <2>. QED
    BY <1>1, <1>2, <1>4, <1>6, <2>1 DEF TypeOK
<1>8. /\ u \in Tx /\ u.at = "pass" /\ u.mine = M
      /\ u.of = t.of /\ u.rows = t.rows /\ u.todo = t.todo /\ u.done = t.done /\ u.held = t.held
  BY <1>7 DEF Tx, Line
<1>9. body' \in Seq(Body) /\ DOMAIN body' = DOMAIN body \cup {p}
  BY <1>1, <1>2, <1>5
<1>10. TypeOK'
  BY <1>1, <1>2, <1>6, <1>7, <1>8, <1>9 DEF TypeOK
<1>11. Coherent(w)'
  <2>1. /\ tx'[w].at = "pass" /\ tx'[w].mine = tx[w].mine \cup {p}
        /\ tx'[w].of = tx[w].of /\ tx'[w].rows = tx[w].rows
        /\ tx'[w].todo = tx[w].todo /\ tx'[w].done = tx[w].done /\ tx'[w].held = tx[w].held
    BY <1>6, <1>8
  <2>. QED
    BY <1>1, <1>3, <1>9, <2>1 DEF Coherent
<1>12. ASSUME NEW v \in Workers \ {w} PROVE tx[v].held \cap tx'[w].held = {}
  BY <1>6, <1>8 DEF Exclusive
<1>. QED
  BY <1>1, <1>6, <1>7, <1>8, <1>9, <1>10, <1>11, <1>12, StepKeeps

\* A pass that opens finds every row that is not credited; it locks what it has
\* found unless somebody else has credited it, and credits what it has locked.
LEMMA PassKeeps ==
  ASSUME LedgerInv, NEW w \in Workers, Pass(w)
  PROVE  LedgerInv'
<1>. USE DEF LedgerInv
<1>. tx[w] \in Tx
  BY DEF TypeOK
<1>1. CASE OpenPass(w)
  <2>1. /\ tx[w].at = "pass" /\ UNCHANGED tables
        /\ tx' = [tx EXCEPT ![w].at = "lock", ![w].rows = Unprocessed(w), ![w].found = Unprocessed(w)]
    BY <1>1 DEF OpenPass
  <2>2. /\ Unprocessed(w) \in SUBSET Ids /\ Unprocessed(w) \subseteq DOMAIN body
        /\ tx[w].mine \subseteq Unprocessed(w) \cup tx[w].done
    BY DEF Unprocessed, TypeOK, Tx, Coherent
  <2>3. PICK t, R, u : t = tx[w] /\ R = Unprocessed(w) /\ u = tx'[w]
    OBVIOUS
  <2>4. /\ t \in Tx /\ R \in SUBSET Ids /\ R \subseteq DOMAIN body /\ t.mine \subseteq R \cup t.done
        /\ u = [t EXCEPT !.at = "lock", !.rows = R, !.found = R]
        /\ \A v \in Workers \ {w} : tx'[v] = tx[v]
    BY <2>1, <2>2, <2>3 DEF TypeOK
  <2>5. /\ u \in Tx /\ u.at = "lock" /\ u.rows = R /\ u.found = R
        /\ u.of = t.of /\ u.mine = t.mine /\ u.todo = t.todo /\ u.done = t.done /\ u.held = t.held
    BY <2>4 DEF Tx
  <2>6. TypeOK'
    BY <2>1, <2>3, <2>5 DEF TypeOK, tables
  <2>7. Coherent(w)'
    <3>1. /\ tx'[w].at = "lock" /\ tx'[w].rows = R /\ tx'[w].found = R
          /\ tx'[w].of = tx[w].of /\ tx'[w].mine = tx[w].mine
          /\ tx'[w].todo = tx[w].todo /\ tx'[w].done = tx[w].done /\ tx'[w].held = tx[w].held
          /\ R \subseteq DOMAIN body /\ tx[w].mine \subseteq R \cup tx[w].done
      BY <2>3, <2>4, <2>5
    <3>2. tx[w].at = "pass" /\ body' = body /\ credited' = credited
      BY <2>1 DEF tables
    <3>. QED
      BY <3>1, <3>2 DEF Coherent
  <2>8. ASSUME NEW v \in Workers \ {w} PROVE tx[v].held \cap tx'[w].held = {}
    BY <2>3, <2>5 DEF Exclusive
  <2>. QED
    BY <2>1, <2>3, <2>4, <2>5, <2>6, <2>7, <2>8, StepKeeps DEF tables
<1>2. CASE LockPayment(w)
  <2>1. PICK p \in tx[w].rows :
          /\ tx[w].at = "lock" /\ Locking(w) /\ Free(w) /\ First(p, tx[w].rows) /\ UNCHANGED tables
          /\ tx' = [tx EXCEPT ![w].rows = @ \ {p},
                              ![w].todo = @ \cup (IF p \in credited THEN {} ELSE {p}),
                              ![w].held = @ \cup (IF p \in credited THEN {} ELSE {p})]
    BY <1>2 DEF LockPayment, Locking
  <2>2. PICK take : take = (IF p \in credited THEN {} ELSE {p})
    OBVIOUS
  <2>3. PICK t, R, T, H, u :
          /\ t = tx[w] /\ R = tx[w].rows \ {p} /\ T = tx[w].todo \cup take
          /\ H = tx[w].held \cup take /\ u = tx'[w]
    OBVIOUS
  <2>4. R \in SUBSET Ids /\ T \in SUBSET Ids /\ H \in SUBSET Ids
    BY <2>1, <2>2, <2>3 DEF Tx
  <2>5. /\ t \in Tx /\ u = [t EXCEPT !.rows = R, !.todo = T, !.held = H]
        /\ \A v \in Workers \ {w} : tx'[v] = tx[v]
    BY <2>1, <2>2, <2>3 DEF TypeOK
  <2>6. /\ u \in Tx /\ u.at = t.at /\ u.rows = R /\ u.todo = T /\ u.held = H
        /\ u.of = t.of /\ u.mine = t.mine /\ u.found = t.found /\ u.done = t.done
    BY <2>4, <2>5 DEF Tx
  <2>7. TypeOK'
    BY <2>1, <2>3, <2>6 DEF TypeOK, tables
  <2>8. take \cap credited = {} /\ {p} \subseteq take \cup credited /\ take \subseteq tx[w].rows
    BY <2>2
  <2>9. Coherent(w)'
    <3>1. /\ tx'[w].at = "lock" /\ tx'[w].rows = tx[w].rows \ {p} /\ tx'[w].found = tx[w].found
          /\ tx'[w].of = tx[w].of /\ tx'[w].mine = tx[w].mine
          /\ tx'[w].todo = tx[w].todo \cup take /\ tx'[w].done = tx[w].done
          /\ tx'[w].held = tx[w].held \cup take
      BY <2>1, <2>3, <2>6
    <3>. QED
      BY <2>1, <2>8, <3>1 DEF Coherent, tables
  <2>10. ASSUME NEW v \in Workers \ {w} PROVE tx[v].held \cap tx'[w].held = {}
    <3>1. p \notin tx[v].held
      BY <2>1 DEF Free, WaitsFor, PaymentLockedBy
    <3>. QED
      BY <3>1, <2>2, <2>3, <2>6 DEF Exclusive
  <2>. QED
    BY <2>1, <2>3, <2>5, <2>6, <2>7, <2>9, <2>10, StepKeeps DEF tables
<1>3. CASE CreditPayment(w)
  <2>1. PICK p \in tx[w].todo :
          /\ tx[w].at = "lock" /\ UNCHANGED tables
          /\ tx' = [tx EXCEPT ![w].todo = @ \ {p}, ![w].done = @ \cup {p},
                              ![w].change[body[p].account] = @ + body[p].amount,
                              ![w].changed = @ \cup {body[p].account}]
    BY <1>3 DEF CreditPayment, Crediting
  <2>2. body[p] \in Body
    BY <2>1 DEF Coherent, TypeOK
  <2>3. PICK a \in Accounts, n \in Int : a = body[p].account /\ n = body[p].amount
    BY <2>2 DEF Body
  <2>4. PICK t, T, D, c, A, u :
          /\ t = tx[w] /\ T = tx[w].todo \ {p} /\ D = tx[w].done \cup {p}
          /\ c = [tx[w].change EXCEPT ![a] = @ + n] /\ A = tx[w].changed \cup {a} /\ u = tx'[w]
    OBVIOUS
  <2>5. T \in SUBSET Ids /\ D \in SUBSET Ids /\ c \in [Accounts -> Int] /\ A \in SUBSET Accounts
    BY <2>1, <2>4 DEF Tx
  <2>6. /\ t \in Tx /\ u = [t EXCEPT !.todo = T, !.done = D, !.change = c, !.changed = A]
        /\ \A v \in Workers \ {w} : tx'[v] = tx[v]
    BY <2>1, <2>3, <2>4 DEF TypeOK
  <2>7. /\ u \in Tx /\ u.at = t.at /\ u.todo = T /\ u.done = D
        /\ u.of = t.of /\ u.mine = t.mine /\ u.found = t.found /\ u.rows = t.rows /\ u.held = t.held
    BY <2>5, <2>6 DEF Tx
  <2>8. TypeOK'
    BY <2>1, <2>4, <2>7 DEF TypeOK, tables
  <2>9. Coherent(w)'
    <3>1. /\ tx'[w].at = "lock" /\ tx'[w].rows = tx[w].rows /\ tx'[w].found = tx[w].found
          /\ tx'[w].of = tx[w].of /\ tx'[w].mine = tx[w].mine
          /\ tx'[w].todo = tx[w].todo \ {p} /\ tx'[w].done = tx[w].done \cup {p}
          /\ tx'[w].held = tx[w].held
      BY <2>1, <2>4, <2>7
    <3>2. body' = body /\ credited' = credited /\ tx[w].at = "lock" /\ p \in tx[w].todo
      BY <2>1 DEF tables
    <3>3. tx'[w].todo \cup tx'[w].done = tx[w].todo \cup tx[w].done
      BY <3>1, <3>2
    <3>4. tx'[w].rows \cup tx'[w].todo \cup tx'[w].done = tx[w].rows \cup tx[w].todo \cup tx[w].done
      BY <3>1, <3>3
    <3>5. tx'[w].mine \cup tx'[w].rows \cup tx'[w].todo \subseteq DOMAIN body'
      BY <3>1, <3>2 DEF Coherent
    <3>. QED
      BY <3>1, <3>2, <3>3, <3>4, <3>5 DEF Coherent
  <2>10. ASSUME NEW v \in Workers \ {w} PROVE tx[v].held \cap tx'[w].held = {}
    BY <2>4, <2>7 DEF Exclusive
  <2>. QED
    BY <2>1, <2>4, <2>6, <2>7, <2>8, <2>9, <2>10, StepKeeps DEF tables
<1>. QED
  BY <1>1, <1>2, <1>3 DEF Pass

\* The next row of a transfer, and the end of a request.
LEMMA EndKeeps ==
  ASSUME LedgerInv, NEW w \in Workers, NextLine(w) \/ Commit(w)
  PROVE  LedgerInv'
<1>. USE DEF LedgerInv
<1>. tx[w] \in Tx
  BY DEF TypeOK
<1>1. CASE NextLine(w)
  <2>1. /\ tx[w].at = "lock" /\ tx[w].lines # <<>> /\ UNCHANGED tables
        /\ tx' = [tx EXCEPT ![w].at = "insert"]
    BY <1>1 DEF NextLine, PassOver
  <2>2. PICK t, u : t = tx[w] /\ u = tx'[w]
    OBVIOUS
  <2>3. t \in Tx /\ u = [t EXCEPT !.at = "insert"] /\ \A v \in Workers \ {w} : tx'[v] = tx[v]
    BY <2>1, <2>2 DEF TypeOK
  <2>4. /\ u \in Tx /\ u.at = "insert" /\ u.of = t.of /\ u.lines = t.lines /\ u.mine = t.mine
        /\ u.rows = t.rows /\ u.todo = t.todo /\ u.done = t.done /\ u.held = t.held
    BY <2>3 DEF Tx
  <2>5. TypeOK'
    BY <2>1, <2>2, <2>4 DEF TypeOK, tables
  <2>6. Coherent(w)'
    BY <2>1, <2>2, <2>4 DEF Coherent, tables
  <2>7. ASSUME NEW v \in Workers \ {w} PROVE tx[v].held \cap tx'[w].held = {}
    BY <2>2, <2>4 DEF Exclusive
  <2>. QED
    BY <2>1, <2>2, <2>3, <2>4, <2>5, <2>6, <2>7, StepKeeps DEF tables
<1>2. CASE Commit(w)
  <2>1. /\ tx[w].at = "lock" /\ tx[w].rows = {} /\ tx[w].todo = {}
        /\ source' = [source EXCEPT ![tx[w].of] = tx[w].becomes]
        /\ recorded' = recorded \cup tx[w].mine /\ credited' = credited \cup tx[w].done
        /\ total' = [a \in Accounts |-> total[a] + tx[w].change[a]]
        /\ tx' = [tx EXCEPT ![w] = Idle]
        /\ UNCHANGED <<body, orphans>>
    BY <1>2 DEF Commit, PassOver
  <2>2. tx'[w] = Idle /\ \A v \in Workers \ {w} : tx'[v] = tx[v]
    BY <2>1 DEF TypeOK
  <2>3. tx[w].mine \subseteq credited' /\ tx[w].mine \subseteq DOMAIN body
    BY <2>1 DEF Coherent
  <2>4. TypeOK'
    <3>1. source' \in [Sources -> {"none", "recorded", "deleted"}]
      BY <2>1 DEF TypeOK, Tx
    <3>2. total' \in [Accounts -> Int]
      BY <2>1 DEF TypeOK, Tx
    <3>3. recorded' \in SUBSET Ids /\ credited' \in SUBSET Ids
      BY <2>1 DEF TypeOK, Tx
    <3>4. tx' \in [Workers -> Tx]
      BY <2>1, IdleType DEF TypeOK
    <3>. QED
      BY <2>1, <3>1, <3>2, <3>3, <3>4 DEF TypeOK
  <2>5. Coherent(w)'
    BY <2>2 DEF Coherent, Idle
  <2>6. credited' \subseteq credited \cup tx[w].held
    BY <2>1 DEF Coherent
  <2>7. tx'[w].held = {}
    BY <2>2 DEF Idle
  <2>. QED
    BY <2>1, <2>2, <2>3, <2>4, <2>5, <2>6, <2>7, StepKeeps
<1>. QED
  BY <1>1, <1>2

\* What is undone was nobody else's.
LEMMA RollBackKeeps ==
  ASSUME LedgerInv, NEW w \in Workers, RollBack(w)
  PROVE  LedgerInv'
<1>. USE DEF LedgerInv
<1>1. /\ orphans' = orphans \cup (tx[w].mine \cap (recorded \ credited))
      /\ tx' = [tx EXCEPT ![w] = Idle]
      /\ UNCHANGED <<source, body, recorded, credited, total>>
  BY DEF RollBack
<1>2. tx'[w] = Idle /\ \A v \in Workers \ {w} : tx'[v] = tx[v]
  BY <1>1 DEF TypeOK
<1>3. TypeOK'
  BY <1>1, IdleType DEF TypeOK
<1>4. Coherent(w)'
  BY <1>2 DEF Coherent, Idle
<1>5. tx'[w].held = {} /\ tx'[w].mine = {}
  BY <1>2 DEF Idle
<1>. QED
  BY <1>1, <1>2, <1>3, <1>4, <1>5, StepKeeps

-----------------------------------------------------------------------------
(* Sums. SumOf is a fold that takes a row of the set, any row, and goes on  *)
(* with the others.                                                         *)

Pick(S) == CHOOSE x \in S : TRUE

\* g is the fold of the amounts of b, on S and its subsets.
IsSum(g, b, S) ==
    g = [s \in SUBSET S |-> IF s = {} THEN 0 ELSE b[Pick(s)].amount + g[s \ {Pick(s)}]]

Sum(b, S) == (CHOOSE g : IsSum(g, b, S))[S]

LEMMA SumOfIs == \A S : SumOf(S) = Sum(body, S)
  BY DEF SumOf, MapThenSumSet, MapThenFoldSet, Sum, IsSum, Pick

\* Of the subsets that have something wrong with them, one has no smaller one.
LEMMA SmallestSubset ==
  ASSUME NEW S, IsFiniteSet(S), NEW Bad \in SUBSET SUBSET S, Bad # {}
  PROVE  \E T \in Bad : \A U \in Bad : U \subseteq T => U = T
<1>. DEFINE R == StrictSubsetOrdering(S)
<1>1. IsWellFoundedOn(R, FiniteSubsetsOf(S))
  BY FS_StrictSubsetOrderingWellFounded
<1>2. Bad \subseteq FiniteSubsetsOf(S)
  BY FS_Subset DEF FiniteSubsetsOf
<1>. HIDE DEF R
<1>3. PICK T \in Bad : \A U \in Bad : <<U, T>> \notin R
  BY <1>1, <1>2, WFMin
<1>. QED
  BY <1>3 DEF R, StrictSubsetOrdering

LEMMA PickIn ==
  ASSUME NEW S, S # {}
  PROVE  Pick(S) \in S
  BY DEF Pick

\* The fold on a subset is the fold on the set.
LEMMA SumsAgree ==
  ASSUME NEW S, IsFiniteSet(S), NEW T \in SUBSET S, NEW b,
         NEW g, IsSum(g, b, S), NEW h, IsSum(h, b, T)
  PROVE  \A U \in SUBSET T : g[U] = h[U]
<1>. DEFINE Bad == {U \in SUBSET T : g[U] # h[U]}
<1>. SUFFICES ASSUME Bad # {} PROVE FALSE
  OBVIOUS
<1>1. PICK U \in Bad : \A V \in Bad : V \subseteq U => V = U
  <2>. Bad \in SUBSET SUBSET S
    OBVIOUS
  <2>. HIDE DEF Bad
  <2>. QED
    BY SmallestSubset
<1>2. CASE U = {}
  BY <1>1, <1>2 DEF IsSum
<1>3. CASE U # {}
  <2>. DEFINE V == U \ {Pick(U)}
  <2>1. g[V] = h[V]
    BY <1>1, <1>3, PickIn
  <2>2. g[U] = b[Pick(U)].amount + g[V] /\ h[U] = b[Pick(U)].amount + h[V]
    BY <1>1, <1>3 DEF IsSum
  <2>. QED
    BY <1>1, <2>1, <2>2
<1>. QED
  BY <1>2, <1>3

\* There is a fold on every finite set.
LEMMA SumExists ==
  ASSUME NEW S, IsFiniteSet(S), NEW b
  PROVE  \E g : IsSum(g, b, S)
<1>. DEFINE Bad == {T \in SUBSET S : ~\E g : IsSum(g, b, T)}
<1>. SUFFICES ASSUME Bad # {} PROVE FALSE
  OBVIOUS
<1>1. PICK T \in Bad : \A U \in Bad : U \subseteq T => U = T
  <2>. Bad \in SUBSET SUBSET S
    OBVIOUS
  <2>. HIDE DEF Bad
  <2>. QED
    BY SmallestSubset
<1>2. ASSUME NEW U \in SUBSET T, U # T
      PROVE  \E h : IsSum(h, b, U)
  BY <1>1, <1>2
<1>. DEFINE h(U) == CHOOSE f : IsSum(f, b, U)
            g == [s \in SUBSET T |-> IF s = {} THEN 0
                                     ELSE b[Pick(s)].amount + h(s \ {Pick(s)})[s \ {Pick(s)}]]
<1>3. ASSUME NEW U \in SUBSET T, U # T
      PROVE  h(U)[U] = g[U]
  <2>1. IsSum(h(U), b, U)
    BY <1>2, <1>3
  <2>2. CASE U = {}
    BY <2>1, <2>2 DEF IsSum
  <2>3. CASE U # {}
    <3>. DEFINE V == U \ {Pick(U)}
    <3>1. V \subseteq U /\ V # T /\ V \in SUBSET T /\ V # U
      BY <1>3, <2>3, PickIn
    <3>2. IsSum(h(V), b, V)
      BY <1>2, <3>1
    <3>3. h(U)[V] = h(V)[V]
      <4>1. IsFiniteSet(U)
        BY <1>1, <1>3, FS_Subset
      <4>. HIDE DEF h, V
      <4>. QED
        BY <2>1, <3>1, <3>2, <4>1, SumsAgree
    <3>4. h(U)[U] = b[Pick(U)].amount + h(U)[V]
      <4>. HIDE DEF h
      <4>. QED
        BY <2>1, <2>3 DEF IsSum
    <3>5. g[U] = b[Pick(U)].amount + h(V)[V]
      <4>. HIDE DEF h
      <4>. QED
        BY <1>3, <2>3
    <3>. HIDE DEF h, g, V
    <3>. QED
      BY <3>3, <3>4, <3>5
  <2>. QED
    BY <2>2, <2>3
<1>4. IsSum(g, b, T)
  <2>. HIDE DEF h
  <2>1. ASSUME NEW s \in SUBSET T, s # {}
        PROVE  h(s \ {Pick(s)})[s \ {Pick(s)}] = g[s \ {Pick(s)}]
    <3>. s \ {Pick(s)} \in SUBSET T /\ s \ {Pick(s)} # T
      BY <2>1, PickIn
    <3>. HIDE DEF g
    <3>. QED
      BY <1>3
  <2>2. g = [s \in SUBSET T |-> IF s = {} THEN 0 ELSE b[Pick(s)].amount + g[s \ {Pick(s)}]]
    <3>. DEFINE G(s) == g[s \ {Pick(s)}]
                H(s) == h(s \ {Pick(s)})[s \ {Pick(s)}]
    <3>1. \A s \in SUBSET T : s # {} => H(s) = G(s)
      BY <2>1
    <3>2. g = [s \in SUBSET T |-> IF s = {} THEN 0 ELSE b[Pick(s)].amount + H(s)]
      OBVIOUS
    <3>. HIDE DEF g, G, H
    <3>3. g = [s \in SUBSET T |-> IF s = {} THEN 0 ELSE b[Pick(s)].amount + G(s)]
      BY <3>1, <3>2
    <3>. QED
      BY <3>3 DEF G
  <2>. QED
    BY <2>2 DEF IsSum
<1>. HIDE DEF g, h
<1>. QED
  BY <1>1, <1>4
\* The fold of a finite set is one.
LEMMA SumIsFold ==
  ASSUME NEW S, IsFiniteSet(S), NEW b
  PROVE  \E g : IsSum(g, b, S) /\ Sum(b, S) = g[S]
  BY SumExists DEF Sum

\* The sum over nothing is nothing, over more it is a row and the sum over the
\* others.
LEMMA SumOfNothing ==
  ASSUME NEW b, NEW S, S = {}
  PROVE  Sum(b, S) = 0
<1>1. PICK g : IsSum(g, b, {}) /\ Sum(b, {}) = g[{}]
  BY SumIsFold, FS_EmptySet
<1>. QED
  BY <1>1 DEF IsSum

LEMMA SumGoesOn ==
  ASSUME NEW b, NEW S, IsFiniteSet(S), S # {}
  PROVE  Sum(b, S) = b[Pick(S)].amount + Sum(b, S \ {Pick(S)})
<1>. DEFINE V == S \ {Pick(S)}
<1>1. PICK g : IsSum(g, b, S) /\ Sum(b, S) = g[S]
  BY SumIsFold
<1>2. IsFiniteSet(V)
  BY FS_Subset
<1>3. PICK h : IsSum(h, b, V) /\ Sum(b, V) = h[V]
  BY <1>2, SumIsFold
<1>4. g[V] = h[V]
  BY <1>1, <1>3, SumsAgree
<1>5. g[S] = b[Pick(S)].amount + g[V]
  BY <1>1 DEF IsSum
<1>. QED
  BY <1>1, <1>3, <1>4, <1>5

\* Rows whose amounts are whole numbers.
Amounts(b, S) == \A p \in S : b[p].amount \in Int

LEMMA SumType ==
  ASSUME NEW S, IsFiniteSet(S), NEW b, Amounts(b, S)
  PROVE  Sum(b, S) \in Int
<1>. DEFINE Bad == {T \in SUBSET S : Sum(b, T) \notin Int}
<1>. SUFFICES ASSUME Bad # {} PROVE FALSE
  OBVIOUS
<1>1. PICK T \in Bad : \A U \in Bad : U \subseteq T => U = T
  <2>. Bad \in SUBSET SUBSET S
    OBVIOUS
  <2>. HIDE DEF Bad
  <2>. QED
    BY SmallestSubset
<1>2. T # {}
  BY <1>1, SumOfNothing
<1>3. Pick(T) \in T
  BY <1>2, PickIn
<1>4. Sum(b, T \ {Pick(T)}) \in Int
  BY <1>1, <1>3
<1>5. Sum(b, T) = b[Pick(T)].amount + Sum(b, T \ {Pick(T)})
  BY <1>1, <1>2, SumGoesOn, FS_Subset
<1>. QED
  BY <1>1, <1>3, <1>4, <1>5 DEF Amounts

\* A sum depends on the amounts of its rows and on nothing else.
LEMMA SameAmounts ==
  ASSUME NEW S, IsFiniteSet(S), NEW b, NEW c, \A p \in S : b[p].amount = c[p].amount
  PROVE  Sum(b, S) = Sum(c, S)
<1>. DEFINE Bad == {T \in SUBSET S : Sum(b, T) # Sum(c, T)}
<1>. SUFFICES ASSUME Bad # {} PROVE FALSE
  OBVIOUS
<1>1. PICK T \in Bad : \A U \in Bad : U \subseteq T => U = T
  <2>. Bad \in SUBSET SUBSET S
    OBVIOUS
  <2>. HIDE DEF Bad
  <2>. QED
    BY SmallestSubset
<1>2. T # {}
  BY <1>1, SumOfNothing
<1>3. Pick(T) \in T
  BY <1>2, PickIn
<1>4. Sum(b, T \ {Pick(T)}) = Sum(c, T \ {Pick(T)})
  BY <1>1, <1>3
<1>5. /\ Sum(b, T) = b[Pick(T)].amount + Sum(b, T \ {Pick(T)})
      /\ Sum(c, T) = c[Pick(T)].amount + Sum(c, T \ {Pick(T)})
  BY <1>1, <1>2, SumGoesOn, FS_Subset
<1>. QED
  BY <1>1, <1>3, <1>4, <1>5

\* Any row of a set may come first.
LEMMA SumTakesOut ==
  ASSUME NEW S, IsFiniteSet(S), NEW b, Amounts(b, S), NEW p \in S
  PROVE  Sum(b, S) = b[p].amount + Sum(b, S \ {p})
<1>. DEFINE Bad == {T \in SUBSET S : \E x \in T : Sum(b, T) # b[x].amount + Sum(b, T \ {x})}
<1>. SUFFICES ASSUME Bad # {} PROVE FALSE
  OBVIOUS
<1>1. PICK T \in Bad : \A U \in Bad : U \subseteq T => U = T
  <2>. Bad \in SUBSET SUBSET S
    OBVIOUS
  <2>. HIDE DEF Bad
  <2>. QED
    BY SmallestSubset
<1>2. PICK x \in T : Sum(b, T) # b[x].amount + Sum(b, T \ {x})
  BY <1>1
<1>3. PICK y \in T : y = Pick(T)
  BY PickIn
<1>4. IsFiniteSet(T) /\ IsFiniteSet(T \ {x}) /\ IsFiniteSet(T \ {y}) /\ IsFiniteSet((T \ {x}) \ {y})
  BY <1>1, FS_Subset
<1>5. Sum(b, T) = b[y].amount + Sum(b, T \ {y})
  BY <1>3, <1>4, SumGoesOn
<1>6. x # y
  BY <1>2, <1>5
<1>7. Sum(b, T \ {y}) = b[x].amount + Sum(b, (T \ {y}) \ {x})
  <2>. T \ {y} \in SUBSET S /\ T \ {y} # T /\ x \in T \ {y}
    BY <1>1, <1>6
  <2>. QED
    BY <1>1
<1>8. Sum(b, T \ {x}) = b[y].amount + Sum(b, (T \ {x}) \ {y})
  <2>. T \ {x} \in SUBSET S /\ T \ {x} # T /\ y \in T \ {x}
    BY <1>1, <1>6
  <2>. QED
    BY <1>1
<1>9. (T \ {x}) \ {y} = (T \ {y}) \ {x}
  OBVIOUS
<1>10. b[x].amount \in Int /\ b[y].amount \in Int /\ Sum(b, (T \ {x}) \ {y}) \in Int
  BY <1>1, <1>4, SumType DEF Amounts
<1>11. PICK n, i, j : n = Sum(b, (T \ {x}) \ {y}) /\ i = b[x].amount /\ j = b[y].amount
  OBVIOUS
<1>12. Sum(b, T) = j + (i + n) /\ Sum(b, T \ {x}) = j + n
  BY <1>5, <1>7, <1>8, <1>9, <1>11
<1>13. i \in Int /\ j \in Int /\ n \in Int
  BY <1>10, <1>11
<1>. HIDE DEF Bad
<1>. QED
  BY <1>2, <1>11, <1>12, <1>13

\* A row more.
LEMMA SumTakesIn ==
  ASSUME NEW S, IsFiniteSet(S), NEW b, NEW p, p \notin S, Amounts(b, S \cup {p})
  PROVE  Sum(b, S \cup {p}) = b[p].amount + Sum(b, S)
<1>1. IsFiniteSet(S \cup {p})
  BY FS_AddElement
<1>2. (S \cup {p}) \ {p} = S
  OBVIOUS
<1>. QED
  BY <1>1, <1>2, SumTakesOut

\* What two sets with nothing in common add up to.
LEMMA SumOfBoth ==
  ASSUME NEW S, IsFiniteSet(S), NEW T, IsFiniteSet(T), S \cap T = {}, NEW b, Amounts(b, S \cup T)
  PROVE  Sum(b, S \cup T) = Sum(b, S) + Sum(b, T)
<1>. DEFINE Bad == {U \in SUBSET T : Sum(b, S \cup U) # Sum(b, S) + Sum(b, U)}
<1>. SUFFICES ASSUME Bad # {} PROVE FALSE
  OBVIOUS
<1>1. PICK U \in Bad : \A V \in Bad : V \subseteq U => V = U
  <2>. Bad \in SUBSET SUBSET T
    OBVIOUS
  <2>. HIDE DEF Bad
  <2>. QED
    BY SmallestSubset
<1>2. IsFiniteSet(U) /\ Sum(b, S) \in Int
  BY <1>1, FS_Subset, SumType DEF Amounts
<1>3. U # {}
  <2>. SUFFICES ASSUME U = {} PROVE FALSE
    OBVIOUS
  <2>1. S \cup U = S /\ Sum(b, U) = 0
    BY SumOfNothing
  <2>. QED
    BY <1>1, <1>2, <2>1
<1>4. PICK p : p \in U
  BY <1>3
<1>. DEFINE V == U \ {p}
<1>5. Sum(b, S \cup V) = Sum(b, S) + Sum(b, V)
  BY <1>1, <1>4
<1>6. Sum(b, U) = b[p].amount + Sum(b, V)
  BY <1>1, <1>2, <1>4, SumTakesOut DEF Amounts
<1>7. Sum(b, S \cup U) = b[p].amount + Sum(b, S \cup V)
  <2>1. IsFiniteSet(S \cup U) /\ (S \cup U) \ {p} = S \cup V /\ Amounts(b, S \cup U)
    BY <1>1, <1>2, <1>4, FS_Union DEF Amounts
  <2>. QED
    BY <1>4, <2>1, SumTakesOut
<1>8. b[p].amount \in Int /\ Sum(b, V) \in Int
  BY <1>1, <1>2, <1>4, SumType, FS_Subset DEF Amounts
<1>. HIDE DEF V
<1>. QED
  BY <1>1, <1>2, <1>5, <1>6, <1>7, <1>8

\* What an account receives from rows, and what they say of a source.
Received(b, a, S) == Sum(b, {p \in S : b[p].account = a})
About(b, s, S) == Sum(b, {p \in S : b[p].of = s})

LEMMA ReceivedIs ==
  ASSUME NEW b, NEW a, NEW S, NEW T, \A p : p \in T <=> p \in S /\ b[p].account = a
  PROVE  Received(b, a, S) = Sum(b, T)
<1>1. T = {p \in S : b[p].account = a}
  OBVIOUS
<1>. QED
  BY <1>1 DEF Received

\* A row added to the table changes nothing for the rows that were there.
LEMMA SameRows ==
  ASSUME NEW S, IsFiniteSet(S), NEW b, NEW c, \A p \in S : c[p] = b[p]
  PROVE  /\ Sum(c, S) = Sum(b, S)
         /\ \A a : Received(c, a, S) = Received(b, a, S)
         /\ \A s : About(c, s, S) = About(b, s, S)
<1>1. ASSUME NEW T \in SUBSET S PROVE Sum(c, T) = Sum(b, T)
  BY FS_Subset, SameAmounts
<1>2. ASSUME NEW a PROVE Received(c, a, S) = Received(b, a, S)
  <2>. DEFINE T == {p \in S : b[p].account = a}
  <2>1. {p \in S : c[p].account = a} = T
    OBVIOUS
  <2>. QED
    BY <1>1, <2>1 DEF Received
<1>3. ASSUME NEW s PROVE About(c, s, S) = About(b, s, S)
  <2>. DEFINE T == {p \in S : b[p].of = s}
  <2>1. {p \in S : c[p].of = s} = T
    OBVIOUS
  <2>. QED
    BY <1>1, <2>1 DEF About
<1>. QED
  BY <1>1, <1>2, <1>3

\* Rows that have nothing in common bring each what they bring.
LEMMA ReceivedFromBoth ==
  ASSUME NEW S, IsFiniteSet(S), NEW T, IsFiniteSet(T), S \cap T = {}, NEW b, Amounts(b, S \cup T),
         NEW a
  PROVE  Received(b, a, S \cup T) = Received(b, a, S) + Received(b, a, T)
<1>. DEFINE U == {p \in S : b[p].account = a}
            V == {p \in T : b[p].account = a}
<1>1. {p \in S \cup T : b[p].account = a} = U \cup V
  OBVIOUS
<1>2. IsFiniteSet(U) /\ IsFiniteSet(V) /\ U \cap V = {} /\ Amounts(b, U \cup V)
  BY FS_Subset DEF Amounts
<1>3. Sum(b, U \cup V) = Sum(b, U) + Sum(b, V)
  <2>. HIDE DEF U, V
  <2>. QED
    BY <1>2, SumOfBoth
<1>. QED
  BY <1>1, <1>3 DEF Received

LEMMA AboutBoth ==
  ASSUME NEW S, IsFiniteSet(S), NEW T, IsFiniteSet(T), S \cap T = {}, NEW b, Amounts(b, S \cup T),
         NEW s
  PROVE  About(b, s, S \cup T) = About(b, s, S) + About(b, s, T)
<1>. DEFINE U == {p \in S : b[p].of = s}
            V == {p \in T : b[p].of = s}
<1>1. {p \in S \cup T : b[p].of = s} = U \cup V
  OBVIOUS
<1>2. IsFiniteSet(U) /\ IsFiniteSet(V) /\ U \cap V = {} /\ Amounts(b, U \cup V)
  BY FS_Subset DEF Amounts
<1>3. Sum(b, U \cup V) = Sum(b, U) + Sum(b, V)
  <2>. HIDE DEF U, V
  <2>. QED
    BY <1>2, SumOfBoth
<1>. QED
  BY <1>1, <1>3 DEF About

\* A row brings its account its amount, and the others nothing.
LEMMA OneBrings ==
  ASSUME NEW b, NEW p, b[p].amount \in Int
  PROVE  \A a : Received(b, a, {p}) = IF b[p].account = a THEN b[p].amount ELSE 0
<1>. TAKE a
<1>1. CASE b[p].account = a
  <2>1. Received(b, a, {p}) = Sum(b, {} \cup {p})
    BY <1>1, ReceivedIs
  <2>2. Sum(b, {} \cup {p}) = b[p].amount + Sum(b, {})
    BY FS_EmptySet, SumTakesIn DEF Amounts
  <2>3. Sum(b, {}) = 0
    BY SumOfNothing
  <2>. QED
    BY <1>1, <2>1, <2>2, <2>3
<1>2. CASE b[p].account # a
  <2>1. Received(b, a, {p}) = Sum(b, {})
    BY <1>2, ReceivedIs
  <2>2. Sum(b, {}) = 0
    BY SumOfNothing
  <2>. QED
    BY <1>2, <2>1, <2>2
<1>. QED
  BY <1>1, <1>2

\* What the rows that are still to be recorded add up to.
Owed(ls) == IF ls = <<>> THEN 0 ELSE IF Len(ls) = 1 THEN ls[1][2] ELSE ls[1][2] + ls[2][2]

\* The rows of a transfer, and those that undo it, cancel each other out.
LEMMA TransferLines ==
  ASSUME NEW s \in Sources, KindOf[s] = "transfer"
  PROVE  /\ Len(Lines(s)) <= 2 /\ Owed(Lines(s)) = 0
         /\ Len(Reversal(s)) <= 2 /\ Owed(Reversal(s)) = 0
<1>1. PICK n \in Int : n = AmountOf[s]
  OBVIOUS
<1>2. Lines(s) = << <<FromOf[s], -n>>, <<ToOf[s], n>> >>
  BY <1>1 DEF Lines
<1>3. Reversal(s) = << <<FromOf[s], -(-n)>>, <<ToOf[s], -n>> >>
  BY <1>2 DEF Reversal
<1>. QED
  BY <1>1, <1>2, <1>3 DEF Owed

\* Recording the first of them leaves the others.
LEMMA OwedLess ==
  ASSUME NEW ls \in Seq(Line), ls # <<>>, Len(ls) <= 2
  PROVE  /\ Owed(ls) = Head(ls)[2] + Owed(Tail(ls))
         /\ Owed(Tail(ls)) \in Int /\ Head(ls)[2] \in Int
<1>1. PICK n \in Nat, t \in Seq(Line) :
        n = Len(ls) /\ n # 0 /\ n <= 2 /\ t = Tail(ls) /\ Len(t) = n - 1
  BY EmptySeq, HeadTailProperties
<1>2. Head(ls) = ls[1] /\ ls[1] \in Line
  BY <1>1
<1>3. CASE n = 1
  <2>1. Len(t) = 0
    BY <1>1, <1>3
  <2>2. t = <<>>
    BY <2>1
  <2>. QED
    BY <1>1, <1>2, <1>3, <2>2 DEF Owed, Line
<1>4. CASE n = 2
  <2>1. Len(t) = 1
    BY <1>1, <1>4
  <2>2. t # <<>>
    <3>1. Len(<<>>) = 0 /\ 0 # 1
      OBVIOUS
    <3>. QED
      BY <2>1, <3>1, Zenon
  <2>3. 1 \in 1..Len(t)
    BY <2>1
  <2>4. t[1] \in Line
    BY <2>3, ElementOfSeq
  <2>5. Tail(ls)[1] = ls[1 + 1]
    BY <1>1, <2>3, HeadTailProperties
  <2>. QED
    BY <1>1, <1>2, <1>4, <2>1, <2>2, <2>4, <2>5 DEF Owed, Line
<1>. QED
  BY <1>1, <1>3, <1>4

-----------------------------------------------------------------------------
(* The books. *)

\* A worker credits each row that it locks once, and has added to the totals
\* what it has credited.
Tally(w) ==
    /\ tx[w].rows \cup tx[w].todo \cup tx[w].done \subseteq recorded \cup tx[w].mine
    /\ tx[w].rows \cap tx[w].todo = {}
    /\ (tx[w].rows \cup tx[w].todo) \cap tx[w].done = {}
    /\ tx[w].at # "lock" => tx[w].rows \cup tx[w].todo = {}
    /\ \A a \in Accounts : tx[w].change[a] = Received(body, a, tx[w].done)

\* Nobody sees one half of a transfer: what its rows add up to is made up for
\* by the rows still to be recorded in the same transaction.
Halves(w) ==
    /\ \A p \in tx[w].mine : body[p].of = tx[w].of
    /\ tx[w].at # "idle" /\ KindOf[tx[w].of] = "transfer" =>
        /\ tx[w].atomic
        /\ tx[w].mine \cap recorded = {}
        /\ Len(tx[w].lines) <= 2
        /\ Sum(body, tx[w].mine) + Owed(tx[w].lines) = 0

Totals == \A a \in Accounts : total[a] = Received(body, a, credited)
Evened == \A s \in Sources : KindOf[s] = "transfer" => About(body, s, credited) = 0
NoHalfLeft == \A p \in recorded \ credited : KindOf[body[p].of] # "transfer"
OneRecorder == \A v, w \in Workers : v # w => tx[v].mine \cap tx[w].mine = {}

Books ==
    /\ credited \subseteq recorded
    /\ Totals
    /\ Evened
    /\ NoHalfLeft
    /\ OneRecorder
    /\ \A w \in Workers : Tally(w) /\ Halves(w)

\* The rows that there are, are finitely many and their amounts whole numbers.
LEMMA RowsCount ==
  ASSUME LedgerInv, NEW S \in SUBSET DOMAIN body
  PROVE  IsFiniteSet(S) /\ Amounts(body, S)
<1>1. body \in Seq(Body)
  BY DEF LedgerInv, TypeOK
<1>2. DOMAIN body = 1..Len(body) /\ Len(body) \in Nat
  BY <1>1
<1>3. IsFiniteSet(DOMAIN body)
  BY <1>2, FS_Interval
<1>4. IsFiniteSet(S)
  BY <1>3, FS_Subset
<1>5. ASSUME NEW p \in S PROVE body[p].amount \in Int
  <2>1. body[p] \in Body
    BY <1>1
  <2>. QED
    BY <2>1 DEF Body
<1>. QED
  BY <1>4, <1>5 DEF Amounts

\* The rows of a worker are in the table.
LEMMA RowsExist ==
  ASSUME LedgerInv, Books, NEW w \in Workers
  PROVE  /\ tx[w].mine \subseteq DOMAIN body /\ tx[w].done \subseteq DOMAIN body
         /\ credited \subseteq DOMAIN body
  BY DEF LedgerInv, Coherent, Books, Tally

\* The totals of the accounts are right as long as nobody touches them.
LEMMA SameTotals ==
  ASSUME LedgerInv, Books, \A p \in DOMAIN body : body'[p] = body[p],
         credited' = credited, total' = total
  PROVE  Totals' /\ Evened'
<1>1. credited \subseteq DOMAIN body
  BY DEF LedgerInv, Books
<1>2. IsFiniteSet(credited)
  BY <1>1, RowsCount
<1>3. /\ \A a : Received(body', a, credited) = Received(body, a, credited)
      /\ \A s : About(body', s, credited) = About(body, s, credited)
  BY <1>1, <1>2, SameRows
<1>. QED
  BY <1>3 DEF Books, Totals, Evened

\* The books of the others.
LEMMA OthersTally ==
  ASSUME LedgerInv, Books, NEW v \in Workers, tx'[v] = tx[v],
         \A p \in DOMAIN body : body'[p] = body[p],
         recorded \subseteq recorded', tx[v].mine \cap recorded' \subseteq recorded
  PROVE  Tally(v)' /\ Halves(v)'
<1>1. /\ tx[v].mine \subseteq DOMAIN body /\ tx[v].done \subseteq DOMAIN body
      /\ IsFiniteSet(tx[v].mine) /\ IsFiniteSet(tx[v].done)
  BY RowsExist, RowsCount
<1>2. /\ Sum(body', tx[v].mine) = Sum(body, tx[v].mine)
      /\ \A a : Received(body', a, tx[v].done) = Received(body, a, tx[v].done)
  BY <1>1, SameRows
<1>3. Tally(v)'
  BY <1>2 DEF Books, Tally
<1>4. Halves(v)'
  BY <1>1, <1>2 DEF Books, Halves
<1>. QED
  BY <1>3, <1>4

\* What a step of w has to show for itself.
LEMMA StepBalances ==
  ASSUME LedgerInv, Books, NEW w \in Workers,
         \A v \in Workers \ {w} : tx'[v] = tx[v],
         \A p \in DOMAIN body : body'[p] = body[p],
         recorded \subseteq recorded', credited' \subseteq recorded',
         \A v \in Workers \ {w} : tx[v].mine \cap (tx'[w].mine \cup (recorded' \ recorded)) = {},
         Totals', Evened', NoHalfLeft', Tally(w)', Halves(w)'
  PROVE  Books'
<1>1. OneRecorder'
  <2>. SUFFICES ASSUME NEW u \in Workers, NEW v \in Workers, u # v
                PROVE  tx'[u].mine \cap tx'[v].mine = {}
    BY DEF OneRecorder
  <2>1. CASE u # w /\ v # w
    BY <2>1 DEF Books, OneRecorder
  <2>2. CASE u = w \/ v = w
    BY <2>2
  <2>. QED
    BY <2>1, <2>2
<1>2. ASSUME NEW v \in Workers \ {w} PROVE Tally(v)' /\ Halves(v)'
  BY OthersTally
<1>. QED
  BY <1>1, <1>2 DEF Books

\* A step that leaves the rows and the totals alone.
LEMMA QuietStep ==
  ASSUME LedgerInv, Books, NEW w \in Workers,
         \A v \in Workers \ {w} : tx'[v] = tx[v],
         UNCHANGED <<body, recorded, credited, total>>,
         tx'[w].mine \subseteq tx[w].mine, Tally(w)', Halves(w)'
  PROVE  Books'
<1>1. Totals' /\ Evened'
  BY SameTotals
<1>2. NoHalfLeft' /\ credited' \subseteq recorded'
  BY DEF Books, NoHalfLeft
<1>3. \A v \in Workers \ {w} : tx[v].mine \cap (tx'[w].mine \cup (recorded' \ recorded)) = {}
  BY DEF Books, OneRecorder
<1>. QED
  BY <1>1, <1>2, <1>3, StepBalances

\* A worker that has nothing to do.
LEMMA IdleTally ==
  ASSUME NEW w \in Workers, tx'[w] = Idle
  PROVE  Tally(w)' /\ Halves(w)'
<1>1. \A a : Received(body', a, {}) = 0
  <2>. TAKE a
  <2>1. Received(body', a, {}) = Sum(body', {})
    BY ReceivedIs
  <2>. QED
    BY <2>1, SumOfNothing
<1>2. \A a \in Accounts : Idle.change[a] = 0
  BY DEF Idle, NoChange
<1>3. /\ Idle.at = "idle" /\ Idle.mine = {} /\ Idle.rows = {} /\ Idle.todo = {} /\ Idle.done = {}
  BY DEF Idle
<1>4. Tally(w)'
  BY <1>1, <1>2, <1>3 DEF Tally
<1>5. Halves(w)'
  BY <1>3 DEF Halves
<1>. QED
  BY <1>4, <1>5

\* The halves are as they were if the request is, and its rows are.
LEMMA SameHalves ==
  ASSUME Books, NEW w \in Workers, UNCHANGED <<body, recorded>>,
         tx'[w].of = tx[w].of, tx'[w].atomic = tx[w].atomic, tx'[w].lines = tx[w].lines,
         tx'[w].mine = tx[w].mine, tx[w].at # "idle"
  PROVE  Halves(w)'
  BY DEF Books, Halves

\* A request that begins owes the rows of its source, or of its deletion.
LEMMA BeginBalances ==
  ASSUME LedgerInv, Books, NEW w \in Workers, Begin(w)
  PROVE  Books'
<1>. tx \in [Workers -> Tx]
  BY DEF LedgerInv, TypeOK
<1>1. ASSUME NEW s \in Sources, NEW r, tx' = [tx EXCEPT ![w] = r],
             UNCHANGED <<body, recorded, credited, total>>,
             r.at \in {"insert", "unlink"}, r.of = s,
             r.mine = {}, r.rows = {}, r.todo = {}, r.done = {}, r.change = Idle.change,
             KindOf[s] = "transfer" => r.atomic /\ Len(r.lines) <= 2 /\ Owed(r.lines) = 0
      PROVE  Books'
  <2>1. tx'[w] = r /\ \A v \in Workers \ {w} : tx'[v] = tx[v]
    BY <1>1
  <2>2. Sum(body', {}) = 0
    BY SumOfNothing
  <2>3. \A a \in Accounts : r.change[a] = 0 /\ Received(body', a, {}) = 0
    <3>. TAKE a \in Accounts
    <3>1. Received(body', a, {}) = Sum(body', {})
      BY ReceivedIs
    <3>. QED
      BY <1>1, <2>2, <3>1 DEF Idle, NoChange
  <2>4. Tally(w)'
    BY <1>1, <2>1, <2>3 DEF Tally
  <2>5. Halves(w)'
    <3>1. Sum(body', r.mine) = 0
      BY <1>1, SumOfNothing
    <3>2. KindOf[s] = "transfer" => Sum(body', r.mine) + Owed(r.lines) = 0
      BY <1>1, <3>1
    <3>. QED
      BY <1>1, <2>1, <3>2 DEF Halves
  <2>. QED
    BY <1>1, <2>1, <2>4, <2>5, QuietStep
<1>2. CASE ReceiveIPN(w)
  <2>1. PICK s \in Sources :
          /\ KindOf[s] = "ipn"
          /\ tx' = [tx EXCEPT ![w] = IF Lines(s) = <<>> THEN Idle
                                     ELSE [Idle EXCEPT !.at = "insert", !.of = s, !.lines = Lines(s)]]
          /\ UNCHANGED <<body, recorded, credited, total>>
    BY <1>2 DEF ReceiveIPN
  <2>2. CASE Lines(s) = <<>>
    <3>1. tx'[w] = Idle /\ \A v \in Workers \ {w} : tx'[v] = tx[v]
      BY <2>1, <2>2
    <3>2. tx'[w].mine = {}
      BY <3>1 DEF Idle
    <3>. QED
      BY <2>1, <3>1, <3>2, IdleTally, QuietStep
  <2>3. CASE Lines(s) # <<>>
    <3>. DEFINE r == [Idle EXCEPT !.at = "insert", !.of = s, !.lines = Lines(s)]
    <3>1. /\ r.at = "insert" /\ r.of = s /\ r.change = Idle.change
          /\ r.mine = {} /\ r.rows = {} /\ r.todo = {} /\ r.done = {}
      BY DEF Idle
    <3>2. tx' = [tx EXCEPT ![w] = r] /\ KindOf[s] # "transfer"
      BY <2>1, <2>3
    <3>. HIDE DEF r
    <3>. QED
      BY <1>1, <2>1, <3>1, <3>2
  <2>. QED
    BY <2>2, <2>3
<1>3. CASE Enter(w)
  <2>1. PICK s \in Sources :
          /\ tx' = [tx EXCEPT ![w] = [Idle EXCEPT !.at = "insert", !.of = s, !.atomic = TRUE,
                                                  !.lines = Lines(s)]]
          /\ UNCHANGED tables
    BY <1>3 DEF Enter
  <2>. DEFINE r == [Idle EXCEPT !.at = "insert", !.of = s, !.atomic = TRUE, !.lines = Lines(s)]
  <2>2. /\ r.at = "insert" /\ r.of = s /\ r.atomic /\ r.lines = Lines(s) /\ r.change = Idle.change
        /\ r.mine = {} /\ r.rows = {} /\ r.todo = {} /\ r.done = {}
    BY DEF Idle
  <2>3. KindOf[s] = "transfer" => Len(r.lines) <= 2 /\ Owed(r.lines) = 0
    BY <2>2, TransferLines
  <2>4. UNCHANGED <<body, recorded, credited, total>> /\ tx' = [tx EXCEPT ![w] = r]
    BY <2>1 DEF tables
  <2>. HIDE DEF r
  <2>. QED
    BY <1>1, <2>2, <2>3, <2>4
<1>4. CASE Delete(w)
  <2>1. PICK s \in Sources :
          /\ tx' = [tx EXCEPT ![w] = [Idle EXCEPT !.at = "unlink", !.of = s, !.becomes = "deleted",
                                                  !.atomic = TRUE, !.lines = Reversal(s)]]
          /\ UNCHANGED tables
    BY <1>4 DEF Delete
  <2>. DEFINE r == [Idle EXCEPT !.at = "unlink", !.of = s, !.becomes = "deleted",
                                !.atomic = TRUE, !.lines = Reversal(s)]
  <2>2. /\ r.at = "unlink" /\ r.of = s /\ r.atomic /\ r.lines = Reversal(s) /\ r.change = Idle.change
        /\ r.mine = {} /\ r.rows = {} /\ r.todo = {} /\ r.done = {}
    BY DEF Idle
  <2>3. KindOf[s] = "transfer" => Len(r.lines) <= 2 /\ Owed(r.lines) = 0
    BY <2>2, TransferLines
  <2>4. UNCHANGED <<body, recorded, credited, total>> /\ tx' = [tx EXCEPT ![w] = r]
    BY <2>1 DEF tables
  <2>. HIDE DEF r
  <2>. QED
    BY <1>1, <2>2, <2>3, <2>4
<1>5. CASE Unlink(w)
  <2>1. /\ tx[w].at = "unlink" /\ UNCHANGED tables
        /\ tx' = [tx EXCEPT ![w].at = "insert", ![w].held = Linked(tx[w].of)]
    BY <1>5 DEF Unlink
  <2>2. PICK t, H, u : t = tx[w] /\ H = Linked(tx[w].of) /\ u = tx'[w]
    OBVIOUS
  <2>3. t \in Tx /\ u = [t EXCEPT !.at = "insert", !.held = H] /\ \A v \in Workers \ {w} : tx'[v] = tx[v]
    BY <2>1, <2>2
  <2>4. /\ u.of = t.of /\ u.atomic = t.atomic /\ u.lines = t.lines /\ u.mine = t.mine
        /\ u.rows = t.rows /\ u.todo = t.todo /\ u.done = t.done /\ u.change = t.change
        /\ u.at = "insert"
    BY <2>3 DEF Tx
  <2>5. Halves(w)'
    BY <2>1, <2>2, <2>4, SameHalves DEF tables
  <2>6. Tally(w)'
    BY <2>1, <2>2, <2>4 DEF Books, Tally, tables
  <2>. QED
    BY <2>1, <2>2, <2>3, <2>4, <2>5, <2>6, QuietStep DEF tables
<1>. QED
  BY <1>2, <1>3, <1>4, <1>5 DEF Begin

\* A row that is recorded is no longer owed.
LEMMA CreateBalances ==
  ASSUME LedgerInv, Books, NEW w \in Workers, CreatePayment(w)
  PROVE  Books'
<1>. DEFINE p == Len(body) + 1
            line == Head(tx[w].lines)
            row == [account |-> line[1], amount |-> line[2], of |-> tx[w].of]
<1>1. /\ tx[w].at = "insert" /\ body' = Append(body, row)
      /\ recorded' = IF tx[w].atomic THEN recorded ELSE recorded \cup {p}
      /\ tx' = [tx EXCEPT ![w].at = "pass", ![w].lines = Tail(@), ![w].mine = @ \cup {p}]
      /\ UNCHANGED <<credited, total>>
  BY DEF CreatePayment
<1>2. tx \in [Workers -> Tx] /\ tx[w] \in Tx /\ body \in Seq(Body)
  BY DEF LedgerInv, TypeOK
<1>3. tx[w].lines \in Seq(Line) /\ tx[w].lines # <<>> /\ tx[w].of \in Sources
  BY <1>1, <1>2 DEF LedgerInv, Tx, Coherent, Line
<1>4. /\ p \notin DOMAIN body /\ body'[p] = row /\ DOMAIN body' = DOMAIN body \cup {p}
      /\ \A q \in DOMAIN body : body'[q] = body[q]
  BY <1>1, <1>2
<1>5. row.amount = line[2] /\ row.of = tx[w].of
  OBVIOUS
<1>. HIDE DEF row, line, p
<1>6. PICK t, ls, M, u : t = tx[w] /\ ls = Tail(tx[w].lines) /\ M = tx[w].mine \cup {p} /\ u = tx'[w]
  OBVIOUS
<1>7. u = [t EXCEPT !.at = "pass", !.lines = ls, !.mine = M] /\ \A v \in Workers \ {w} : tx'[v] = tx[v]
  BY <1>1, <1>2, <1>6
<1>8. /\ u.at = "pass" /\ u.lines = ls /\ u.mine = M /\ u.of = t.of /\ u.atomic = t.atomic
      /\ u.rows = t.rows /\ u.todo = t.todo /\ u.done = t.done /\ u.change = t.change
  BY <1>2, <1>6, <1>7 DEF Tx
<1>9. /\ tx[w].mine \subseteq DOMAIN body /\ tx[w].done \subseteq DOMAIN body
      /\ \A v \in Workers : tx[v].mine \subseteq DOMAIN body
      /\ IsFiniteSet(tx[w].mine) /\ IsFiniteSet(tx[w].done)
  BY RowsExist, RowsCount
<1>10. Totals' /\ Evened'
  BY <1>1, <1>4, SameTotals
<1>11. Tally(w)'
  <2>1. \A a : Received(body', a, tx[w].done) = Received(body, a, tx[w].done)
    BY <1>4, <1>9, SameRows
  <2>2. tx[w].at # "lock" /\ Tally(w)
    BY <1>1 DEF Books
  <2>3. recorded \subseteq recorded'
    BY <1>1
  <2>. QED
    BY <1>6, <1>8, <2>1, <2>2, <2>3 DEF Tally
<1>12. Halves(w)'
  <2>1. \A q \in tx'[w].mine : body'[q].of = tx'[w].of
    BY <1>4, <1>5, <1>6, <1>8, <1>9 DEF Books, Halves
  <2>2. ASSUME KindOf[tx[w].of] = "transfer"
        PROVE  /\ tx[w].atomic /\ (tx[w].mine \cup {p}) \cap recorded' = {}
               /\ Len(ls) <= 2 /\ Sum(body', M) + Owed(ls) = 0
    <3>1. /\ tx[w].atomic /\ tx[w].mine \cap recorded = {} /\ Len(tx[w].lines) <= 2
          /\ Sum(body, tx[w].mine) + Owed(tx[w].lines) = 0
      BY <1>1, <2>2 DEF Books, Halves
    <3>2. /\ Owed(tx[w].lines) = line[2] + Owed(ls)
          /\ Owed(ls) \in Int /\ line[2] \in Int
      BY <1>3, <1>6, <3>1, OwedLess DEF line
    <3>3. Len(ls) <= 2
      BY <1>3, <1>6, <3>1, HeadTailProperties, LenProperties
    <3>4. Sum(body', M) = body'[p].amount + Sum(body', tx[w].mine)
      <4>1. Amounts(body', M)
        BY <1>4, <1>5, <1>6, <1>9, <3>2, RowsCount DEF Amounts
      <4>. QED
        BY <1>4, <1>6, <1>9, <4>1, SumTakesIn
    <3>5. Sum(body', tx[w].mine) = Sum(body, tx[w].mine) /\ Sum(body, tx[w].mine) \in Int
      BY <1>4, <1>9, SameRows, SumType, RowsCount
    <3>6. PICK i \in Int, j \in Int, k \in Int :
            /\ i = line[2] /\ j = Owed(ls) /\ k = Sum(body, tx[w].mine)
            /\ Sum(body', M) = i + k /\ k + (i + j) = 0
      BY <1>4, <1>5, <3>1, <3>2, <3>4, <3>5
    <3>7. Sum(body', M) + Owed(ls) = 0
      BY <3>6
    <3>8. (tx[w].mine \cup {p}) \cap recorded' = {}
      BY <1>1, <1>4, <3>1 DEF LedgerInv
    <3>. QED
      BY <3>1, <3>3, <3>7, <3>8
  <2>. QED
    BY <1>6, <1>8, <2>1, <2>2 DEF Halves
<1>13. NoHalfLeft'
  <2>1. ASSUME NEW q \in recorded' \ credited' PROVE KindOf[body'[q].of] # "transfer"
    <3>1. CASE q \in recorded
      BY <1>1, <1>4, <2>1, <3>1 DEF Books, NoHalfLeft, LedgerInv
    <3>2. CASE q \notin recorded
      <4>1. q = p /\ ~tx[w].atomic
        BY <1>1, <2>1, <3>2
      <4>. QED
        BY <1>1, <1>4, <1>5, <4>1 DEF Books, Halves
    <3>. QED
      BY <3>1, <3>2
  <2>. QED
    BY <2>1 DEF NoHalfLeft
<1>14. \A v \in Workers \ {w} : tx[v].mine \cap (tx'[w].mine \cup (recorded' \ recorded)) = {}
  BY <1>1, <1>4, <1>6, <1>8, <1>9 DEF Books, OneRecorder
<1>15. recorded \subseteq recorded' /\ credited' \subseteq recorded'
  BY <1>1 DEF Books
<1>. QED
  BY <1>4, <1>6, <1>7, <1>10, <1>11, <1>12, <1>13, <1>14, <1>15, StepBalances

\* A pass touches each row once: it is found, then locked, then credited.
LEMMA PassBalances ==
  ASSUME LedgerInv, Books, NEW w \in Workers, Pass(w)
  PROVE  Books'
<1>. tx \in [Workers -> Tx] /\ tx[w] \in Tx
  BY DEF LedgerInv, TypeOK
<1>. Tally(w) /\ credited \subseteq recorded
  BY DEF Books
<1>1. CASE OpenPass(w)
  <2>1. /\ tx[w].at = "pass" /\ UNCHANGED tables
        /\ tx' = [tx EXCEPT ![w].at = "lock", ![w].rows = Unprocessed(w), ![w].found = Unprocessed(w)]
    BY <1>1 DEF OpenPass
  <2>2. Unprocessed(w) \subseteq recorded \cup tx[w].mine /\ Unprocessed(w) \cap tx[w].done = {}
    BY DEF Unprocessed
  <2>3. PICK t, R, u : t = tx[w] /\ R = Unprocessed(w) /\ u = tx'[w]
    OBVIOUS
  <2>4. u = [t EXCEPT !.at = "lock", !.rows = R, !.found = R] /\ \A v \in Workers \ {w} : tx'[v] = tx[v]
    BY <2>1, <2>3
  <2>5. /\ u.rows = R /\ u.of = t.of /\ u.atomic = t.atomic /\ u.lines = t.lines
        /\ u.mine = t.mine /\ u.todo = t.todo /\ u.done = t.done /\ u.change = t.change
    BY <2>3, <2>4 DEF Tx
  <2>6. Halves(w)'
    BY <2>1, <2>3, <2>5, SameHalves DEF tables
  <2>7. Tally(w)'
    <3>1. tx[w].todo = {} /\ tx[w].todo \cup tx[w].done \subseteq recorded \cup tx[w].mine
      BY <2>1 DEF Tally
    <3>2. \A a \in Accounts : tx[w].change[a] = Received(body, a, tx[w].done)
      BY DEF Tally
    <3>. QED
      BY <2>1, <2>2, <2>3, <2>4, <2>5, <3>1, <3>2 DEF Tally, tables
  <2>. QED
    BY <2>1, <2>3, <2>4, <2>5, <2>6, <2>7, QuietStep DEF tables
<1>2. CASE LockPayment(w)
  <2>1. PICK p \in tx[w].rows :
          /\ tx[w].at = "lock" /\ UNCHANGED tables
          /\ tx' = [tx EXCEPT ![w].rows = @ \ {p},
                              ![w].todo = @ \cup (IF p \in credited THEN {} ELSE {p}),
                              ![w].held = @ \cup (IF p \in credited THEN {} ELSE {p})]
    BY <1>2 DEF LockPayment, Locking
  <2>2. PICK take \in SUBSET {p} : take = IF p \in credited THEN {} ELSE {p}
    OBVIOUS
  <2>3. PICK t, R, T, H, u :
          /\ t = tx[w] /\ R = tx[w].rows \ {p} /\ T = tx[w].todo \cup take
          /\ H = tx[w].held \cup take /\ u = tx'[w]
    OBVIOUS
  <2>4. /\ u = [t EXCEPT !.rows = R, !.todo = T, !.held = H]
        /\ \A v \in Workers \ {w} : tx'[v] = tx[v]
    BY <2>1, <2>2, <2>3
  <2>5. /\ u.at = t.at /\ u.rows = R /\ u.todo = T /\ u.of = t.of /\ u.atomic = t.atomic
        /\ u.lines = t.lines /\ u.mine = t.mine /\ u.done = t.done /\ u.change = t.change
    BY <2>3, <2>4 DEF Tx
  <2>6. Halves(w)'
    BY <2>1, <2>3, <2>5, SameHalves DEF tables
  <2>7. Tally(w)'
    <3>1. /\ tx[w].rows \cup tx[w].todo \cup tx[w].done \subseteq recorded \cup tx[w].mine
          /\ tx[w].rows \cap tx[w].todo = {} /\ (tx[w].rows \cup tx[w].todo) \cap tx[w].done = {}
          /\ \A a \in Accounts : tx[w].change[a] = Received(body, a, tx[w].done)
      BY DEF Tally
    <3>2. R \cup T \subseteq tx[w].rows \cup tx[w].todo /\ R \cap T = {}
      BY <2>1, <2>2, <2>3, <3>1
    <3>. QED
      BY <2>1, <2>3, <2>5, <3>1, <3>2 DEF Tally, tables
  <2>. QED
    BY <2>1, <2>3, <2>4, <2>5, <2>6, <2>7, QuietStep DEF tables
<1>3. CASE CreditPayment(w)
  <2>1. PICK p \in tx[w].todo :
          /\ tx[w].at = "lock" /\ UNCHANGED tables
          /\ tx' = [tx EXCEPT ![w].todo = @ \ {p}, ![w].done = @ \cup {p},
                              ![w].change[body[p].account] = @ + body[p].amount,
                              ![w].changed = @ \cup {body[p].account}]
    BY <1>3 DEF CreditPayment, Crediting
  <2>2. p \in DOMAIN body /\ p \notin tx[w].done
    BY DEF LedgerInv, Coherent, Tally
  <2>3. body[p] \in Body
    BY <2>2 DEF LedgerInv, TypeOK
  <2>4. PICK a \in Accounts, n \in Int : a = body[p].account /\ n = body[p].amount
    BY <2>3 DEF Body
  <2>5. PICK t, T, D, c, A, u :
          /\ t = tx[w] /\ T = tx[w].todo \ {p} /\ D = tx[w].done \cup {p}
          /\ c = [tx[w].change EXCEPT ![a] = @ + n] /\ A = tx[w].changed \cup {a} /\ u = tx'[w]
    OBVIOUS
  <2>6. /\ u = [t EXCEPT !.todo = T, !.done = D, !.change = c, !.changed = A]
        /\ \A v \in Workers \ {w} : tx'[v] = tx[v]
    BY <2>1, <2>4, <2>5
  <2>7. /\ u.at = t.at /\ u.todo = T /\ u.done = D /\ u.change = c /\ u.rows = t.rows
        /\ u.of = t.of /\ u.atomic = t.atomic /\ u.lines = t.lines /\ u.mine = t.mine
    BY <2>5, <2>6 DEF Tx
  <2>8. Halves(w)'
    BY <2>1, <2>5, <2>7, SameHalves DEF tables
  <2>9. \A b \in Accounts : c[b] = Received(body, b, D)
    <3>. TAKE b \in Accounts
    <3>1. tx[w].done \subseteq DOMAIN body /\ D \subseteq DOMAIN body /\ tx[w].done \cap {p} = {}
      BY <2>2, <2>5, RowsExist
    <3>2. IsFiniteSet(tx[w].done) /\ IsFiniteSet({p}) /\ Amounts(body, tx[w].done \cup {p})
      BY <2>5, <3>1, RowsCount, FS_Singleton
    <3>3. /\ D = tx[w].done \cup {p}
          /\ Received(body, b, tx[w].done \cup {p})
                = Received(body, b, tx[w].done) + Received(body, b, {p})
      BY <2>5, <3>1, <3>2, ReceivedFromBoth
    <3>4. Received(body, b, {p}) = IF a = b THEN n ELSE 0
      BY <2>4, OneBrings
    <3>5. tx[w].change \in [Accounts -> Int] /\ tx[w].change[b] = Received(body, b, tx[w].done)
      BY DEF Tally, Tx
    <3>. QED
      BY <2>5, <3>3, <3>4, <3>5
  <2>10. Tally(w)'
    <3>1. /\ tx[w].rows \cup tx[w].todo \cup tx[w].done \subseteq recorded \cup tx[w].mine
          /\ tx[w].rows \cap tx[w].todo = {} /\ (tx[w].rows \cup tx[w].todo) \cap tx[w].done = {}
      BY DEF Tally
    <3>2. /\ tx[w].rows \cup T \cup D = tx[w].rows \cup tx[w].todo \cup tx[w].done
          /\ tx[w].rows \cap T = {} /\ (tx[w].rows \cup T) \cap D = {}
      BY <2>5, <3>1
    <3>. QED
      BY <2>1, <2>5, <2>7, <2>9, <3>1, <3>2 DEF Tally, tables
  <2>. QED
    BY <2>1, <2>5, <2>6, <2>7, <2>8, <2>10, QuietStep DEF tables
<1>. QED
  BY <1>1, <1>2, <1>3 DEF Pass

\* The rows a worker commits with are a whole transfer, or of none.
LEMMA WholeTransfers ==
  ASSUME LedgerInv, Books, NEW w \in Workers, tx[w].at = "lock",
         tx[w].rows = {}, tx[w].todo = {}, tx[w].lines = <<>>,
         NEW s \in Sources, KindOf[s] = "transfer"
  PROVE  About(body, s, tx[w].done) = 0
<1>. DEFINE S == {p \in tx[w].done : body[p].of = s}
<1>1. S \subseteq tx[w].mine
  <2>. SUFFICES ASSUME NEW p \in S, p \notin tx[w].mine PROVE FALSE
    OBVIOUS
  <2>1. p \in recorded \ credited
    BY DEF LedgerInv, Coherent, Books, Tally
  <2>. QED
    BY <2>1 DEF Books, NoHalfLeft
<1>2. CASE tx[w].of # s
  <2>1. S = {}
    BY <1>1, <1>2 DEF Books, Halves
  <2>. QED
    BY <2>1, SumOfNothing DEF About
<1>3. CASE tx[w].of = s
  <2>1. tx[w].mine \cap recorded = {} /\ Sum(body, tx[w].mine) + Owed(tx[w].lines) = 0
    BY <1>3 DEF Books, Halves
  <2>2. tx[w].mine \subseteq tx[w].done /\ \A p \in tx[w].mine : body[p].of = s
    <3>1. credited \subseteq recorded /\ \A p \in tx[w].mine : body[p].of = tx[w].of
      BY DEF Books, Halves
    <3>2. tx[w].mine \subseteq tx[w].rows \cup tx[w].todo \cup tx[w].done \cup credited
      BY DEF LedgerInv, Coherent
    <3>. HIDE DEF S
    <3>. QED
      BY <1>3, <2>1, <3>1, <3>2
  <2>3. S = tx[w].mine
    BY <1>1, <2>2
  <2>4. Owed(tx[w].lines) = 0 /\ Sum(body, tx[w].mine) \in Int
    BY RowsExist, RowsCount, SumType DEF Owed
  <2>5. About(body, s, tx[w].done) = Sum(body, S)
    BY DEF About
  <2>. HIDE DEF S
  <2>6. PICK n \in Int : n = Sum(body, tx[w].mine) /\ n + 0 = 0
    BY <2>1, <2>4
  <2>. QED
    BY <2>3, <2>5, <2>6
<1>. QED
  BY <1>2, <1>3

\* The end of a request adds what it has credited to the totals.
LEMMA EndBalances ==
  ASSUME LedgerInv, Books, NEW w \in Workers, NextLine(w) \/ Commit(w)
  PROVE  Books'
<1>. tx \in [Workers -> Tx] /\ tx[w] \in Tx
  BY DEF LedgerInv, TypeOK
<1>1. CASE NextLine(w)
  <2>1. /\ tx[w].at = "lock" /\ tx[w].rows = {} /\ tx[w].todo = {} /\ UNCHANGED tables
        /\ tx' = [tx EXCEPT ![w].at = "insert"]
    BY <1>1 DEF NextLine, PassOver
  <2>2. PICK t, u : t = tx[w] /\ u = tx'[w]
    OBVIOUS
  <2>3. u = [t EXCEPT !.at = "insert"] /\ \A v \in Workers \ {w} : tx'[v] = tx[v]
    BY <2>1, <2>2
  <2>4. /\ u.of = t.of /\ u.atomic = t.atomic /\ u.lines = t.lines /\ u.mine = t.mine
        /\ u.rows = t.rows /\ u.todo = t.todo /\ u.done = t.done /\ u.change = t.change
    BY <2>2, <2>3 DEF Tx
  <2>5. Halves(w)'
    BY <2>1, <2>2, <2>4, SameHalves DEF tables
  <2>6. Tally(w)'
    BY <2>1, <2>2, <2>4 DEF Books, Tally, tables
  <2>. QED
    BY <2>1, <2>2, <2>3, <2>4, <2>5, <2>6, QuietStep DEF tables
<1>2. CASE Commit(w)
  <2>1. /\ tx[w].at = "lock" /\ tx[w].rows = {} /\ tx[w].todo = {} /\ tx[w].lines = <<>>
        /\ recorded' = recorded \cup tx[w].mine /\ credited' = credited \cup tx[w].done
        /\ total' = [a \in Accounts |-> total[a] + tx[w].change[a]]
        /\ tx' = [tx EXCEPT ![w] = Idle] /\ body' = body
    BY <1>2 DEF Commit, PassOver
  <2>2. tx'[w] = Idle /\ \A v \in Workers \ {w} : tx'[v] = tx[v]
    BY <2>1
  <2>3. Tally(w)' /\ Halves(w)'
    BY <2>2, IdleTally
  <2>4. /\ credited \cap tx[w].done = {} /\ credited \cup tx[w].done \subseteq DOMAIN body
        /\ tx[w].done \subseteq DOMAIN body /\ credited \subseteq DOMAIN body
    BY RowsExist DEF LedgerInv, Coherent
  <2>5. /\ IsFiniteSet(credited) /\ IsFiniteSet(tx[w].done)
        /\ Amounts(body, credited \cup tx[w].done)
    BY <2>4, RowsCount
  <2>7. Totals'
    <3>. SUFFICES ASSUME NEW a \in Accounts PROVE total'[a] = Received(body', a, credited')
      BY DEF Totals
    <3>1. total[a] = Received(body, a, credited) /\ tx[w].change[a] = Received(body, a, tx[w].done)
      BY DEF Books, Totals, Tally
    <3>2. total'[a] = total[a] + tx[w].change[a]
      BY <2>1
    <3>3. Received(body, a, credited \cup tx[w].done)
            = Received(body, a, credited) + Received(body, a, tx[w].done)
      BY <2>4, <2>5, ReceivedFromBoth
    <3>. QED
      BY <2>1, <3>1, <3>2, <3>3
  <2>8. Evened'
    <3>. SUFFICES ASSUME NEW s \in Sources, KindOf[s] = "transfer" PROVE About(body', s, credited') = 0
      BY DEF Evened
    <3>1. About(body, s, credited) = 0
      BY DEF Books, Evened
    <3>2. About(body, s, tx[w].done) = 0
      BY <2>1, WholeTransfers
    <3>3. About(body, s, credited \cup tx[w].done)
            = About(body, s, credited) + About(body, s, tx[w].done)
      BY <2>4, <2>5, AboutBoth
    <3>. QED
      BY <2>1, <3>1, <3>2, <3>3
  <2>9. NoHalfLeft'
    <3>1. recorded' \ credited' \subseteq recorded \ credited
      BY <2>1 DEF LedgerInv, Coherent
    <3>. QED
      BY <2>1, <3>1 DEF Books, NoHalfLeft
  <2>10. recorded \subseteq recorded' /\ credited' \subseteq recorded'
    BY <2>1 DEF Books, Tally
  <2>11. \A v \in Workers \ {w} : tx[v].mine \cap (tx'[w].mine \cup (recorded' \ recorded)) = {}
    <3>1. tx'[w].mine = {}
      BY <2>2 DEF Idle
    <3>. QED
      BY <2>1, <3>1 DEF Books, OneRecorder
  <2>. QED
    BY <2>1, <2>2, <2>3, <2>7, <2>8, <2>9, <2>10, <2>11, StepBalances
<1>. QED
  BY <1>1, <1>2

\* What is undone had not been added to any total.
LEMMA RollBackBalances ==
  ASSUME LedgerInv, Books, NEW w \in Workers, RollBack(w)
  PROVE  Books'
<1>1. tx' = [tx EXCEPT ![w] = Idle] /\ UNCHANGED <<body, recorded, credited, total>>
  BY DEF RollBack
<1>2. tx'[w] = Idle /\ \A v \in Workers \ {w} : tx'[v] = tx[v]
  BY <1>1 DEF LedgerInv, TypeOK
<1>3. tx'[w].mine = {}
  BY <1>2 DEF Idle
<1>. QED
  BY <1>1, <1>2, <1>3, IdleTally, QuietStep

-----------------------------------------------------------------------------
(* The theorems. *)

\* LedgerInv holds at first and is kept by every step.
THEOREM LedgerInvariant == Spec => []LedgerInv
<1>1. Init => LedgerInv
  <2>. SUFFICES ASSUME Init PROVE LedgerInv
    OBVIOUS
  <2>1. TypeOK
    BY IdleType DEF Init, TypeOK
  <2>2. \A w \in Workers : Coherent(w)
    BY DEF Init, Coherent, Idle
  <2>3. Exclusive
    BY DEF Init, Exclusive, Idle
  <2>. QED
    BY <2>1, <2>2, <2>3 DEF Init, LedgerInv, NothingForgotten
<1>2. LedgerInv /\ [Next]_vars => LedgerInv'
  <2>. SUFFICES ASSUME LedgerInv, [Next]_vars PROVE LedgerInv'
    OBVIOUS
  <2>1. ASSUME NEW w \in Workers, Work(w) PROVE LedgerInv'
    BY <2>1, BeginKeeps, CreateKeeps, PassKeeps, EndKeeps DEF Work
  <2>2. ASSUME NEW w \in Workers, Die(w) \/ AbortDeadlocked(w) PROVE LedgerInv'
    BY <2>2, RollBackKeeps DEF Die, AbortDeadlocked
  <2>3. CASE UNCHANGED vars
    BY <2>3 DEF vars, tables, LedgerInv, TypeOK, Coherent, Exclusive, NothingForgotten
  <2>. QED
    BY <2>1, <2>2, <2>3 DEF Next
<1>. QED
  BY <1>1, <1>2, PTL DEF Spec

\* The rows, the totals and the transactions keep their types.
THEOREM TypeCorrect == Spec => []TypeOK
<1>1. LedgerInv => TypeOK
  BY DEF LedgerInv
<1>. QED
  BY <1>1, LedgerInvariant, PTL

\* process_all_payments: select_for_update and the second look at processed_at
\* keep two passes off the same payment.
THEOREM NoPaymentCreditedTwice == Spec => []CreditedOnce
<1>1. LedgerInv => CreditedOnce
  <2>. SUFFICES ASSUME LedgerInv PROVE CreditedOnce
    OBVIOUS
  <2>1. ASSUME NEW w \in Workers PROVE (tx[w].todo \cup tx[w].done) \cap credited = {}
    BY DEF LedgerInv, Coherent
  <2>2. ASSUME NEW v \in Workers, NEW w \in Workers, v # w
        PROVE  (tx[v].todo \cup tx[v].done) \cap (tx[w].todo \cup tx[w].done) = {}
    BY <2>2 DEF LedgerInv, Coherent, Exclusive
  <2>. QED
    BY <2>1, <2>2 DEF CreditedOnce
<1>. QED
  BY <1>1, LedgerInvariant, PTL

\* credit_account: no other request can make one forget its payment.
THEOREM NoPaymentForgotten == Spec => []NothingForgotten
<1>1. LedgerInv => NothingForgotten
  BY DEF LedgerInv
<1>. QED
  BY <1>1, LedgerInvariant, PTL

\* process_all_payments: a pass that comes to its end leaves nothing of what it
\* found, whoever left it there.
THEOREM PassesClearUp == Spec => PassCreditsAllItFound
<1>1. LedgerInv => \A w \in Workers : Commit(w) => tx[w].found \subseteq credited'
  BY DEF LedgerInv, Coherent, Commit, PassOver
<1>2. LedgerInv /\ [Next]_vars =>
        [\A w \in Workers : Commit(w) => tx[w].found \subseteq credited']_vars
  BY <1>1
<1>. QED
  BY <1>2, LedgerInvariant, PTL DEF Spec, PassCreditsAllItFound

\* Books holds at first and is kept by every step.
THEOREM BooksInvariant == Spec => []Books
<1>1. Init => Books
  <2>. SUFFICES ASSUME Init PROVE Books
    OBVIOUS
  <2>1. \A a : Received(body, a, {}) = 0
    BY ReceivedIs, SumOfNothing
  <2>2. \A s : About(body, s, {}) = 0
    BY SumOfNothing DEF About
  <2>3. Totals /\ Evened
    BY <2>1, <2>2 DEF Init, Totals, Evened
  <2>4. ASSUME NEW w \in Workers PROVE Tally(w) /\ Halves(w)
    <3>1. tx[w] = Idle
      BY DEF Init
    <3>2. Tally(w)
      BY <2>1, <3>1 DEF Tally, Idle, NoChange
    <3>3. Halves(w)
      BY <3>1 DEF Halves, Idle
    <3>. QED
      BY <3>2, <3>3
  <2>5. OneRecorder
    BY DEF Init, OneRecorder, Idle
  <2>. QED
    BY <2>3, <2>4, <2>5 DEF Init, Books, NoHalfLeft
<1>2. LedgerInv /\ Books /\ [Next]_vars => Books'
  <2>. SUFFICES ASSUME LedgerInv, Books, [Next]_vars PROVE Books'
    OBVIOUS
  <2>1. ASSUME NEW w \in Workers, Work(w) PROVE Books'
    BY <2>1, BeginBalances, CreateBalances, PassBalances, EndBalances DEF Work
  <2>2. ASSUME NEW w \in Workers, Die(w) \/ AbortDeadlocked(w) PROVE Books'
    BY <2>2, RollBackBalances DEF Die, AbortDeadlocked
  <2>3. CASE UNCHANGED vars
    BY <2>3 DEF vars, tables, Books, Totals, Evened, NoHalfLeft, OneRecorder, Tally, Halves
  <2>. QED
    BY <2>1, <2>2, <2>3 DEF Next
<1>. QED
  BY <1>1, <1>2, LedgerInvariant, PTL DEF Spec

\* process_all_payments: what an account has received is the sum of its payments
\* that are marked as processed, for any payments and any overlapping passes.
THEOREM TotalsAreRight == Spec => []TotalIsSum
<1>1. Books => TotalIsSum
  <2>. SUFFICES ASSUME Books, NEW a \in Accounts PROVE total[a] = SumFor(a, credited)
    BY DEF TotalIsSum
  <2>1. SumFor(a, credited) = Received(body, a, credited)
    BY SumOfIs DEF SumFor, Received
  <2>. QED
    BY <2>1 DEF Books, Totals
<1>. QED
  BY <1>1, BooksInvariant, PTL

\* A transfer and its deletion take from one account what they give to the other,
\* whatever else happens between its two rows.
THEOREM TransfersKeepBalance == Spec => []TransfersBalance
<1>1. Books => TransfersBalance
  <2>. SUFFICES ASSUME Books, NEW s \in Sources, KindOf[s] = "transfer"
                PROVE  SumOf({p \in credited : body[p].of = s}) = 0
    BY DEF TransfersBalance
  <2>1. SumOf({p \in credited : body[p].of = s}) = About(body, s, credited)
    BY SumOfIs DEF About
  <2>. QED
    BY <2>1 DEF Books, Evened
<1>. QED
  BY <1>1, BooksInvariant, PTL

=============================================================================
