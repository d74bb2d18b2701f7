----------------------------- MODULE Approvals -----------------------------
(***************************************************************************)
(* What stands between a place in the basket and the queue: approvals by    *)
(* the booking secretary, the discounts of the family, and the token that   *)
(* ties the application to what was on the page. The bookings are those of  *)
(* one account, for different children, on one camp. The queue itself is    *)
(* in BookingQueue; here a place is asked for, withdrawn and allocated      *)
(* without regard to limits.                                                *)
(***************************************************************************)
EXTENDS Naturals, FiniteSets

CONSTANTS
    Bookings,
    Forms,          \* what a form about each place may say: [price, ill, age]
    AgeLimits,      \* what staff may set: [min, max]
    PriceLists,     \* what staff may set: price type -> price
    Agreed,         \* amounts the booking secretary types in
    MaxEdits        \* bound: edits by staff, of bookings and of settings

Details == UNION {Forms[b] : b \in Bookings}
PriceTypes == {"full", "second_child", "third_child", "custom"}
Types == {"custom_price", "serious_illness", "too_young", "too_old"}
Statuses == {"pending", "approved", "denied"}
States == {"absent", "info_complete", "booked", "cancelled_full_refund"}
Amounts == {0} \cup Agreed \cup UNION {{p[t] : t \in DOMAIN p} : p \in PriceLists}

ASSUME ApprovalsAssumption ==
    /\ \A d \in Details : d.price \in PriceTypes /\ d.ill \in BOOLEAN /\ d.age \in Nat
    /\ \A l \in AgeLimits : l.min \in Nat /\ l.max \in Nat
    /\ \A p \in PriceLists : DOMAIN p = PriceTypes \ {"custom"}
    /\ IsFiniteSet(Bookings) /\ MaxEdits \in Nat
    /\ \A b \in Bookings : Forms[b] # {}
    /\ AgeLimits # {} /\ PriceLists # {}

VARIABLES
    state, details, amount, shelved,    \* columns of Booking
    approvals,      \* BookingApproval: is it current, and its status
    inQueue,        \* is there an active queue entry
    limits,         \* the ages of the camp
    prices,         \* the table of prices
    page,           \* the places on the basket page somebody is looking at
    limitsThen,     \* the ages of the camp when a booking was saved last
    told,           \* bookings said to be approved, and not touched since
    edits           \* edits by staff so far

columns == <<state, details, amount, shelved>>
settings == <<limits, prices>>
vars == <<columns, approvals, inQueue, settings, page, limitsThen, told, edits>>

\* A place as the page shows it.
Shown == [id : Bookings, amount : Amounts, price : PriceTypes]
NoPage == {}

None == [current |-> FALSE, status |-> "none"]
Approval == {None} \cup [current : BOOLEAN, status : Statuses]

TypeOK ==
    /\ state \in [Bookings -> States]
    /\ details \in [Bookings -> Details]
    /\ amount \in [Bookings -> Amounts]
    /\ shelved \in [Bookings -> BOOLEAN]
    /\ approvals \in [Bookings -> [Types -> Approval]]
    /\ inQueue \in [Bookings -> BOOLEAN]
    /\ limits \in AgeLimits
    /\ prices \in PriceLists
    /\ page \in SUBSET Shown
    /\ limitsThen \in [Bookings -> AgeLimits]
    /\ told \subseteq Bookings
    /\ edits \in 0..MaxEdits

\* Until there is a row, any details do.
Blank(b) == CHOOSE d \in Forms[b] : TRUE

Init ==
    /\ state = [b \in Bookings |-> "absent"]
    /\ details = [b \in Bookings |-> Blank(b)]
    /\ amount = [b \in Bookings |-> 0]
    /\ shelved = [b \in Bookings |-> FALSE]
    /\ approvals = [b \in Bookings |-> [t \in Types |-> None]]
    /\ inQueue = [b \in Bookings |-> FALSE]
    /\ limits \in AgeLimits
    /\ prices \in PriceLists
    /\ page = NoPage
    /\ limitsThen = [b \in Bookings |-> limits]
    /\ told = {}
    /\ edits = 0

-----------------------------------------------------------------------------
(* What needs approval, and what is on file about it.                      *)

\* calculate_approvals_needed
Needs(d) ==
    (IF d.ill THEN {"serious_illness"} ELSE {})
    \cup (IF d.price = "custom" THEN {"custom_price"} ELSE {})
    \cup (IF d.age < limits.min THEN {"too_young"}
          ELSE IF d.age > limits.max THEN {"too_old"} ELSE {})

\* (A change of Updated: a need that comes back calls for a new row, and there
\* already is one.)
UpdatedOnlyNew(rows, needed) ==
    [t \in Types |->
        IF t \in needed
        THEN IF rows[t] = None THEN [current |-> TRUE, status |-> "pending"] ELSE rows[t]
        ELSE IF rows[t] = None THEN None ELSE [rows[t] EXCEPT !.current = FALSE]]

\* update_approvals: rows are made, or made current again with the status they
\* had; those no longer needed are kept, but not current.
Updated(rows, needed) ==
    [t \in Types |->
        IF t \in needed
        THEN IF rows[t] = None THEN [current |-> TRUE, status |-> "pending"]
             ELSE [rows[t] EXCEPT !.current = TRUE]
        ELSE IF rows[t] = None THEN None ELSE [rows[t] EXCEPT !.current = FALSE]]

Current(rows) == {t \in Types : rows[t].current}
Approved(rows) == {t \in Current(rows) : rows[t].status = "approved"}
Pending(rows) == {t \in Current(rows) : rows[t].status = "pending"}

\* basket_relevant: what discounts are judged by.
InBasket(b) == state[b] = "info_complete" /\ ~shelved[b]
Relevant == {b \in Bookings : InBasket(b) \/ state[b] = "booked"}

Siblings(b, types) == {c \in Relevant \ {b} : details[c].price \in types}

DiscountBlocks(b) ==
    \/ details[b].price = "second_child" /\ Siblings(b, {"full"}) = {}
    \/ details[b].price = "third_child"
       /\ Cardinality(Siblings(b, {"full", "second_child"})) < 2

\* (A change of Blocked: the rows on file are believed.)
BlockedByRows(b) ==
    \/ Current(approvals[b]) # Approved(approvals[b])
    \/ DiscountBlocks(b)

\* get_booking_errors: needs as they are now, less what has been approved.
Blocked(b) ==
    \/ ~(Needs(details[b]) \subseteq Approved(approvals[b]))
    \/ DiscountBlocks(b)

-----------------------------------------------------------------------------
(* Prices.                                                                 *)

\* (A change of AmountDue: no expected amount, nothing due.)
AmountDueOrNothing(price, st, was) ==
    IF price = "custom" \/ st = "cancelled_full_refund" THEN 0 ELSE prices[price]

\* auto_set_amount_due: an agreed amount is left as it was, in every state.
AmountDue(price, st, was) ==
    IF price = "custom" THEN was
    ELSE IF st = "cancelled_full_refund" THEN 0 ELSE prices[price]

-----------------------------------------------------------------------------
(* The account holder.                                                     *)

\* add_or_edit_place with save_for_account: a new place, or one that
\* is_user_editable, and that asks for its state only.
SavePlace(b, d) ==
    /\ state[b] \in {"absent", "info_complete"}
    /\ state' = [state EXCEPT ![b] = "info_complete"]
    /\ details' = [details EXCEPT ![b] = d]
    /\ amount' = [amount EXCEPT ![b] = AmountDue(d.price, "info_complete", @)]
    /\ approvals' = [approvals EXCEPT ![b] = Updated(@, Needs(d))]
    /\ limitsThen' = [limitsThen EXCEPT ![b] = limits]
    /\ told' = told \ {b}
    /\ UNCHANGED <<shelved, inQueue, settings, page>>

Listed(b) == state[b] = "info_complete" /\ ~inQueue[b]
Basket == {b \in Bookings : Listed(b) /\ ~shelved[b]}

\* move_to_shelf, move_to_basket
Shelve(b) ==
    /\ Listed(b)
    /\ shelved' = [shelved EXCEPT ![b] = ~@]
    /\ UNCHANGED <<state, details, amount, approvals, inQueue, settings, page, limitsThen, told>>

\* A page that shows the place will not be accepted any more: ids are not used again.
DeletePlace(b) ==
    /\ Listed(b)
    /\ state' = [state EXCEPT ![b] = "absent"]
    /\ details' = [details EXCEPT ![b] = Blank(b)]
    /\ amount' = [amount EXCEPT ![b] = 0]
    /\ shelved' = [shelved EXCEPT ![b] = FALSE]
    /\ approvals' = [approvals EXCEPT ![b] = [t \in Types |-> None]]
    /\ page' = IF page # NoPage /\ \E s \in page : s.id = b THEN NoPage ELSE page
    /\ told' = told \ {b}
    /\ UNCHANGED <<inQueue, settings, limitsThen>>

OnPage == {[id |-> b, amount |-> amount[b], price |-> details[b].price] : b \in Basket}

\* (A change of Token: amounts and prices are left out.)
TokenOfIds(shown) == {s.id : s \in shown}

\* make_state_token
Token(shown) == shown

\* The page is drawn; its button works when nothing is blocked.
ViewBasket ==
    /\ Basket # {}
    /\ \A b \in Basket : ~Blocked(b)
    /\ page' = OnPage
    /\ UNCHANGED <<columns, approvals, inQueue, settings, limitsThen, told>>

\* book_now, from a page that may be old: the token is compared, and the problems
\* are worked out again. The answer is another page, whatever becomes of it.
BookNow ==
    /\ page # NoPage
    /\ page' = NoPage
    /\ \/ /\ Token(page) = Token(OnPage)
          /\ \A b \in Basket : ~Blocked(b)
          /\ inQueue' = [b \in Bookings |-> inQueue[b] \/ b \in Basket]
       \/ /\ Token(page) # Token(OnPage) \/ \E b \in Basket : Blocked(b)
          /\ UNCHANGED inQueue
    /\ UNCHANGED <<columns, approvals, settings, limitsThen, told>>

Withdraw(b) ==
    /\ inQueue[b] /\ state[b] = "info_complete"
    /\ inQueue' = [inQueue EXCEPT ![b] = FALSE]
    /\ shelved' = [shelved EXCEPT ![b] = TRUE]
    /\ UNCHANGED <<state, details, amount, approvals, settings, page, limitsThen, told>>

\* cancel_expiring_place, by the holder or the job. Deadlines are in BookingQueue.
Release(b) ==
    /\ inQueue[b] /\ state[b] = "booked"
    /\ state' = [state EXCEPT ![b] = "cancelled_full_refund"]
    /\ shelved' = [shelved EXCEPT ![b] = TRUE]
    /\ inQueue' = [inQueue EXCEPT ![b] = FALSE]
    /\ UNCHANGED <<details, amount, approvals, settings, page, limitsThen, told>>

-----------------------------------------------------------------------------
(* Staff.                                                                  *)

\* allocate_bookings_now
Allocate(b) ==
    /\ inQueue[b] /\ state[b] = "info_complete"
    /\ state' = [state EXCEPT ![b] = "booked"]
    /\ amount' = [amount EXCEPT ![b] = AmountDue(details[b].price, "info_complete", @)]
    /\ UNCHANGED <<details, shelved, approvals, inQueue, settings, page, limitsThen, told>>

\* save_model updates the approvals; then save_related saves the decisions that
\* were changed, as whole rows that were read while they were current.
RowsAfterSave(rows, d, decided) ==
    [t \in Types |-> IF t \in DOMAIN decided THEN [current |-> TRUE, status |-> decided[t]]
                     ELSE Updated(rows, Needs(d))[t]]

\* What the form may decide: rows that are current, and a status they do not have.
Decisions(rows) ==
    UNION {{f \in [S -> Statuses] : \A t \in S : f[t] # rows[t].status}
           : S \in SUBSET Current(rows)}

\* (A change of SendsApproved: no decision is outstanding.)
SendsApprovedIfDecided(rows, d, decided) ==
    /\ Pending(Updated(rows, Needs(d))) # {}
    /\ Pending(RowsAfterSave(rows, d, decided)) = {}

\* Is the "approved" mail sent? (save_related)
SendsApproved(rows, d, decided) ==
    /\ Pending(Updated(rows, Needs(d))) # {}
    /\ LET after == RowsAfterSave(rows, d, decided) IN Current(after) = Approved(after)

\* The admin form, any field of it. The amount is what was typed, except for a
\* place that is cancelled.
AdminSave(b, d, a, st, decided) ==
    /\ state[b] # "absent"
    /\ state' = [state EXCEPT ![b] = st]
    /\ details' = [details EXCEPT ![b] = d]
    /\ amount' = [amount EXCEPT ![b] = IF st = "cancelled_full_refund"
                                       THEN AmountDue(d.price, st, a) ELSE a]
    /\ approvals' = [approvals EXCEPT ![b] = RowsAfterSave(@, d, decided)]
    /\ limitsThen' = [limitsThen EXCEPT ![b] = limits]
    /\ told' = IF SendsApproved(approvals[b], d, decided) THEN told \cup {b} ELSE told \ {b}
    /\ UNCHANGED <<shelved, inQueue, settings, page>>

\* make_change_state_action
AdminChangeState(b, st) ==
    /\ state[b] # "absent" /\ state[b] # st
    /\ state' = [state EXCEPT ![b] = st]
    /\ amount' = [amount EXCEPT ![b] = AmountDue(details[b].price, st, @)]
    /\ UNCHANGED <<details, shelved, approvals, inQueue, settings, page, limitsThen, told>>

ChangeSettings ==
    /\ limits' \in AgeLimits
    /\ prices' \in PriceLists
    /\ told' = IF limits' = limits THEN told ELSE {}
    /\ UNCHANGED <<columns, approvals, inQueue, page, limitsThen>>

-----------------------------------------------------------------------------

Typed(b) == Agreed \cup {amount[b]}

HolderStep ==
    \/ \E b \in Bookings :
        \/ \E d \in Forms[b] : SavePlace(b, d)
        \/ Shelve(b) \/ DeletePlace(b) \/ Withdraw(b) \/ Release(b)
    \/ ViewBasket \/ BookNow

Edit ==
    \/ \E b \in Bookings :
        \/ \E d \in Forms[b], a \in Typed(b), st \in States \ {"absent"},
              decided \in Decisions(approvals[b]) : AdminSave(b, d, a, st, decided)
        \/ \E st \in States \ {"absent"} : AdminChangeState(b, st)
    \/ ChangeSettings

Queue == HolderStep \/ \E b \in Bookings : Allocate(b)

Next ==
    \/ Queue /\ UNCHANGED edits
    \/ edits < MaxEdits /\ edits' = edits + 1 /\ Edit

Spec == Init /\ [][Next]_vars

-----------------------------------------------------------------------------
(* Properties.                                                             *)

\* Whoever joins the queue has every approval that is called for by now, by the
\* details and by the ages the camp has now, and takes a discount only if another
\* child of the family gives the right to it, whatever was shelved, edited,
\* denied or changed by staff since the page was drawn (add_basket_to_queue).
JoinsOnlyBookable ==
    [][\A b \in Bookings : ~inQueue[b] /\ inQueue'[b] =>
        /\ \A t \in Needs(details[b]) :
            approvals[b][t] = [current |-> TRUE, status |-> "approved"]
        /\ details[b].price \in {"second_child", "third_child"} =>
            \E c \in Bookings \ {b} :
                /\ details[c].price \in {"full", "second_child"}
                /\ state[c] \in {"info_complete", "booked"}]_vars

\* What is applied for is what was on the page, at the price that was on the
\* page, and nothing beside it (make_state_token).
BookedAsShown ==
    [][\A b \in Bookings : ~inQueue[b] /\ inQueue'[b] =>
        /\ page # NoPage
        /\ \E s \in page : s.id = b /\ s.amount = amount'[b] /\ s.price = details'[b].price
        /\ \A s \in page : inQueue'[s.id]]_vars

\* Every approval a booking called for when it was saved is on file, current, for
\* the booking secretary to find, however often the need went away and came back
\* (update_approvals).
NeedsOnFile ==
    \A b \in Bookings :
        state[b] # "absent" /\ limitsThen[b] = limits => Needs(details[b]) \subseteq Current(approvals[b])

\* Whoever was told that the place is approved can go on and book it, unless the
\* booking or the ages of the camp were changed after (save_model, save_related).
ToldIsApproved ==
    \A b \in told : Needs(details[b]) \subseteq Approved(approvals[b])

\* An amount the booking secretary agreed to is changed by nobody else: not by
\* edits, allocation or cancellation (auto_set_amount_due).
AgreedAmountKept ==
    [][\A b \in Bookings :
        /\ details[b].price = "custom" /\ details'[b].price = "custom"
        /\ state[b] # "absent" /\ state'[b] # "absent"
        /\ amount'[b] # amount[b]
        => \E d \in Forms[b], a \in Typed(b), st \in States, decided \in Decisions(approvals[b]) :
               AdminSave(b, d, a, st, decided)]_vars

\* What the page says of a place in the queue: to change it, withdraw it first
\* (manage_queue_booking_modal.html).
Waiting(b) == inQueue[b] /\ state[b] = "info_complete"
WithdrawToChange ==
    [][\A b \in Bookings : Waiting(b) /\ Waiting(b)' => details'[b] = details[b]]_vars

\* Staff allocate, and do nothing else.
HolderSpec == Init /\ [][Queue /\ UNCHANGED edits]_vars

=============================================================================
