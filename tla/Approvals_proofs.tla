-------------------------- MODULE Approvals_proofs --------------------------
(***************************************************************************)
(* What module Approvals keeps for any bookings of an account, any forms,   *)
(* any ages and any prices that staff may set.                             *)
(***************************************************************************)
EXTENDS Approvals, FiniteSetTheorems, TLAPS

USE ApprovalsAssumption

\* What the details call for when the ages of the camp are l.
NeedsAt(d, l) ==
    (IF d.ill THEN {"serious_illness"} ELSE {})
    \cup (IF d.price = "custom" THEN {"custom_price"} ELSE {})
    \cup (IF d.age < l.min THEN {"too_young"}
          ELSE IF d.age > l.max THEN {"too_old"} ELSE {})

\* Every approval called for when a booking was saved last is current.
NeedsThen(b) ==
    state[b] # "absent" => NeedsAt(details[b], limitsThen[b]) \subseteq Current(approvals[b])

Inv ==
    /\ TypeOK
    /\ \A b \in Bookings : NeedsThen(b)
    /\ ToldIsApproved

-----------------------------------------------------------------------------
(* Operators. *)

\* An amount that is worked out is one of the amounts there are.
LEMMA AmountDueTyped ==
  ASSUME prices \in PriceLists, NEW p \in PriceTypes, NEW st, NEW was \in Amounts
  PROVE  AmountDue(p, st, was) \in Amounts
<1>1. p # "custom" => prices[p] \in {prices[t] : t \in DOMAIN prices}
  OBVIOUS
<1>. QED
  BY <1>1 DEF AmountDue, Amounts

\* A form about a place gives details, with a price type.
LEMMA FormsTyped ==
  ASSUME NEW b \in Bookings
  PROVE  /\ Forms[b] \subseteq Details
         /\ Blank(b) \in Details
         /\ \A d \in Forms[b] : d.price \in PriceTypes
  BY DEF Details, Blank

\* Updated rows are rows, and current exactly where there is a need.
LEMMA UpdatedIsCurrent ==
  ASSUME NEW rows \in [Types -> Approval], NEW needed \in SUBSET Types
  PROVE  /\ Updated(rows, needed) \in [Types -> Approval]
         /\ Current(Updated(rows, needed)) = needed
<1>1. ASSUME NEW t \in Types, rows[t] # None
      PROVE  \A c \in BOOLEAN : /\ [rows[t] EXCEPT !.current = c] \in Approval
                                /\ [rows[t] EXCEPT !.current = c].current = c
  BY <1>1 DEF Approval
<1>2. [current |-> TRUE, status |-> "pending"] \in Approval /\ None \in Approval /\ ~None.current
  BY DEF Approval, Statuses, None
<1>. QED
  BY <1>1, <1>2 DEF Updated, Current

\* There are four kinds of needs.
LEMMA NeedsAreTypes ==
  ASSUME NEW d, NEW l
  PROVE  NeedsAt(d, l) \subseteq Types
  BY DEF NeedsAt, Types

\* What is called for now goes by the ages of now.
LEMMA NeedsNow == \A d : Needs(d) = NeedsAt(d, limits)
  BY DEF Needs, NeedsAt

\* Decisions are made on rows that are current, and leave them current.
LEMMA SavedRows ==
  ASSUME NEW rows \in [Types -> Approval], NEW d, NEW decided \in Decisions(rows)
  PROVE  /\ RowsAfterSave(rows, d, decided) \in [Types -> Approval]
         /\ Needs(d) \subseteq Current(RowsAfterSave(rows, d, decided))
<1>. DEFINE up == Updated(rows, Needs(d))
            after == RowsAfterSave(rows, d, decided)
<1>1. PICK S \in SUBSET Current(rows) : decided \in [S -> Statuses]
  BY DEF Decisions
<1>2. up \in [Types -> Approval] /\ Current(up) = Needs(d) /\ Needs(d) \subseteq Types
  BY UpdatedIsCurrent, NeedsAreTypes, NeedsNow
<1>. HIDE DEF up
<1>3. \A t \in S : [current |-> TRUE, status |-> decided[t]] \in Approval
  BY <1>1 DEF Approval
<1>4. after = [t \in Types |-> IF t \in S THEN [current |-> TRUE, status |-> decided[t]] ELSE up[t]]
  BY <1>1 DEF RowsAfterSave, up
<1>5. after \in [Types -> Approval]
  BY <1>2, <1>3, <1>4
<1>6. Needs(d) \subseteq Current(after)
  BY <1>2, <1>4 DEF Current
<1>. QED
  BY <1>5, <1>6

-----------------------------------------------------------------------------
(* The steps. *)

\* An account holder saves a place.
LEMMA SavePlaceKeeps ==
  ASSUME Inv, NEW b \in Bookings, NEW d \in Forms[b], SavePlace(b, d), edits' = edits
  PROVE  Inv'
<1>. USE DEF Inv
<1>1. d \in Details /\ d.price \in PriceTypes
  BY FormsTyped
<1>2. AmountDue(d.price, "info_complete", amount[b]) \in Amounts
  BY <1>1, AmountDueTyped DEF TypeOK
<1>3. Updated(approvals[b], Needs(d)) \in [Types -> Approval]
      /\ Current(Updated(approvals[b], Needs(d))) = NeedsAt(d, limits)
  BY UpdatedIsCurrent, NeedsAreTypes, NeedsNow DEF TypeOK
<1>4. TypeOK'
  BY <1>1, <1>2, <1>3 DEF SavePlace, settings, TypeOK, States
<1>5. ASSUME NEW c \in Bookings PROVE NeedsThen(c)'
  BY <1>3 DEF SavePlace, settings, TypeOK, NeedsThen
<1>6. ToldIsApproved'
  BY DEF SavePlace, settings, TypeOK, ToldIsApproved, Needs
<1>. QED
  BY <1>4, <1>5, <1>6

\* A step that leaves details, approvals and ages alone keeps what is said of them.
LEMMA RowsUntouched ==
  ASSUME Inv, TypeOK', UNCHANGED <<details, approvals, limits, limitsThen, told>>,
         \A b \in Bookings : state'[b] # "absent" => state[b] # "absent"
  PROVE  Inv'
<1>1. ASSUME NEW b \in Bookings PROVE NeedsThen(b)'
  BY <1>1 DEF Inv, NeedsThen
<1>2. ToldIsApproved'
  BY DEF Inv, ToldIsApproved, Needs
<1>. QED
  BY <1>1, <1>2 DEF Inv

\* The other requests of the account holder, the queue and the job.
LEMMA QueueKeeps ==
  ASSUME Inv, edits' = edits, NEW b \in Bookings,
         \/ Shelve(b) \/ Withdraw(b) \/ Release(b) \/ Allocate(b) \/ ViewBasket \/ BookNow
  PROVE  Inv'
<1>. USE DEF Inv
<1>1. CASE Shelve(b)
  <2>1. TypeOK'
    BY <1>1 DEF Shelve, settings, TypeOK
  <2>. QED
    BY <1>1, <2>1, RowsUntouched DEF Shelve, settings
<1>2. CASE Withdraw(b)
  <2>1. TypeOK'
    BY <1>2 DEF Withdraw, settings, TypeOK
  <2>. QED
    BY <1>2, <2>1, RowsUntouched DEF Withdraw, settings
<1>3. CASE Release(b)
  <2>1. TypeOK'
    BY <1>3 DEF Release, settings, TypeOK, States
  <2>. QED
    BY <1>3, <2>1, RowsUntouched DEF Release, settings, TypeOK
<1>4. CASE Allocate(b)
  <2>1. details[b].price \in PriceTypes
    BY DEF TypeOK, Details
  <2>2. AmountDue(details[b].price, "info_complete", amount[b]) \in Amounts
    BY <2>1, AmountDueTyped DEF TypeOK
  <2>3. TypeOK'
    BY <1>4, <2>2 DEF Allocate, settings, TypeOK, States
  <2>. QED
    BY <1>4, <2>3, RowsUntouched DEF Allocate, settings, TypeOK
<1>5. CASE ViewBasket
  <2>1. OnPage \subseteq Shown
    BY DEF OnPage, Shown, Basket, TypeOK, Details
  <2>2. TypeOK'
    BY <1>5, <2>1 DEF ViewBasket, columns, settings, TypeOK
  <2>. QED
    BY <1>5, <2>2, RowsUntouched DEF ViewBasket, columns, settings
<1>6. CASE BookNow
  <2>1. inQueue' \in [Bookings -> BOOLEAN]
    BY <1>6 DEF BookNow, TypeOK
  <2>2. TypeOK'
    BY <1>6, <2>1 DEF BookNow, NoPage, columns, settings, TypeOK
  <2>. QED
    BY <1>6, <2>2, RowsUntouched DEF BookNow, columns, settings
<1>. QED
  BY <1>1, <1>2, <1>3, <1>4, <1>5, <1>6

\* An account holder deletes a place.
LEMMA DeletePlaceKeeps ==
  ASSUME Inv, NEW b \in Bookings, DeletePlace(b), edits' = edits
  PROVE  Inv'
<1>. USE DEF Inv
<1>1. Blank(b) \in Details /\ 0 \in Amounts /\ None \in Approval
  BY FormsTyped DEF Amounts, Approval
<1>2. page' \in SUBSET Shown
  BY DEF DeletePlace, NoPage, TypeOK
<1>3. TypeOK'
  BY <1>1, <1>2 DEF DeletePlace, settings, TypeOK, States
<1>4. ASSUME NEW c \in Bookings PROVE NeedsThen(c)'
  BY DEF DeletePlace, settings, TypeOK, NeedsThen
<1>5. ToldIsApproved'
  BY DEF DeletePlace, settings, TypeOK, ToldIsApproved, Needs
<1>. QED
  BY <1>3, <1>4, <1>5

\* Staff save the form.
LEMMA AdminSaveKeeps ==
  ASSUME Inv, NEW b \in Bookings, NEW d \in Forms[b], NEW a \in Typed(b),
         NEW st \in States \ {"absent"}, NEW decided \in Decisions(approvals[b]),
         AdminSave(b, d, a, st, decided), edits' \in 0..MaxEdits
  PROVE  Inv'
<1>. USE DEF Inv
<1>. DEFINE after == RowsAfterSave(approvals[b], d, decided)
<1>1. d \in Details /\ d.price \in PriceTypes /\ a \in Amounts
  BY FormsTyped DEF Typed, Amounts, TypeOK
<1>2. AmountDue(d.price, st, a) \in Amounts
  BY <1>1, AmountDueTyped DEF TypeOK
<1>3. after \in [Types -> Approval] /\ NeedsAt(d, limits) \subseteq Current(after)
  BY SavedRows, NeedsNow DEF TypeOK
<1>4. approvals' = [approvals EXCEPT ![b] = after]
  BY DEF AdminSave
<1>5. SendsApproved(approvals[b], d, decided) => Current(after) = Approved(after)
  BY DEF SendsApproved
<1>. HIDE DEF after
<1>6. TypeOK'
  BY <1>1, <1>2, <1>3, <1>4 DEF AdminSave, settings, TypeOK
<1>7. ASSUME NEW c \in Bookings PROVE NeedsThen(c)'
  BY <1>3, <1>4 DEF AdminSave, settings, TypeOK, NeedsThen
<1>8. ASSUME NEW c \in told' PROVE Needs(details[c])' \subseteq Approved(approvals[c])'
  <2>1. CASE c # b
    BY <1>4, <2>1 DEF AdminSave, settings, TypeOK, ToldIsApproved, Needs
  <2>2. CASE c = b
    <3>1. Needs(details[c])' = NeedsAt(d, limits) /\ Approved(approvals[c])' = Approved(after)
      BY <1>4, <2>2 DEF AdminSave, settings, TypeOK, Needs, NeedsAt
    <3>. QED
      BY <1>3, <1>5, <2>2, <3>1 DEF AdminSave
  <2>. QED
    BY <2>1, <2>2
<1>. QED
  BY <1>6, <1>7, <1>8 DEF ToldIsApproved

\* Staff change a state, or the settings.
LEMMA OtherEditsKeep ==
  ASSUME Inv, edits' \in 0..MaxEdits,
         \/ ChangeSettings
         \/ \E b \in Bookings, st \in States \ {"absent"} : AdminChangeState(b, st)
  PROVE  Inv'
<1>. USE DEF Inv
<1>1. ASSUME NEW b \in Bookings, NEW st \in States \ {"absent"}, AdminChangeState(b, st)
      PROVE  Inv'
  <2>1. details[b].price \in PriceTypes
    BY DEF TypeOK, Details
  <2>2. AmountDue(details[b].price, st, amount[b]) \in Amounts
    BY <2>1, AmountDueTyped DEF TypeOK
  <2>3. TypeOK'
    BY <1>1, <2>2 DEF AdminChangeState, settings, TypeOK
  <2>. QED
    BY <1>1, <2>3, RowsUntouched DEF AdminChangeState, settings, TypeOK
<1>2. CASE ChangeSettings
  <2>1. TypeOK'
    BY <1>2 DEF ChangeSettings, columns, TypeOK
  <2>2. ASSUME NEW c \in Bookings PROVE NeedsThen(c)'
    BY <1>2 DEF ChangeSettings, columns, NeedsThen
  <2>3. ToldIsApproved'
    BY <1>2 DEF ChangeSettings, columns, ToldIsApproved, Needs
  <2>. QED
    BY <2>1, <2>2, <2>3
<1>. QED
  BY <1>1, <1>2

\* Every step keeps the invariant.
LEMMA Inductive ==
  ASSUME Inv, [Next]_vars
  PROVE  Inv'
<1>1. CASE UNCHANGED vars
  <2>1. TypeOK'
    BY <1>1 DEF Inv, TypeOK, vars, columns, settings
  <2>. QED
    BY <1>1, <2>1, RowsUntouched DEF vars, columns, settings
<1>2. CASE Queue /\ UNCHANGED edits
  <2>1. CASE ViewBasket \/ BookNow
    <3>1. \E b : b \in Bookings
      BY <2>1 DEF ViewBasket, BookNow, Basket, NoPage, Inv, TypeOK, Shown
    <3>. QED
      BY <1>2, <2>1, <3>1, QueueKeeps
  <2>. QED
    BY <1>2, <2>1, SavePlaceKeeps, DeletePlaceKeeps, QueueKeeps DEF Queue, HolderStep
<1>3. CASE edits < MaxEdits /\ edits' = edits + 1 /\ Edit
  <2>1. edits' \in 0..MaxEdits
    BY <1>3 DEF Inv, TypeOK
  <2>. QED
    BY <1>3, <2>1, AdminSaveKeeps, OtherEditsKeep DEF Edit
<1>. QED
  BY <1>1, <1>2, <1>3 DEF Next

\* At first there is no booking.
LEMMA Initial == Init => Inv
<1>. SUFFICES ASSUME Init PROVE Inv
  OBVIOUS
<1>1. 0 \in Amounts /\ None \in Approval /\ \A b \in Bookings : Blank(b) \in Details
  BY FormsTyped DEF Amounts, Approval
<1>2. TypeOK
  BY <1>1 DEF Init, TypeOK, NoPage, States
<1>. QED
  BY <1>2 DEF Init, Inv, NeedsThen, ToldIsApproved

-----------------------------------------------------------------------------
(* What follows. *)

\* Type correctness.
THEOREM TypeCorrect == Spec => []TypeOK
<1>. QED
  BY Initial, Inductive, PTL DEF Spec, Inv

\* Whatever a saved booking calls for is on file for the booking secretary to find
\* (update_approvals).
THEOREM NeedsAreOnFile == Spec => []NeedsOnFile
<1>1. Inv => NeedsOnFile
  BY NeedsNow DEF Inv, NeedsThen, NeedsOnFile
<1>. QED
  BY <1>1, Initial, Inductive, PTL DEF Spec

\* Whoever was told that a place is approved has every approval it calls for, until
\* the booking or the ages are changed (save_related).
THEOREM ToldTheTruth == Spec => []ToldIsApproved
<1>. QED
  BY Initial, Inductive, PTL DEF Spec, Inv

\* A booking joins the queue from a page, unblocked, and no other way.
LEMMA Joins ==
  ASSUME Inv, [Next]_vars, NEW b \in Bookings, ~inQueue[b], inQueue'[b]
  PROVE  /\ BookNow /\ Token(page) = Token(OnPage)
         /\ b \in Basket /\ \A c \in Basket : ~Blocked(c)
         /\ UNCHANGED <<state, details, amount, approvals>>
<1>0. inQueue \in [Bookings -> BOOLEAN]
  BY DEF Inv, TypeOK
<1>1. BookNow
  <2>1. CASE UNCHANGED vars
    BY <2>1 DEF vars
  <2>2. ASSUME NEW c \in Bookings,
               Shelve(c) \/ DeletePlace(c) \/ Withdraw(c) \/ Release(c) \/ Allocate(c)
        PROVE  FALSE
    BY <1>0, <2>2 DEF Shelve, DeletePlace, Withdraw, Release, Allocate
  <2>3. CASE Queue
    BY <2>2, <2>3 DEF Queue, HolderStep, SavePlace, ViewBasket
  <2>4. CASE Edit
    BY <2>4 DEF Edit, AdminSave, AdminChangeState, ChangeSettings
  <2>. QED
    BY <2>1, <2>3, <2>4 DEF Next
<1>. QED
  BY <1>0, <1>1 DEF BookNow, columns

\* Nothing joins the queue that lacks an approval or the right to a discount
\* (add_basket_to_queue), whatever was done since the page was drawn.
THEOREM OnlyBookableJoins == Spec => JoinsOnlyBookable
<1>1. Inv /\ [Next]_vars =>
        [\A b \in Bookings : ~inQueue[b] /\ inQueue'[b] =>
            /\ \A t \in Needs(details[b]) :
                approvals[b][t] = [current |-> TRUE, status |-> "approved"]
            /\ details[b].price \in {"second_child", "third_child"} =>
                \E c \in Bookings \ {b} :
                    /\ details[c].price \in {"full", "second_child"}
                    /\ state[c] \in {"info_complete", "booked"}]_vars
  <2>. SUFFICES ASSUME Inv, [Next]_vars, NEW b \in Bookings, ~inQueue[b], inQueue'[b]
                PROVE  /\ \A t \in Needs(details[b]) :
                            approvals[b][t] = [current |-> TRUE, status |-> "approved"]
                       /\ details[b].price \in {"second_child", "third_child"} =>
                            \E c \in Bookings \ {b} :
                                /\ details[c].price \in {"full", "second_child"}
                                /\ state[c] \in {"info_complete", "booked"}
    OBVIOUS
  <2>1. ~Blocked(b)
    BY Joins
  <2>2. ASSUME NEW t \in Needs(details[b])
        PROVE  approvals[b][t] = [current |-> TRUE, status |-> "approved"]
    <3>1. t \in Types /\ approvals[b][t].current /\ approvals[b][t].status = "approved"
      BY <2>1, <2>2 DEF Blocked, Approved, Current
    <3>2. approvals[b][t] \in Approval
      BY <3>1 DEF Inv, TypeOK
    <3>. QED
      BY <3>1, <3>2 DEF Approval, None
  <2>3. ASSUME NEW c \in Bookings \ {b}, c \in Siblings(b, {"full", "second_child"})
        PROVE  /\ details[c].price \in {"full", "second_child"}
               /\ state[c] \in {"info_complete", "booked"}
    BY <2>3 DEF Siblings, Relevant, InBasket
  <2>4. CASE details[b].price = "second_child"
    <3>1. PICK c : c \in Siblings(b, {"full"})
      BY <2>1, <2>4 DEF Blocked, DiscountBlocks
    <3>. QED
      BY <2>2, <2>3, <3>1 DEF Siblings, Relevant
  <2>5. CASE details[b].price = "third_child"
    <3>1. ~(Cardinality(Siblings(b, {"full", "second_child"})) < 2)
      BY <2>1, <2>5 DEF Blocked, DiscountBlocks
    <3>2. Siblings(b, {"full", "second_child"}) # {}
      <4>. SUFFICES ASSUME Siblings(b, {"full", "second_child"}) = {} PROVE FALSE
        OBVIOUS
      <4>1. Cardinality(Siblings(b, {"full", "second_child"})) = 0
        BY FS_EmptySet
      <4>. QED
        BY <3>1, <4>1
    <3>. QED
      BY <2>2, <2>3, <3>2 DEF Siblings, Relevant
  <2>. QED
    BY <2>2, <2>4, <2>5
<1>. QED
  BY <1>1, Initial, Inductive, PTL DEF Spec, JoinsOnlyBookable

\* What is applied for is what was on the page, at the price that was on the page,
\* and nothing beside it (make_state_token).
THEOREM PageIsBooked == Spec => BookedAsShown
<1>1. Inv /\ [Next]_vars =>
        [\A b \in Bookings : ~inQueue[b] /\ inQueue'[b] =>
            /\ page # NoPage
            /\ \E s \in page : s.id = b /\ s.amount = amount'[b] /\ s.price = details'[b].price
            /\ \A s \in page : inQueue'[s.id]]_vars
  <2>. SUFFICES ASSUME Inv, [Next]_vars, NEW b \in Bookings, ~inQueue[b], inQueue'[b]
                PROVE  /\ page # NoPage
                       /\ \E s \in page : s.id = b /\ s.amount = amount'[b] /\ s.price = details'[b].price
                       /\ \A s \in page : inQueue'[s.id]
    OBVIOUS
  <2>1. page = OnPage /\ page # NoPage /\ b \in Basket
    BY Joins DEF Token, BookNow
  <2>2. UNCHANGED <<details, amount>>
    BY Joins
  <2>3. inQueue' = [c \in Bookings |-> inQueue[c] \/ c \in Basket]
    BY Joins DEF BookNow
  <2>4. \A s \in page : inQueue'[s.id]
    BY <2>1, <2>3 DEF OnPage, Basket
  <2>5. [id |-> b, amount |-> amount[b], price |-> details[b].price] \in page
    BY <2>1 DEF OnPage
  <2>6. \E s \in page : s.id = b /\ s.amount = amount'[b] /\ s.price = details'[b].price
    BY <2>2, <2>5
  <2>. QED
    BY <2>1, <2>4, <2>6
<1>. QED
  BY <1>1, Initial, Inductive, PTL DEF Spec, BookedAsShown

\* An agreed amount is changed by nobody but staff who save the form
\* (auto_set_amount_due).
THEOREM AgreementsKept == Spec => AgreedAmountKept
<1>1. Inv /\ [Next]_vars =>
        [\A b \in Bookings :
            /\ details[b].price = "custom" /\ details'[b].price = "custom"
            /\ state[b] # "absent" /\ state'[b] # "absent"
            /\ amount'[b] # amount[b]
            => \E d \in Forms[b], a \in Typed(b), st \in States, decided \in Decisions(approvals[b]) :
                   AdminSave(b, d, a, st, decided)]_vars
  <2>. SUFFICES ASSUME Inv, [Next]_vars, NEW b \in Bookings,
                       details[b].price = "custom", details'[b].price = "custom",
                       state'[b] # "absent", amount'[b] # amount[b]
                PROVE  \E d \in Forms[b], a \in Typed(b), st \in States, decided \in Decisions(approvals[b]) :
                           AdminSave(b, d, a, st, decided)
    OBVIOUS
  <2>0. amount \in [Bookings -> Amounts] /\ details \in [Bookings -> Details]
        /\ state \in [Bookings -> States]
    BY DEF Inv, TypeOK
  <2>1. ASSUME NEW c \in Bookings, NEW d \in Forms[c], SavePlace(c, d) PROVE FALSE
    BY <2>0, <2>1 DEF SavePlace, AmountDue
  <2>2. ASSUME NEW c \in Bookings, DeletePlace(c) PROVE FALSE
    BY <2>0, <2>2 DEF DeletePlace
  <2>3. ASSUME NEW c \in Bookings, Allocate(c) PROVE FALSE
    BY <2>0, <2>3 DEF Allocate, AmountDue
  <2>4. ASSUME NEW c \in Bookings, NEW st \in States, AdminChangeState(c, st) PROVE FALSE
    BY <2>0, <2>4 DEF AdminChangeState, AmountDue
  <2>5. ASSUME NEW c \in Bookings, NEW d \in Forms[c], NEW a \in Typed(c), NEW st \in States,
               NEW decided \in Decisions(approvals[c]), AdminSave(c, d, a, st, decided)
        PROVE  c = b
    BY <2>0, <2>5 DEF AdminSave
  <2>6. CASE UNCHANGED amount
    BY <2>6
  <2>7. CASE Queue
    BY <2>1, <2>2, <2>3, <2>6, <2>7
    DEF Queue, HolderStep, Shelve, Withdraw, Release, ViewBasket, BookNow, columns
  <2>8. CASE Edit
    BY <2>4, <2>5, <2>6, <2>8 DEF Edit, ChangeSettings, columns
  <2>. QED
    BY <2>6, <2>7, <2>8 DEF Next, vars, columns
<1>. QED
  BY <1>1, Initial, Inductive, PTL DEF Spec, AgreedAmountKept
=============================================================================
