------------------------ MODULE BookingQueue_proofs ------------------------
(***************************************************************************)
(* What module BookingQueue keeps for any numbers of bookings, accounts,   *)
(* camps and places.                                                       *)
(***************************************************************************)
EXTENDS BookingQueue, FiniteSetTheorems, TLAPS

USE BookingQueueAssumption

-----------------------------------------------------------------------------
(* Types. *)

\* The variables start within their types.
LEMMA InitType == Init => TypeOK
<1>1. NoDetail \in Details
  BY DEF NoDetail
<1>. QED
  BY <1>1 DEF Init, TypeOK, BookingState, Expiry, Entry, Phase, Mail

\* A request of the holder keeps the variables within their types.
LEMMA HolderType == TypeOK /\ HolderStep => TypeOK'
<1>. SUFFICES ASSUME TypeOK, HolderStep
              PROVE  TypeOK'
  OBVIOUS
<1>. USE DEF TypeOK
<1>1. NoDetail \in Details
  BY DEF NoDetail
<1>2. ASSUME NEW b \in Bookings, NEW d \in DetailChoices, AddPlace(b, d)
      PROVE  TypeOK'
  BY <1>2 DEF AddPlace, BookingState, calendar, entryVars
<1>3. ASSUME NEW b \in Bookings, NEW d \in DetailChoices, EditPlace(b, d)
      PROVE  TypeOK'
  BY <1>3 DEF EditPlace, calendar, entryVars
<1>4. ASSUME NEW b \in Bookings, MoveToShelf(b)
      PROVE  TypeOK'
  BY <1>4 DEF MoveToShelf, calendar, entryVars
<1>5. ASSUME NEW b \in Bookings, MoveToBasket(b)
      PROVE  TypeOK'
  BY <1>5 DEF MoveToBasket, calendar, entryVars
<1>6. ASSUME NEW b \in Bookings, DeletePlace(b)
      PROVE  TypeOK'
  BY <1>1, <1>6 DEF DeletePlace, RemoveRow, Expiry, Entry, calendar
<1>7. ASSUME NEW b \in Bookings, Withdraw(b)
      PROVE  TypeOK'
  BY <1>7 DEF Withdraw, Entry, calendar
<1>8. ASSUME NEW b \in Bookings, AcceptPlace(b)
      PROVE  TypeOK'
  BY <1>8 DEF AcceptPlace, Expiry, calendar, entryVars
<1>9. ASSUME NEW b \in Bookings, RejectPlace(b)
      PROVE  TypeOK'
  BY <1>9 DEF RejectPlace, CancelExpiringPlaces, BookingState, Expiry, Entry, calendar
<1>10. ASSUME NEW a \in Accounts, BookNow(a)
       PROVE  TypeOK'
  BY <1>10 DEF BookNow, Entry, Mail, rowVars, calendar
<1>. QED
  BY <1>2, <1>3, <1>4, <1>5, <1>6, <1>7, <1>8, <1>9, <1>10 DEF HolderStep

\* Allocation keeps the variables within their types.
LEMMA AllocateType == TypeOK /\ AllocateStep => TypeOK'
<1>. SUFFICES ASSUME TypeOK, NEW c \in Camps, NEW A \in SUBSET WaitingFor(c),
                     AllocatePlaces(c, A)
              PROVE  TypeOK'
  BY DEF AllocateStep, AllocatesOn
<1>. USE DEF TypeOK
<1>1. state' \in [Bookings -> BookingState \cup {"absent"}]
  BY DEF AllocatePlaces, BookingState
<1>2. expires' \in [Bookings -> Expiry]
  BY DEF AllocatePlaces, Expiry
<1>3. told' \in [Bookings -> SUBSET Mail]
  BY DEF AllocatePlaces, MailsFor
<1>4. declinedLogs' \in [Bookings -> 0..MaxDeclined]
  BY DEF AllocatePlaces
<1>5. declined' \in [Bookings -> BOOLEAN]
  BY DEF AllocatePlaces
<1>6. UNCHANGED <<detail, shelved, entry, waitingList, maxPlaces, phase>>
  BY DEF AllocatePlaces, calendar
<1>. QED
  BY <1>1, <1>2, <1>3, <1>4, <1>5, <1>6

\* The job, the clock and staff keep the variables within their types.
LEMMA OtherType == TypeOK /\ (ExpireBookings \/ ClockStep \/ AdminStep) => TypeOK'
<1>. SUFFICES ASSUME TypeOK, ExpireBookings \/ ClockStep \/ AdminStep
              PROVE  TypeOK'
  OBVIOUS
<1>. USE DEF TypeOK
<1>1. NoDetail \in Details
  BY DEF NoDetail
<1>2. CASE ExpireBookings
  BY <1>2 DEF ExpireBookings, CancelExpiringPlaces, BookingState, Expiry, Entry, calendar
<1>3. CASE ClockStep
  BY <1>3 DEF ClockStep, DeadlinePasses, OpenForBooking, CloseInitialPeriod,
              Expiry, Phase, rowVars, entryVars, calendar
<1>4. ASSUME NEW b \in Bookings, NEW d \in DetailChoices, NEW st \in AdminStates,
             NEW sh \in BOOLEAN, NEW ex \in Expiry, NEW en \in Entry,
             AdminSave(b, d, st, sh, ex, en)
      PROVE  TypeOK'
  BY <1>4 DEF AdminSave, Mail, calendar
<1>5. ASSUME NEW b \in Bookings, NEW st \in AdminStates, AdminChangeState(b, st)
      PROVE  TypeOK'
  BY <1>5 DEF AdminChangeState, entryVars, calendar
<1>6. ASSUME NEW b \in Bookings, AdminDelete(b)
      PROVE  TypeOK'
  BY <1>1, <1>6 DEF AdminDelete, RemoveRow, Expiry, Entry, calendar
<1>7. ASSUME NEW c \in Camps, NEW places \in LimitChoices, ChangeLimits(c, places)
      PROVE  TypeOK'
  BY <1>7 DEF ChangeLimits, rowVars, entryVars
<1>. QED
  BY <1>2, <1>3, <1>4, <1>5, <1>6, <1>7 DEF AdminStep

\* Every step keeps the variables within their types.
LEMMA NextType == TypeOK /\ [Next]_vars => TypeOK'
<1>1. TypeOK /\ UNCHANGED vars => TypeOK'
  BY DEF TypeOK, vars, rowVars, entryVars, calendar
<1>. QED
  BY <1>1, HolderType, AllocateType, OtherType DEF Next, QueueNext

\* Type correctness of the whole system: whatever holders, staff and the clock
\* do, each column keeps to its choices and no camp has a negative limit.
THEOREM TypeCorrect == Spec => []TypeOK
  BY InitType, NextType, PTL DEF Spec

-----------------------------------------------------------------------------
(* Limits. *)

\* The bookings of one sex that are booked on a camp.
BookedOfSex(c, sex) == OfSex(BookedOn(c), SexOf, sex)

\* Sets of bookings are finite, so counts of them are natural numbers.
LEMMA CountType ==
    ASSUME NEW S \in SUBSET Bookings
    PROVE  IsFiniteSet(S) /\ Cardinality(S) \in Nat
  BY FS_Subset, FS_CardinalityType

\* Two disjoint sets of bookings add up.
LEMMA DisjointSum ==
    ASSUME NEW S \in SUBSET Bookings, NEW T \in SUBSET Bookings, S \cap T = {}
    PROVE  Cardinality(S \cup T) = Cardinality(S) + Cardinality(T)
<1>1. IsFiniteSet(S) /\ IsFiniteSet(T) /\ Cardinality(S) \in Nat /\ Cardinality(T) \in Nat
  BY CountType
<1>2. Cardinality(S \cup T) = Cardinality(S) + Cardinality(T) - Cardinality(S \cap T)
  BY <1>1, FS_Union
<1>3. Cardinality(S \cap T) = 0
  BY FS_EmptySet
<1>. QED
  BY <1>1, <1>2, <1>3

\* Every booking is of one of the two sexes, so a set of them is no larger and
\* no smaller than its boys and girls together.
LEMMA TwoSexes ==
    ASSUME TypeOK, NEW S \in SUBSET Bookings
    PROVE  Cardinality(S) = CountSex(S, SexOf, "male") + CountSex(S, SexOf, "female")
<1>1. SexOf \in [Bookings -> Sexes]
  BY DEF TypeOK, Details, SexOf
<1>2. S = OfSex(S, SexOf, "male") \cup OfSex(S, SexOf, "female")
  BY <1>1 DEF OfSex, Sexes
<1>3. OfSex(S, SexOf, "male") \cap OfSex(S, SexOf, "female") = {}
  BY DEF OfSex
<1>4. OfSex(S, SexOf, "male") \in SUBSET Bookings /\ OfSex(S, SexOf, "female") \in SUBSET Bookings
  BY DEF OfSex
<1>. QED
  BY <1>2, <1>3, <1>4, DisjointSum DEF CountSex

\* The booked campers of a camp are counted by natural numbers.
LEMMA BookedType ==
    ASSUME NEW c \in Camps
    PROVE  /\ \A sex \in Sexes : CountSex(BookedOn(c), SexOf, sex) \in Nat
           /\ PlacesBooked(BookedOn(c), SexOf) \in PlacesType
<1>1. \A sex \in Sexes : BookedOfSex(c, sex) \in SUBSET Bookings
  BY DEF BookedOfSex, OfSex, BookedOn
<1>2. \A sex \in Sexes : CountSex(BookedOn(c), SexOf, sex) \in Nat
  BY <1>1, CountType DEF CountSex, BookedOfSex
<1>. QED
  BY <1>2 DEF PlacesBooked, PlacesType, Sexes

\* What an allocation adds to the counts of a camp: nothing on another camp,
\* and on its own camp the bookings it accepts, no more than was left.
LEMMA AllocationCounts ==
    ASSUME TypeOK, NEW c \in Camps, NEW A \in SUBSET WaitingFor(c), AllocatePlaces(c, A)
    PROVE  /\ \A k \in Camps \ {c} :
                 PlacesBooked(BookedOn(k), SexOf)' = PlacesBooked(BookedOn(k), SexOf)
           /\ LET before == PlacesBooked(BookedOn(c), SexOf)
                  after  == PlacesBooked(BookedOn(c), SexOf)'
                  left   == LeftOn(c)
              IN \A k \in {"total", "male", "female"} :
                   after[k] \in Nat /\ before[k] <= after[k] /\ after[k] <= before[k] + left[k]
           /\ PlacesBooked(BookedOn(c), SexOf)'.total
                = PlacesBooked(BookedOn(c), SexOf).total + Cardinality(A)
           /\ \A sex \in Sexes : PlacesBooked(BookedOn(c), SexOf)'[sex]
                = PlacesBooked(BookedOn(c), SexOf)[sex] + CountSex(A, SexOf, sex)
<1>. DEFINE before == PlacesBooked(BookedOn(c), SexOf)
            after  == PlacesBooked(BookedOn(c), SexOf)'
            left   == LeftOn(c)
<1>1. UNCHANGED detail /\ SexOf' = SexOf
  BY DEF AllocatePlaces, SexOf
<1>2. A \in SUBSET Bookings /\ \A b \in A : state[b] = "info_complete" /\ detail[b].camp = c
  BY DEF WaitingFor, WaitingInQueue, CampOf
<1>3. \A b \in Bookings : state'[b] = IF b \in A THEN "booked" ELSE state[b]
  BY DEF AllocatePlaces
<1>4. \A k \in Camps \ {c} : BookedOn(k)' = BookedOn(k)
  BY <1>1, <1>2, <1>3 DEF BookedOn, Booked, CampOf
<1>5. \A sex \in Sexes : BookedOfSex(c, sex)' = BookedOfSex(c, sex) \cup OfSex(A, SexOf, sex)
  BY <1>1, <1>2, <1>3 DEF BookedOfSex, BookedOn, Booked, CampOf, OfSex
<1>6. \A sex \in Sexes : BookedOfSex(c, sex) \cap OfSex(A, SexOf, sex) = {}
  BY <1>2 DEF BookedOfSex, BookedOn, Booked, OfSex
<1>7. \A sex \in Sexes : /\ BookedOfSex(c, sex) \in SUBSET Bookings
                         /\ OfSex(A, SexOf, sex) \in SUBSET Bookings
  BY <1>2 DEF BookedOfSex, BookedOn, OfSex
<1>8. \A sex \in Sexes : CountSex(BookedOn(c), SexOf, sex)'
                          = CountSex(BookedOn(c), SexOf, sex) + CountSex(A, SexOf, sex)
  BY <1>1, <1>5, <1>6, <1>7, DisjointSum DEF CountSex, BookedOfSex
<1>9. \A sex \in Sexes : /\ CountSex(A, SexOf, sex) \in Nat
                         /\ CountSex(BookedOn(c), SexOf, sex) \in Nat
  BY <1>7, CountType DEF CountSex, BookedOfSex
<1>10. Cardinality(A) = CountSex(A, SexOf, "male") + CountSex(A, SexOf, "female")
  BY <1>2, TwoSexes
<1>11. /\ Cardinality(A) <= left["total"]
       /\ CountSex(A, SexOf, "male") <= left["male"]
       /\ CountSex(A, SexOf, "female") <= left["female"]
  BY DEF AllocatePlaces, IsCutoff, Sexes
<1>12. /\ left["total"] \in Nat
       /\ left["male"] \in Nat
       /\ left["female"] \in Nat
  BY BookedType DEF TypeOK, LeftOn, PlacesLeft, AtLeastZero, PlacesType
<1>13. \A k \in {"total", "male", "female"} :
          after[k] \in Nat /\ before[k] <= after[k] /\ after[k] <= before[k] + left[k]
  BY <1>8, <1>9, <1>10, <1>11, <1>12 DEF PlacesBooked, Sexes
<1>14. \A k \in Camps \ {c} :
          PlacesBooked(BookedOn(k), SexOf)' = PlacesBooked(BookedOn(k), SexOf)
  BY <1>1, <1>4 DEF PlacesBooked, CountSex, OfSex
<1>15. after.total = before.total + Cardinality(A)
  BY <1>8, <1>9, <1>10 DEF PlacesBooked, Sexes
<1>16. \A sex \in Sexes : after[sex] = before[sex] + CountSex(A, SexOf, sex)
  BY <1>8, <1>9 DEF PlacesBooked, Sexes
<1>. QED
  BY <1>13, <1>14, <1>15, <1>16

\* A step that books nobody, and leaves the details of those booked alone,
\* cannot take a camp over its limits.
LEMMA NobodyBooked ==
    ASSUME WithinLimits, TypeOK, UNCHANGED maxPlaces,
           \A b \in Bookings : Booked(b)' => Booked(b) /\ detail'[b] = detail[b]
    PROVE  WithinLimits'
<1>. SUFFICES ASSUME NEW c \in Camps
              PROVE  Fits(PlacesBooked(BookedOn(c), SexOf), maxPlaces[c])'
  BY DEF WithinLimits
<1>1. \A sex \in Sexes : /\ BookedOfSex(c, sex)' \in SUBSET BookedOfSex(c, sex)
                         /\ BookedOfSex(c, sex) \in SUBSET Bookings
  BY DEF BookedOfSex, BookedOn, OfSex, SexOf, CampOf
<1>2. \A sex \in Sexes : /\ CountSex(BookedOn(c), SexOf, sex)' <= CountSex(BookedOn(c), SexOf, sex)
                         /\ CountSex(BookedOn(c), SexOf, sex)' \in Nat
                         /\ CountSex(BookedOn(c), SexOf, sex) \in Nat
  BY <1>1, CountType, FS_Subset DEF CountSex, BookedOfSex
<1>3. Fits(PlacesBooked(BookedOn(c), SexOf), maxPlaces[c])
  BY DEF WithinLimits
<1>. QED
  BY <1>2, <1>3 DEF Fits, PlacesBooked, Sexes, TypeOK, PlacesType

\* Nobody is booked at first.
LEMMA InitLimits == Init => WithinLimits
<1>. SUFFICES ASSUME Init, NEW c \in Camps
              PROVE  Fits(PlacesBooked(BookedOn(c), SexOf), maxPlaces[c])
  BY DEF WithinLimits
<1>1. BookedOn(c) = {}
  BY DEF Init, BookedOn, Booked
<1>2. \A sex \in Sexes : CountSex(BookedOn(c), SexOf, sex) = 0
  BY <1>1, FS_EmptySet DEF CountSex, OfSex
<1>. QED
  BY <1>2 DEF Init, Fits, PlacesBooked, PlacesType, Sexes

\* The queue left to itself keeps the limits.
LEMMA NextLimits == TypeOK /\ WithinLimits /\ [QueueNext]_vars => WithinLimits'
<1>. SUFFICES ASSUME TypeOK, WithinLimits, [QueueNext]_vars
              PROVE  WithinLimits'
  OBVIOUS
<1>1. CASE HolderStep
  <2>1. UNCHANGED maxPlaces
    BY <1>1 DEF HolderStep, AddPlace, EditPlace, MoveToShelf, MoveToBasket, DeletePlace,
                RemoveRow, Withdraw, AcceptPlace, RejectPlace, CancelExpiringPlaces,
                BookNow, calendar
  <2>2. ASSUME NEW b \in Bookings, Booked(b)'
        PROVE  Booked(b) /\ detail'[b] = detail[b]
    BY <1>1, <2>2 DEF HolderStep, AddPlace, EditPlace, MoveToShelf, MoveToBasket, DeletePlace,
                RemoveRow, Withdraw, AcceptPlace, RejectPlace, CancelExpiringPlaces,
                BookNow, Booked, rowVars, TypeOK, Listed, InBasket, OnShelf
  <2>. QED
    BY <2>1, <2>2, NobodyBooked
<1>2. CASE ExpireBookings \/ ClockStep \/ UNCHANGED vars
  <2>1. UNCHANGED maxPlaces
    BY <1>2 DEF ExpireBookings, CancelExpiringPlaces, ClockStep, DeadlinePasses,
                OpenForBooking, CloseInitialPeriod, calendar, vars
  <2>2. ASSUME NEW b \in Bookings, Booked(b)'
        PROVE  Booked(b) /\ detail'[b] = detail[b]
    BY <1>2, <2>2 DEF ExpireBookings, CancelExpiringPlaces, ClockStep, DeadlinePasses,
                OpenForBooking, CloseInitialPeriod, Booked, rowVars, vars, TypeOK
  <2>. QED
    BY <2>1, <2>2, NobodyBooked
<1>3. CASE AllocateStep
  <2>0. PICK c \in Camps : \E A \in SUBSET WaitingFor(c) : AllocatePlaces(c, A)
    BY <1>3 DEF AllocateStep, AllocatesOn
  <2>1. PICK A \in SUBSET WaitingFor(c) : AllocatePlaces(c, A)
    BY <2>0
  <2>2. UNCHANGED maxPlaces
    BY <2>1 DEF AllocatePlaces, calendar
  <2>3. ASSUME NEW k \in Camps \ {c}
        PROVE  Fits(PlacesBooked(BookedOn(k), SexOf), maxPlaces[k])'
    BY <2>1, <2>2, <2>3, AllocationCounts DEF WithinLimits
  <2>4. Fits(PlacesBooked(BookedOn(c), SexOf), maxPlaces[c])'
    <3>. DEFINE before == PlacesBooked(BookedOn(c), SexOf)
                after  == PlacesBooked(BookedOn(c), SexOf)'
                left   == LeftOn(c)
    <3>1. \A k \in {"total", "male", "female"} :
             after[k] \in Nat /\ before[k] <= after[k] /\ after[k] <= before[k] + left[k]
      BY <2>1, AllocationCounts
    <3>2. \A k \in {"total", "male", "female"} :
             left[k] = AtLeastZero(maxPlaces[c][k] - before[k])
      BY DEF LeftOn, PlacesLeft
    <3>3. \A k \in {"total", "male", "female"} :
             maxPlaces[c][k] \in Nat /\ before[k] \in Nat /\ before[k] <= maxPlaces[c][k]
      BY BookedType DEF TypeOK, PlacesType, WithinLimits, Fits
    <3>4. \A k \in {"total", "male", "female"} : after[k] <= maxPlaces[c][k]
      BY <3>1, <3>2, <3>3 DEF AtLeastZero
    <3>. QED
      BY <2>2, <3>4 DEF Fits
  <2>. QED
    BY <2>3, <2>4 DEF WithinLimits
<1>. QED
  BY <1>1, <1>2, <1>3 DEF QueueNext

\* No camp is overbooked, by any sequence of requests, allocations, refusals and
\* expiries, as long as staff do not book by hand or change the limits.
THEOREM NeverOverbooked == QueueSpec => []WithinLimits
<1>1. TypeOK /\ WithinLimits /\ [QueueNext]_vars => TypeOK' /\ WithinLimits'
  BY NextType, NextLimits DEF Next
<1>. QED
  BY <1>1, InitType, InitLimits, PTL DEF QueueSpec

\* And when staff have overbooked a camp, or lowered its limits, allocation
\* takes none of its three counts above its limit, nor further above it.
THEOREM AllocationRespectsLimits == Spec => AllocationKeepsLimits
<1>1. ASSUME TypeOK, NEW c \in Camps, AllocatesOn(c)
      PROVE  \A k \in {"total", "male", "female"} :
                \/ PlacesBooked(BookedOn(c), SexOf)'[k] <= maxPlaces[c][k]
                \/ PlacesBooked(BookedOn(c), SexOf)'[k] = PlacesBooked(BookedOn(c), SexOf)[k]
  <2>. DEFINE before == PlacesBooked(BookedOn(c), SexOf)
              after  == PlacesBooked(BookedOn(c), SexOf)'
              left   == LeftOn(c)
  <2>1. \A k \in {"total", "male", "female"} :
           after[k] \in Nat /\ before[k] <= after[k] /\ after[k] <= before[k] + left[k]
    BY <1>1, AllocationCounts DEF AllocatesOn
  <2>2. \A k \in {"total", "male", "female"} :
           left[k] = AtLeastZero(maxPlaces[c][k] - before[k])
    BY DEF LeftOn, PlacesLeft
  <2>3. \A k \in {"total", "male", "female"} : maxPlaces[c][k] \in Nat /\ before[k] \in Nat
    BY <1>1, BookedType DEF TypeOK, PlacesType
  <2>. QED
    BY <2>1, <2>2, <2>3 DEF AtLeastZero
<1>2. TypeOK /\ [Next]_vars => [AllocatesWithinLimits]_vars
  BY <1>1 DEF AllocatesWithinLimits
<1>. QED
  BY <1>2, TypeCorrect, PTL DEF AllocationKeepsLimits, Spec

-----------------------------------------------------------------------------
(* Deadlines and mails. *)

\* A deadline implies a place that came from the waiting list, and the mail
\* that offers it. Each half needs the other: the mail goes to every place of
\* the batch that carries a deadline, and only the first half says which.
OffersInv == DeadlineOnlyFromWaitingList /\ DeadlineWasAnnounced

LEMMA InitOffers == Init => OffersInv
  BY DEF Init, OffersInv, DeadlineOnlyFromWaitingList, DeadlineWasAnnounced,
         BookedButWillExpire, Booked

\* No request, job or allocation separates a deadline from its place, from the
\* waiting list or from its mail.
LEMMA NextOffers == TypeOK /\ OffersInv /\ [QueueNext]_vars => OffersInv'
<1>. SUFFICES ASSUME TypeOK, OffersInv, [QueueNext]_vars, NEW b \in Bookings, expires'[b] # "none"
              PROVE  /\ Booked(b)' /\ WaitingListMode(b)'
                     /\ HasEmailFor(b) => "offer" \in told'[b]
  BY DEF OffersInv, DeadlineOnlyFromWaitingList, DeadlineWasAnnounced, BookedButWillExpire, HasEmailFor
<1>. USE DEF Booked, WaitingListMode, TypeOK
<1>1. expires[b] # "none" => /\ Booked(b) /\ WaitingListMode(b)
                             /\ HasEmailFor(b) => "offer" \in told[b]
  BY DEF OffersInv, DeadlineOnlyFromWaitingList, DeadlineWasAnnounced, BookedButWillExpire
<1>2. CASE HolderStep
  <2>1. ASSUME NEW x \in Bookings, NEW d \in DetailChoices, AddPlace(x, d) \/ EditPlace(x, d)
        PROVE  /\ Booked(b)' /\ WaitingListMode(b)'
               /\ HasEmailFor(b) => "offer" \in told'[b]
    BY <1>1, <2>1 DEF AddPlace, EditPlace, entryVars
  <2>2. ASSUME NEW x \in Bookings,
               \/ MoveToShelf(x) \/ MoveToBasket(x) \/ Withdraw(x) \/ AcceptPlace(x)
        PROVE  /\ Booked(b)' /\ WaitingListMode(b)'
               /\ HasEmailFor(b) => "offer" \in told'[b]
    BY <1>1, <2>2 DEF MoveToShelf, MoveToBasket, Withdraw, AcceptPlace, entryVars
  <2>3. ASSUME NEW x \in Bookings, DeletePlace(x) \/ RejectPlace(x)
        PROVE  /\ Booked(b)' /\ WaitingListMode(b)'
               /\ HasEmailFor(b) => "offer" \in told'[b]
    BY <1>1, <2>3 DEF DeletePlace, RemoveRow, RejectPlace, CancelExpiringPlaces
  <2>4. ASSUME NEW a \in Accounts, BookNow(a)
        PROVE  /\ Booked(b)' /\ WaitingListMode(b)'
               /\ HasEmailFor(b) => "offer" \in told'[b]
    BY <1>1, <2>4 DEF BookNow, Basket, InBasket, rowVars
  <2>. QED
    BY <1>2, <2>1, <2>2, <2>3, <2>4 DEF HolderStep
<1>3. CASE AllocateStep
  <2>1. PICK c \in Camps : AllocatesOn(c)
    BY <1>3 DEF AllocateStep
  <2>2. PICK A \in SUBSET WaitingFor(c) : AllocatePlaces(c, A)
    BY <2>1 DEF AllocatesOn
  <2>3. CASE b \in A
    <3>1. expires[b] = "none"
      BY <1>1, <2>3 DEF WaitingFor, WaitingInQueue
    <3>2. WaitingListMode(b)
      BY <2>2, <3>1 DEF AllocatePlaces
    <3>3. HasEmailFor(b) => "offer" \in told'[b]
      BY <2>2, <2>3, <3>2 DEF AllocatePlaces, MailsFor, Mail
    <3>4. Booked(b)' /\ WaitingListMode(b)'
      BY <2>2, <2>3, <3>2 DEF AllocatePlaces
    <3>. QED
      BY <3>3, <3>4
  <2>4. CASE b \notin A
    BY <1>1, <2>2, <2>4 DEF AllocatePlaces
  <2>. QED
    BY <2>3, <2>4
<1>4. CASE ExpireBookings
  BY <1>1, <1>4 DEF ExpireBookings, CancelExpiringPlaces
<1>5. CASE ClockStep
  BY <1>1, <1>5 DEF ClockStep, DeadlinePasses, OpenForBooking, CloseInitialPeriod, rowVars, entryVars
<1>6. CASE UNCHANGED vars
  BY <1>1, <1>6 DEF vars, rowVars, entryVars
<1>. QED
  BY <1>2, <1>3, <1>4, <1>5, <1>6 DEF QueueNext

\* A place has a deadline only if it is booked and came from the waiting list.
THEOREM DeadlinesExplained == QueueSpec => []DeadlineOnlyFromWaitingList
<1>1. TypeOK /\ OffersInv /\ [QueueNext]_vars => TypeOK' /\ OffersInv'
  BY NextType, NextOffers DEF Next
<1>2. OffersInv => DeadlineOnlyFromWaitingList
  BY DEF OffersInv
<1>. QED
  BY <1>1, <1>2, InitType, InitOffers, PTL DEF QueueSpec

\* Nobody with an email address loses a place to a deadline unannounced.
THEOREM DeadlinesAnnounced == QueueSpec => []DeadlineWasAnnounced
<1>1. TypeOK /\ OffersInv /\ [QueueNext]_vars => TypeOK' /\ OffersInv'
  BY NextType, NextOffers DEF Next
<1>2. OffersInv => DeadlineWasAnnounced
  BY DEF OffersInv
<1>. QED
  BY <1>1, <1>2, InitType, InitOffers, PTL DEF QueueSpec

\* The log of an account with an email address agrees with the column that
\* keeps a second mail from being sent.
DeclinedInv == \A b \in Bookings : HasEmailFor(b) =>
                  declinedLogs[b] <= 1 /\ (declinedLogs[b] # 0 => declined[b])

\* No step of the holder, the secretary, staff or the job breaks that.
LEMMA NextDeclined == TypeOK /\ DeclinedInv /\ [Next]_vars => DeclinedInv'
<1>. SUFFICES ASSUME TypeOK, DeclinedInv, [Next]_vars, NEW b \in Bookings, HasEmailFor(b)
              PROVE  declinedLogs'[b] <= 1 /\ (declinedLogs'[b] # 0 => declined'[b])
  BY DEF DeclinedInv, HasEmailFor
<1>. USE DEF TypeOK
<1>1. declinedLogs[b] <= 1 /\ (declinedLogs[b] # 0 => declined[b])
  BY DEF DeclinedInv
<1>2. CASE AllocateStep
  <2>1. PICK c \in Camps : AllocatesOn(c)
    BY <1>2 DEF AllocateStep
  <2>2. PICK A \in SUBSET WaitingFor(c) : AllocatePlaces(c, A)
    BY <2>1 DEF AllocatesOn
  <2>3. CASE b \in ToDecline(WaitingFor(c), A)
    <3>1. ~declined[b] /\ declinedLogs[b] = 0
      BY <1>1, <2>3 DEF ToDecline, WillSendDeclined
    <3>2. declinedLogs'[b] = declinedLogs[b] + 1 /\ declined'[b]
      BY <2>2, <2>3 DEF AllocatePlaces
    <3>. QED
      BY <3>1, <3>2
  <2>4. CASE b \notin ToDecline(WaitingFor(c), A)
    BY <1>1, <2>2, <2>4 DEF AllocatePlaces
  <2>. QED
    BY <2>3, <2>4
<1>3. ASSUME NEW x \in Bookings, RemoveRow(x)
      PROVE  declinedLogs'[b] <= 1 /\ (declinedLogs'[b] # 0 => declined'[b])
  BY <1>1, <1>3 DEF RemoveRow
<1>4. CASE HolderStep
  BY <1>1, <1>3, <1>4 DEF HolderStep, AddPlace, EditPlace, MoveToShelf, MoveToBasket, DeletePlace,
       Withdraw, AcceptPlace, RejectPlace, CancelExpiringPlaces, BookNow, entryVars
<1>5. CASE ExpireBookings \/ ClockStep \/ UNCHANGED vars
  BY <1>1, <1>5 DEF ExpireBookings, CancelExpiringPlaces, ClockStep, DeadlinePasses,
       OpenForBooking, CloseInitialPeriod, entryVars, vars
<1>6. CASE AdminStep
  BY <1>1, <1>3, <1>6 DEF AdminStep, AdminSave, AdminChangeState, AdminDelete, ChangeLimits, entryVars
<1>. QED
  BY <1>2, <1>4, <1>5, <1>6 DEF Next, QueueNext

\* However often a booking leaves the queue and joins it again, and whatever
\* staff change in between, an account with an email address is sent one
\* "declined" mail about it.
THEOREM DeclinedAtMostOnce == Spec => []DeclinedOnce
<1>1. Init => TypeOK /\ DeclinedInv
  BY InitType DEF Init, DeclinedInv
<1>2. TypeOK /\ DeclinedInv /\ [Next]_vars => TypeOK' /\ DeclinedInv'
  BY NextType, NextDeclined
<1>3. DeclinedInv => DeclinedOnce
  BY DEF DeclinedInv, DeclinedOnce
<1>. QED
  BY <1>1, <1>2, <1>3, PTL DEF Spec

-----------------------------------------------------------------------------
(* What is never taken away. *)

\* One step of the queue leaves every place without a deadline as it is.
LEMMA StepKeepsConfirmed == TypeOK /\ [QueueNext]_vars => [KeepsConfirmed]_vars
<1>. SUFFICES ASSUME TypeOK, QueueNext, NEW b \in Bookings, Booked(b), expires[b] = "none"
              PROVE  Booked(b)' /\ expires'[b] = "none" /\ detail'[b] = detail[b]
  BY DEF KeepsConfirmed
<1>. USE DEF Booked, TypeOK
<1>1. CASE HolderStep
  BY <1>1 DEF HolderStep, AddPlace, EditPlace, MoveToShelf, MoveToBasket, DeletePlace, RemoveRow,
       Withdraw, AcceptPlace, RejectPlace, BookedButWillExpire, CancelExpiringPlaces, BookNow,
       Listed, InBasket, OnShelf, rowVars
<1>2. CASE AllocateStep
  <2>1. PICK c \in Camps : AllocatesOn(c)
    BY <1>2 DEF AllocateStep
  <2>2. PICK A \in SUBSET WaitingFor(c) : AllocatePlaces(c, A)
    BY <2>1 DEF AllocatesOn
  <2>3. b \notin A
    BY DEF WaitingFor, WaitingInQueue
  <2>. QED
    BY <2>2, <2>3 DEF AllocatePlaces
<1>3. CASE ExpireBookings
  BY <1>3 DEF ExpireBookings, Overdue, ExpiryDue, CancelExpiringPlaces
<1>4. CASE ClockStep
  BY <1>4 DEF ClockStep, DeadlinePasses, OpenForBooking, CloseInitialPeriod, rowVars
<1>. QED
  BY <1>1, <1>2, <1>3, <1>4 DEF QueueNext

\* Whatever holders, the secretary and the job do, a place without a deadline
\* stays with its camper, on the same camp.
THEOREM ConfirmedPlacesStay == QueueSpec => ConfirmedPlaceKept
<1>1. TypeOK /\ [QueueNext]_vars => TypeOK'
  BY NextType DEF Next
<1>. QED
  BY <1>1, InitType, StepKeepsConfirmed, PTL DEF QueueSpec, ConfirmedPlaceKept

\* One step of the queue leaves nobody out of it but those it books or whose
\* holders withdraw them.
LEMMA StepKeepsQueuePlace == TypeOK /\ [QueueNext]_vars => [KeepsQueuePlace]_vars
<1>. SUFFICES ASSUME TypeOK, QueueNext, NEW b \in Bookings, WaitingInQueue(b)
              PROVE  WaitingInQueue(b)' \/ Booked(b)' \/ Withdraw(b)
  BY DEF KeepsQueuePlace
<1>. USE DEF Booked, WaitingInQueue, InQueue, TypeOK
<1>1. CASE HolderStep
  <2>1. ASSUME NEW x \in Bookings, NEW d \in DetailChoices, AddPlace(x, d) \/ EditPlace(x, d)
        PROVE  WaitingInQueue(b)'
    BY <2>1 DEF AddPlace, EditPlace, entryVars
  <2>2. ASSUME NEW x \in Bookings, MoveToShelf(x) \/ MoveToBasket(x) \/ AcceptPlace(x)
        PROVE  WaitingInQueue(b)'
    BY <2>2 DEF MoveToShelf, MoveToBasket, AcceptPlace, entryVars
  <2>3. ASSUME NEW x \in Bookings, DeletePlace(x)
        PROVE  WaitingInQueue(b)'
    BY <2>3 DEF DeletePlace, Listed, NotInQueue, RemoveRow
  <2>4. ASSUME NEW x \in Bookings, RejectPlace(x)
        PROVE  WaitingInQueue(b)'
    BY <2>4 DEF RejectPlace, BookedButWillExpire, CancelExpiringPlaces
  <2>5. ASSUME NEW x \in Bookings, Withdraw(x)
        PROVE  WaitingInQueue(b)' \/ Withdraw(b)
    <3>1. CASE x = b
      BY <2>5, <3>1
    <3>2. CASE x # b
      BY <2>5, <3>2 DEF Withdraw
    <3>. QED
      BY <3>1, <3>2
  <2>6. ASSUME NEW a \in Accounts, BookNow(a)
        PROVE  WaitingInQueue(b)'
    BY <2>6 DEF BookNow, rowVars
  <2>. QED
    BY <1>1, <2>1, <2>2, <2>3, <2>4, <2>5, <2>6 DEF HolderStep
<1>2. CASE AllocateStep
  BY <1>2 DEF AllocateStep, AllocatesOn, AllocatePlaces
<1>3. CASE ExpireBookings
  BY <1>3 DEF ExpireBookings, Overdue, ExpiryDue, CancelExpiringPlaces
<1>4. CASE ClockStep
  BY <1>4 DEF ClockStep, DeadlinePasses, OpenForBooking, CloseInitialPeriod, rowVars, entryVars
<1>. QED
  BY <1>1, <1>2, <1>3, <1>4 DEF QueueNext

\* A waiting booking leaves the queue only by being booked or withdrawn.
THEOREM QueuePlacesStay == QueueSpec => QueuePlaceKept
<1>1. TypeOK /\ [QueueNext]_vars => TypeOK'
  BY NextType DEF Next
<1>. QED
  BY <1>1, InitType, StepKeepsQueuePlace, PTL DEF QueueSpec, QueuePlaceKept

\* A pass that stops only where a limit is used up leaves no room behind it.
LEMMA NoRoomLeft ==
    ASSUME TypeOK, NEW c \in Camps, NEW A \in SUBSET WaitingFor(c), AllocatePlaces(c, A),
           NEW b \in WaitingFor(c) \ A
    PROVE  ~PlacesAvailable(LeftOn(c)', SexOf'[b])
<1>. DEFINE before == PlacesBooked(BookedOn(c), SexOf)
            after  == PlacesBooked(BookedOn(c), SexOf)'
            left   == LeftOn(c)
            sex    == SexOf[b]
<1>1. SexOf' = SexOf /\ maxPlaces' = maxPlaces
  BY DEF AllocatePlaces, SexOf, calendar
<1>2. sex \in Sexes
  BY DEF WaitingFor, TypeOK, Details, SexOf
<1>3. Cardinality(A) >= left.total \/ CountSex(A, SexOf, sex) >= left[sex]
  BY DEF AllocatePlaces, IsCutoff
<1>4. /\ after.total = before.total + Cardinality(A)
      /\ after[sex] = before[sex] + CountSex(A, SexOf, sex)
  BY <1>2, AllocationCounts
<1>5. /\ left.total = AtLeastZero(maxPlaces[c].total - before.total)
      /\ left[sex] = AtLeastZero(maxPlaces[c][sex] - before[sex])
      /\ LeftOn(c)'.total = AtLeastZero(maxPlaces[c].total - after.total)
      /\ LeftOn(c)'[sex] = AtLeastZero(maxPlaces[c][sex] - after[sex])
  BY <1>1, <1>2 DEF LeftOn, PlacesLeft, Sexes
<1>6. /\ maxPlaces[c].total \in Nat /\ before.total \in Nat
      /\ maxPlaces[c][sex] \in Nat /\ before[sex] \in Nat
  BY <1>2, BookedType DEF TypeOK, PlacesType, Sexes
<1>7. A \in SUBSET Bookings /\ OfSex(A, SexOf, sex) \in SUBSET Bookings
  BY DEF WaitingFor, OfSex
<1>8. Cardinality(A) \in Nat /\ CountSex(A, SexOf, sex) \in Nat
  BY <1>7, CountType DEF CountSex
<1>9. LeftOn(c)'.total = 0 \/ LeftOn(c)'[sex] = 0
  BY <1>3, <1>4, <1>5, <1>6, <1>8 DEF AtLeastZero
<1>. QED
  BY <1>1, <1>9 DEF PlacesAvailable

\* After an allocation nobody waits for a place that could have been theirs,
\* nor without having been told, whatever staff did before it.
THEOREM AllocationServes == Spec => AllocationServesEverybody
<1>1. ASSUME TypeOK, NEW c \in Camps, AllocatesOn(c),
             NEW b \in Bookings, (WaitingInQueue(b) /\ CampOf(b) = c)'
      PROVE  ~PlacesAvailableFor(b)' /\ (WaitingListMode(b)' \/ ~HasEmailFor(b))
  <2>. USE DEF TypeOK
  <2>1. PICK A \in SUBSET WaitingFor(c) : AllocatePlaces(c, A)
    BY <1>1 DEF AllocatesOn
  <2>2. b \in WaitingFor(c) \ A
    BY <1>1, <2>1 DEF AllocatePlaces, WaitingFor, WaitingInQueue, InQueue, CampOf
  <2>3. ~PlacesAvailable(LeftOn(c)', SexOf'[b])
    BY <1>1, <2>1, <2>2, NoRoomLeft
  <2>4. ~PlacesAvailableFor(b)'
    BY <1>1, <2>3 DEF PlacesAvailableFor
  <2>5. CASE WaitingListMode(b)
    BY <2>1, <2>4, <2>5 DEF AllocatePlaces, WaitingListMode
  <2>6. CASE ~WaitingListMode(b)
    <3>1. b \in ToDecline(WaitingFor(c), A)
      BY <2>2, <2>6 DEF ToDecline, WillSendDeclined, WaitingListMode
    <3>2. HasEmailFor(b) => declined'[b]
      BY <2>1, <3>1 DEF AllocatePlaces
    <3>. QED
      BY <2>4, <3>2 DEF WaitingListMode
  <2>. QED
    BY <2>5, <2>6
<1>2. TypeOK /\ [Next]_vars => [ServesEverybody]_vars
  BY <1>1 DEF ServesEverybody
<1>. QED
  BY <1>2, TypeCorrect, PTL DEF AllocationServesEverybody, Spec

-----------------------------------------------------------------------------
(* The queue keeps the promise of module CampPlaces. *)

\* What a step is entitled to: nobody touches the limits or asks for something
\* the form does not offer, no camp is overbooked, and a deadline means that a
\* place is on offer. Nothing is left of the queue entry of a deleted row: a new
\* row in its place would start in the queue.
PromiseInv ==
    /\ TypeOK
    /\ WithinLimits
    /\ OffersInv
    /\ maxPlaces = MaxPlacesOf
    /\ detail \in [Bookings -> DetailChoices]
    /\ \A b \in Bookings : ~Exists(b) => entry[b] = "none"

\* The conjuncts of PromiseInv hold at first.
LEMMA InitPromise == Init => PromiseInv /\ Promise!Init
<1>1. NoDetail \in DetailChoices
  BY DEF NoDetail
<1>. QED
  BY <1>1, InitType, InitLimits, InitOffers DEF Init, PromiseInv, Promise!Init, Standing

\* Every step of the queue keeps them.
LEMMA NextPromiseInv == PromiseInv /\ [QueueNext]_vars => PromiseInv'
<1>. SUFFICES ASSUME PromiseInv, [QueueNext]_vars
              PROVE  PromiseInv'
  OBVIOUS
<1>1. TypeOK' /\ WithinLimits' /\ OffersInv'
  BY NextType, NextLimits, NextOffers DEF PromiseInv, Next
<1>2. NoDetail \in DetailChoices
  BY DEF NoDetail
<1>. USE <1>1, <1>2 DEF PromiseInv, TypeOK, Exists
<1>3. CASE HolderStep
  <2>1. ASSUME NEW b \in Bookings, NEW d \in DetailChoices, AddPlace(b, d) \/ EditPlace(b, d)
        PROVE  PromiseInv'
    BY <2>1 DEF AddPlace, EditPlace, entryVars, calendar
  <2>2. ASSUME NEW b \in Bookings,
               \/ MoveToShelf(b) \/ MoveToBasket(b) \/ Withdraw(b) \/ AcceptPlace(b) \/ RejectPlace(b)
        PROVE  PromiseInv'
    BY <2>2 DEF MoveToShelf, MoveToBasket, Withdraw, AcceptPlace, RejectPlace, CancelExpiringPlaces,
         BookedButWillExpire, Booked, entryVars, calendar
  <2>3. ASSUME NEW b \in Bookings, DeletePlace(b)
        PROVE  PromiseInv'
    BY <2>3 DEF DeletePlace, RemoveRow, calendar
  <2>4. ASSUME NEW a \in Accounts, BookNow(a)
        PROVE  PromiseInv'
    BY <2>4 DEF BookNow, Basket, InBasket, rowVars, calendar
  <2>. QED
    BY <1>3, <2>1, <2>2, <2>3, <2>4 DEF HolderStep
<1>4. CASE AllocateStep
  <2>1. PICK c \in Camps : AllocatesOn(c)
    BY <1>4 DEF AllocateStep
  <2>2. PICK A \in SUBSET WaitingFor(c) : AllocatePlaces(c, A)
    BY <2>1 DEF AllocatesOn
  <2>. QED
    BY <2>2 DEF AllocatePlaces, calendar
<1>5. CASE ExpireBookings
  BY <1>5 DEF ExpireBookings, Overdue, ExpiryDue, Booked, CancelExpiringPlaces, calendar
<1>6. CASE ClockStep \/ UNCHANGED vars
  BY <1>6 DEF ClockStep, DeadlinePasses, OpenForBooking, CloseInitialPeriod,
       rowVars, entryVars, vars, calendar
<1>. QED
  BY <1>3, <1>4, <1>5, <1>6 DEF QueueNext

-----------------------------------------------------------------------------
(* Each kind of step, as the holder of the account sees it. *)

\* Filling in, changing and removing the details of a camper.
LEMMA DraftSteps ==
    ASSUME PromiseInv, NEW b \in Bookings, NEW d \in DetailChoices
    PROVE  /\ AddPlace(b, d) => Promise!Draft(b, d)
           /\ EditPlace(b, d) => Promise!Amend(b, d)
           /\ DeletePlace(b) => Promise!Discard(b, NoDetail)
<1>. USE DEF PromiseInv, TypeOK, Standing
<1>1. ASSUME AddPlace(b, d)
      PROVE  Promise!Draft(b, d)
  BY <1>1 DEF AddPlace, Exists, Promise!Draft, Promise!Move, entryVars
<1>2. ASSUME EditPlace(b, d)
      PROVE  Promise!Amend(b, d)
  BY <1>2 DEF EditPlace, Promise!Amend, entryVars
<1>3. ASSUME DeletePlace(b)
      PROVE  Promise!Discard(b, NoDetail)
  BY <1>3 DEF DeletePlace, RemoveRow, Listed, NotInQueue, InBasket, OnShelf,
       Promise!Discard, Promise!Move
<1>. QED
  BY <1>1, <1>2, <1>3

\* Tidying the basket page is not seen in the standing of a place.
LEMMA ShelfSteps ==
    ASSUME PromiseInv, NEW b \in Bookings, MoveToShelf(b) \/ MoveToBasket(b)
    PROVE  UNCHANGED Promise!vars
  BY DEF PromiseInv, TypeOK, Standing, MoveToShelf, MoveToBasket, Promise!vars, entryVars

\* Withdrawing an application that waits takes it back to a draft; withdrawing
\* one that does not wait any more changes nothing.
LEMMA WithdrawStep ==
    ASSUME PromiseInv, NEW b \in Bookings, Withdraw(b)
    PROVE  Promise!Leave(b) \/ UNCHANGED Promise!vars
<1>. USE DEF PromiseInv, TypeOK, Standing, Withdraw
<1>1. CASE Standing[b] = "waiting"
  BY <1>1 DEF Promise!Leave, Promise!Move
<1>2. CASE Standing[b] # "waiting"
  BY <1>2 DEF Promise!vars
<1>. QED
  BY <1>1, <1>2

\* Applying for the basket.
LEMMA BookNowStep ==
    ASSUME PromiseInv, NEW a \in Accounts, BookNow(a)
    PROVE  Promise!Apply(Basket(a))
<1>1. \A b \in Basket(a) : Standing[b] = "draft"
  BY DEF Standing, Basket, InBasket, NotInQueue
<1>2. \A b \in Bookings : Standing'[b] = IF b \in Basket(a) THEN "waiting" ELSE Standing[b]
  BY DEF PromiseInv, TypeOK, Standing, BookNow, Basket, InBasket, NotInQueue, rowVars
<1>3. Promise!Move(Basket(a), "waiting")
  BY <1>2 DEF Standing, Promise!Move
<1>. QED
  BY <1>1, <1>3 DEF Promise!Apply, BookNow, rowVars

\* Accepting an offer.
LEMMA AcceptStep ==
    ASSUME PromiseInv, NEW b \in Bookings, AcceptPlace(b)
    PROVE  Promise!Confirm(b)
  BY DEF PromiseInv, TypeOK, Standing, AcceptPlace, BookedButWillExpire, Booked,
         Promise!Confirm, Promise!Move, entryVars

\* Refusing an offer, or losing several to the deadline.
LEMMA ReleaseSteps ==
    ASSUME PromiseInv, NEW S \in SUBSET Bookings,
           \A b \in S : BookedButWillExpire(b), CancelExpiringPlaces(S)
    PROVE  Promise!Release(S)
<1>1. \A b \in S : Standing[b] = "offered"
  BY DEF Standing, BookedButWillExpire, Booked
<1>2. \A b \in Bookings : Standing'[b] = IF b \in S THEN "released" ELSE Standing[b]
  BY DEF PromiseInv, TypeOK, Standing, CancelExpiringPlaces
<1>3. Promise!Move(S, "released")
  BY <1>2 DEF Standing, Promise!Move
<1>. QED
  BY <1>1, <1>3 DEF Promise!Release, CancelExpiringPlaces

\* An allocation awards places: for good to those who were never told of a
\* waiting list, on offer to the others.
LEMMA AwardStep ==
    ASSUME PromiseInv, PromiseInv', NEW c \in Camps, AllocatesOn(c)
    PROVE  \E held, offered \in SUBSET Bookings : Promise!Award(c, held, offered)
<1>1. PICK A \in SUBSET WaitingFor(c) : AllocatePlaces(c, A)
  BY DEF AllocatesOn
<1>. DEFINE offered == {b \in A : WaitingListMode(b)}
            held    == A \ offered
<1>2. A \in SUBSET Bookings /\ offered \in SUBSET Bookings /\ held \in SUBSET Bookings
  BY DEF WaitingFor
<1>3. \A b \in A : Standing[b] = "waiting" /\ detail[b].camp = c
  BY DEF WaitingFor, WaitingInQueue, InQueue, CampOf, Standing
<1>4. \A b \in A : expires[b] = "none"
  BY DEF WaitingFor, WaitingInQueue, PromiseInv, OffersInv, DeadlineOnlyFromWaitingList, Booked
<1>5. \A b \in Bookings : Standing'[b] = IF b \in offered THEN "offered"
                                       ELSE IF b \in held THEN "held" ELSE Standing[b]
  BY <1>1, <1>2, <1>4 DEF PromiseInv, TypeOK, Standing, AllocatePlaces
<1>6. Standing' = [b \in Bookings |-> IF b \in offered THEN "offered"
                                     ELSE IF b \in held THEN "held" ELSE Standing[b]]
  BY <1>5 DEF Standing
<1>7. UNCHANGED detail
  BY <1>1 DEF AllocatePlaces
<1>8. Promise!HasRoom(c, Standing', detail)
  <2>1. Promise!Taken(c, Standing', detail) = BookedOn(c)'
    BY <1>7 DEF Promise!Taken, Standing, BookedOn, Booked, CampOf
  <2>2. Fits(PlacesBooked(BookedOn(c), SexOf)', MaxPlacesOf[c])
    BY DEF PromiseInv, WithinLimits
  <2>3. SexOf' = [b \in Bookings |-> detail[b].sex]
    BY <1>7 DEF SexOf
  <2>4. \A S : Promise!Cardinality(S) = Cardinality(S)
    BY DEF Cardinality, Promise!Cardinality
  <2>. QED
    BY <2>1, <2>2, <2>3, <2>4 DEF Fits, PlacesBooked, CountSex, OfSex,
         Promise!HasRoom, Promise!PlacesBooked, Promise!CountSex, Promise!OfSex
<1>9. \A b \in held \cup offered : Standing[b] = "waiting" /\ detail[b].camp = c
  BY <1>3
<1>10. Promise!Award(c, held, offered)
  BY <1>6, <1>7, <1>8, <1>9 DEF Promise!Award
<1>. QED
  BY <1>2, <1>10

\* Every step of the queue is a step of the promise, or is not seen in it.
LEMMA StepKeepsPromise ==
    PromiseInv /\ PromiseInv' /\ [QueueNext]_vars => [Promise!Next]_(Promise!vars)
<1>. SUFFICES ASSUME PromiseInv, PromiseInv', [QueueNext]_vars
              PROVE  Promise!Next \/ UNCHANGED Promise!vars
  OBVIOUS
<1>1. CASE HolderStep
  <2>1. NoDetail \in DetailChoices
    BY DEF NoDetail
  <2>2. ASSUME NEW b \in Bookings, NEW d \in DetailChoices, AddPlace(b, d) \/ EditPlace(b, d)
        PROVE  Promise!Next
    BY <2>2, DraftSteps DEF Promise!Next
  <2>3. ASSUME NEW b \in Bookings, DeletePlace(b)
        PROVE  Promise!Next
    BY <2>1, <2>3, DraftSteps DEF Promise!Next
  <2>4. ASSUME NEW b \in Bookings, MoveToShelf(b) \/ MoveToBasket(b)
        PROVE  UNCHANGED Promise!vars
    BY <2>4, ShelfSteps
  <2>5. ASSUME NEW b \in Bookings, Withdraw(b)
        PROVE  Promise!Next \/ UNCHANGED Promise!vars
    BY <2>5, WithdrawStep DEF Promise!Next
  <2>6. ASSUME NEW b \in Bookings, AcceptPlace(b)
        PROVE  Promise!Next
    BY <2>6, AcceptStep DEF Promise!Next
  <2>7. ASSUME NEW b \in Bookings, RejectPlace(b)
        PROVE  Promise!Next
    BY <2>7, ReleaseSteps DEF RejectPlace, Promise!Next
  <2>8. ASSUME NEW a \in Accounts, BookNow(a)
        PROVE  Promise!Next
    <3>1. Basket(a) \in SUBSET Bookings
      BY DEF Basket
    <3>. QED
      BY <2>8, <3>1, BookNowStep DEF Promise!Next
  <2>. QED
    BY <1>1, <2>2, <2>3, <2>4, <2>5, <2>6, <2>7, <2>8 DEF HolderStep
<1>2. CASE AllocateStep
  BY <1>2, AwardStep DEF AllocateStep, Promise!Next
<1>3. CASE ExpireBookings
  <2>1. Overdue \in SUBSET Bookings /\ \A b \in Overdue : BookedButWillExpire(b)
    BY DEF Overdue, ExpiryDue, BookedButWillExpire
  <2>. QED
    BY <1>3, <2>1, ReleaseSteps DEF ExpireBookings, Promise!Next
<1>4. CASE ClockStep
  <2>1. UNCHANGED detail
    BY <1>4 DEF ClockStep, DeadlinePasses, OpenForBooking, CloseInitialPeriod, rowVars
  <2>2. UNCHANGED Standing
    BY <1>4 DEF ClockStep, DeadlinePasses, OpenForBooking, CloseInitialPeriod, rowVars, entryVars,
         Standing, PromiseInv, TypeOK
  <2>. QED
    BY <2>1, <2>2 DEF Promise!vars
<1>5. CASE UNCHANGED vars
  BY <1>5 DEF vars, rowVars, entryVars, Standing, Promise!vars
<1>. QED
  BY <1>1, <1>2, <1>3, <1>4, <1>5 DEF QueueNext

\* The queue keeps its promise to the holders of accounts: entries, shelves,
\* waiting lists, deadlines and mails implement module CampPlaces.
THEOREM QueueKeepsPromise == QueueSpec => PromiseKept
  BY InitPromise, NextPromiseInv, StepKeepsPromise, PTL
     DEF QueueSpec, PromiseKept, Promise!Spec

=============================================================================
