---------------------------- MODULE BookingQueue ----------------------------
(***************************************************************************)
(* The life of a booking (cciw.bookings): an account holder types in the   *)
(* details of a camper, keeps the place in a basket or on a shelf, applies *)
(* for it, and waits in the queue of the camp. The booking secretary       *)
(* allocates the places that are left. A place that went to somebody who   *)
(* was on the waiting list carries a deadline, and is lost unless it is    *)
(* accepted.                                                               *)
(*                                                                         *)
(* Each action is one whole request, or one run of a job. What happens     *)
(* when requests interleave inside their handlers is not in this module.   *)
(***************************************************************************)
EXTENDS Places

CONSTANTS
    Bookings,       \* possible rows of the Booking table
    Accounts,       \* BookingAccount rows
    Camps,          \* the camps of this year
    AccountOf,      \* Booking.account
    HasEmail,       \* the accounts with an email address
    MaxPlacesOf,    \* Camp.max_places at the start of the year
    LimitChoices,   \* bound: the limits that staff set on a camp later on
    DetailChoices,  \* bound: the [camp, sex] that a form may be filled in with
    AdminStates,    \* bound: the states that staff choose in the admin
    MaxDeclined,    \* bound: DECLINED rows in the log of one entry
    CronScheduled   \* whether the expire_bookings job is in the crontab

BookingState == {"info_complete", "booked",
                 "cancelled_deposit_kept", "cancelled_booking_fee_kept",
                 "cancelled_half_refund", "cancelled_full_refund"}

CancelledBookingStates == BookingState \ {"info_complete", "booked"}

\* States that the admin form accepts for a camp of this year.
CurrentBookingStates == BookingState \ {"cancelled_deposit_kept"}

Details == [camp : Camps, sex : Sexes]

ASSUME BookingQueueAssumption ==
    /\ IsFiniteSet(Bookings)                    \* rows of a table
    /\ AccountOf \in [Bookings -> Accounts]     \* the column is not null
    /\ HasEmail \subseteq Accounts              \* paper bookers may have none
    /\ MaxPlacesOf \in [Camps -> PlacesType]    \* PositiveSmallIntegerFields
    /\ LimitChoices \subseteq PlacesType
    /\ DetailChoices \subseteq Details
    /\ DetailChoices # {}
    /\ AdminStates \subseteq BookingState
    /\ MaxDeclined \in Nat
    /\ CronScheduled \in BOOLEAN

VARIABLES
    state,        \* Booking.state, "absent" where there is no row
    detail,       \* Booking.camp and Booking.sex
    shelved,      \* Booking.shelved
    expires,      \* Booking.booking_expires_at, relative to the clock
    entry,        \* BookingQueueEntry: no row, is_active or not
    waitingList,  \* BookingQueueEntry.waiting_list_from_start
    declined,     \* BookingQueueEntry.declined_notification_sent_at is set
    declinedLogs, \* number of DECLINED rows in the action log of the entry
    told,         \* mails sent about the booking since it last joined the queue
    maxPlaces,    \* Camp.max_places
    phase         \* where today is, relative to the dates of the YearConfig

rowVars   == <<state, detail, shelved, expires>>
entryVars == <<entry, waitingList, declined, declinedLogs>>
calendar  == <<maxPlaces, phase>>
vars      == <<rowVars, entryVars, told, calendar>>

\* booking_expires_at is compared with the clock only: it is empty, still in
\* the future, or in the past.
Expiry == {"none", "pending", "due"}

Entry == {"none", "active", "inactive"}

\* The mails that say how an application went: "please accept, or it
\* expires", and "your place is confirmed".
Mail == {"offer", "confirmed"}

\* The YearConfig dates divide the year: details can be entered, places can
\* be applied for, and the initial booking period is over.
Phase == {"entry", "booking", "after_initial"}

NoDetail == CHOOSE d \in DetailChoices : TRUE

-----------------------------------------------------------------------------
\* The query sets of BookingQuerySet, as predicates on a booking.

Exists(b) == state[b] # "absent"
InBasket(b) == state[b] = "info_complete" /\ ~shelved[b]
OnShelf(b) == state[b] = "info_complete" /\ shelved[b]
Booked(b) == state[b] = "booked"
NotInQueue(b) == entry[b] # "active"
InQueue(b) == entry[b] = "active" /\ state[b] \notin CancelledBookingStates
WaitingInQueue(b) == InQueue(b) /\ state[b] = "info_complete"
BookedButWillExpire(b) == Booked(b) /\ expires[b] # "none"

ExpiryDue(b) == Booked(b) /\ expires[b] = "due"

CampOf(b) == detail[b].camp
SexOf == [b \in Bookings |-> detail[b].sex]
BookedOn(c) == {b \in Bookings : Booked(b) /\ CampOf(b) = c}
WaitingFor(c) == {b \in Bookings : WaitingInQueue(b) /\ CampOf(b) = c}

\* Places on offer counted as free, as if their holders had declined.
LeftIgnoringOffers(c) ==
    PlacesLeft(maxPlaces[c], PlacesBooked({b \in BookedOn(c) : expires[b] = "none"}, SexOf))

\* Camp.get_places_left
LeftOn(c) == PlacesLeft(maxPlaces[c], PlacesBooked(BookedOn(c), SexOf))

PlacesAvailableFor(b) == PlacesAvailable(LeftOn(CampOf(b)), SexOf[b])

\* The basket page with the waiting bookings left in.
ListedWithQueue(b) == Exists(b) /\ (InBasket(b) \/ OnShelf(b))

\* The rows the basket page shows to an account.
Listed(b) == Exists(b) /\ NotInQueue(b) /\ (InBasket(b) \/ OnShelf(b))
Basket(a) == {b \in Bookings : AccountOf[b] = a /\ NotInQueue(b) /\ InBasket(b)}

\* BookingQueueEntry.waiting_list_mode
WaitingListMode(b) == declined[b] \/ waitingList[b]

\* Only those on the waiting list from the start are spared the mail.
OnlyWaitingListSpared(b) == ~waitingList[b]

WillSendDeclined(b) == ~WaitingListMode(b) /\ ~declined[b]

-----------------------------------------------------------------------------
Init ==
    /\ state = [b \in Bookings |-> "absent"]
    /\ detail = [b \in Bookings |-> NoDetail]
    /\ shelved = [b \in Bookings |-> FALSE]
    /\ expires = [b \in Bookings |-> "none"]
    /\ entry = [b \in Bookings |-> "none"]
    /\ waitingList = [b \in Bookings |-> FALSE]
    /\ declined = [b \in Bookings |-> FALSE]
    /\ declinedLogs = [b \in Bookings |-> 0]
    /\ told = [b \in Bookings |-> {}]
    /\ maxPlaces = MaxPlacesOf
    /\ phase = "entry"

-----------------------------------------------------------------------------
(* Requests of the account holder. *)

AddPlace(b, d) ==
    /\ state[b] = "absent"
    /\ state' = [state EXCEPT ![b] = "info_complete"]
    /\ detail' = [detail EXCEPT ![b] = d]
    /\ UNCHANGED <<shelved, expires, entryVars, told, calendar>>

\* Without the check of is_user_editable.
EditAnyPlace(b, d) ==
    /\ Exists(b)
    /\ detail' = [detail EXCEPT ![b] = d]
    /\ UNCHANGED <<state, shelved, expires, entryVars, told, calendar>>

\* Editing asks for the state only: the place may be waiting in the queue.
EditPlace(b, d) ==
    /\ state[b] = "info_complete"
    /\ detail' = [detail EXCEPT ![b] = d]
    /\ UNCHANGED <<state, shelved, expires, entryVars, told, calendar>>

MoveToShelf(b) ==
    /\ Listed(b)
    /\ shelved' = [shelved EXCEPT ![b] = TRUE]
    /\ UNCHANGED <<state, detail, expires, entryVars, told, calendar>>

MoveToBasket(b) ==
    /\ Listed(b)
    /\ shelved' = [shelved EXCEPT ![b] = FALSE]
    /\ UNCHANGED <<state, detail, expires, entryVars, told, calendar>>

\* The row goes, its queue entry and the entry's log with it.
RemoveRow(b) ==
    /\ state' = [state EXCEPT ![b] = "absent"]
    /\ detail' = [detail EXCEPT ![b] = NoDetail]
    /\ shelved' = [shelved EXCEPT ![b] = FALSE]
    /\ expires' = [expires EXCEPT ![b] = "none"]
    /\ entry' = [entry EXCEPT ![b] = "none"]
    /\ waitingList' = [waitingList EXCEPT ![b] = FALSE]
    /\ declined' = [declined EXCEPT ![b] = FALSE]
    /\ declinedLogs' = [declinedLogs EXCEPT ![b] = 0]
    /\ told' = [told EXCEPT ![b] = {}]
    /\ UNCHANGED calendar

DeletePlace(b) == Listed(b) /\ RemoveRow(b)

\* "Apply now" for the whole basket, when nothing in it has a blocker and the
\* page was up to date (otherwise the request changes nothing). An entry
\* that is made, or made active again, goes on the waiting list when there
\* is no place for it; one that was on the waiting list before stays on it.
BookNow(a) ==
    /\ phase \in {"booking", "after_initial"}
    /\ Basket(a) # {}
    /\ entry' = [b \in Bookings |-> IF b \in Basket(a) THEN "active" ELSE entry[b]]
    /\ waitingList' = [b \in Bookings |->
                         waitingList[b] \/ (b \in Basket(a) /\ ~PlacesAvailableFor(b))]
    /\ told' = [b \in Bookings |-> IF b \in Basket(a) THEN {} ELSE told[b]]
    /\ UNCHANGED <<rowVars, declined, declinedLogs, calendar>>

\* The button is on a page that was drawn while the booking was waiting; the
\* request is not checked again, and may arrive when it no longer is.
Withdraw(b) ==
    /\ entry[b] # "none"
    /\ entry' = [entry EXCEPT ![b] = "inactive"]
    /\ shelved' = [shelved EXCEPT ![b] = TRUE]
    /\ UNCHANGED <<state, detail, expires, waitingList, declined, declinedLogs, told, calendar>>

AcceptPlace(b) ==
    /\ BookedButWillExpire(b)
    /\ expires' = [expires EXCEPT ![b] = "none"]
    /\ UNCHANGED <<state, detail, shelved, entryVars, told, calendar>>

\* The deadline left on the cancelled booking.
CancelKeepingDeadline(S) ==
    /\ state' = [b \in Bookings |-> IF b \in S THEN "cancelled_full_refund" ELSE state[b]]
    /\ shelved' = [b \in Bookings |-> shelved[b] \/ b \in S]
    /\ entry' = [b \in Bookings |-> IF b \in S /\ entry[b] = "active" THEN "inactive" ELSE entry[b]]
    /\ UNCHANGED <<detail, expires, waitingList, declined, declinedLogs, told, calendar>>

\* A state that is not one of the choices of the column.
CancelToOldState(S) ==
    /\ expires' = [b \in Bookings |-> IF b \in S THEN "none" ELSE expires[b]]
    /\ state' = [b \in Bookings |-> IF b \in S THEN "cancelled" ELSE state[b]]
    /\ shelved' = [b \in Bookings |-> shelved[b] \/ b \in S]
    /\ entry' = [b \in Bookings |-> IF b \in S /\ entry[b] = "active" THEN "inactive" ELSE entry[b]]
    /\ UNCHANGED <<detail, waitingList, declined, declinedLogs, told, calendar>>

\* cancel_expiring_place, for each booking of S: the place is given up, the
\* booking goes to the shelf and leaves the queue.
CancelExpiringPlaces(S) ==
    /\ expires' = [b \in Bookings |-> IF b \in S THEN "none" ELSE expires[b]]
    /\ state' = [b \in Bookings |-> IF b \in S THEN "cancelled_full_refund" ELSE state[b]]
    /\ shelved' = [b \in Bookings |-> shelved[b] \/ b \in S]
    /\ entry' = [b \in Bookings |-> IF b \in S /\ entry[b] = "active" THEN "inactive" ELSE entry[b]]
    /\ UNCHANGED <<detail, waitingList, declined, declinedLogs, told, calendar>>

\* Without the check that the place is on offer: an old link is followed.
RejectAnyPlace(b) == Booked(b) /\ CancelExpiringPlaces({b})

RejectPlace(b) == BookedButWillExpire(b) /\ CancelExpiringPlaces({b})

-----------------------------------------------------------------------------
(* The expire_bookings job, and the clock. *)

Overdue == {b \in Bookings : ExpiryDue(b)}

ExpireBookings ==
    /\ CronScheduled
    /\ Overdue # {}
    /\ CancelExpiringPlaces(Overdue)

\* BOOKING_EXPIRES_FOR_UNCONFIRMED_BOOKING_AFTER has gone by.
DeadlinePasses(b) ==
    /\ expires[b] = "pending"
    /\ expires' = [expires EXCEPT ![b] = "due"]
    /\ UNCHANGED <<state, detail, shelved, entryVars, told, calendar>>

OpenForBooking ==
    /\ phase = "entry"
    /\ phase' = "booking"
    /\ UNCHANGED <<rowVars, entryVars, told, maxPlaces>>

CloseInitialPeriod ==
    /\ phase = "booking"
    /\ phase' = "after_initial"
    /\ UNCHANGED <<rowVars, entryVars, told, maxPlaces>>

-----------------------------------------------------------------------------
(* The booking secretary's "allocate" button (allocate_places_and_notify). *)

HasEmailFor(b) == AccountOf[b] \in HasEmail

\* One mail for each account: no refusal to whoever got another place.
DeclineUnlessSiblingBooked(W, A) ==
    {b \in W \ A : WillSendDeclined(b) /\ \A x \in A : AccountOf[x] # AccountOf[b]}

\* Bookings of W that are passed over when A is booked, and are to be told.
ToDecline(W, A) == {b \in W \ A : WillSendDeclined(b)}

\* One mail for each account: the confirmation hides the offers.
OneMailPerAccount(b, A, willExpire) ==
    IF \E x \in A \ willExpire : AccountOf[x] = AccountOf[b] THEN {"confirmed"} ELSE {"offer"}

\* send_places_allocated_emails: each place with a deadline gets a mail of
\* its own; if the account has any other place in the batch, a mail that
\* confirms places is sent too, and lists all its places in the batch.
MailsFor(b, A, willExpire) ==
    {m \in Mail :
        \/ m = "offer" /\ b \in willExpire
        \/ m = "confirmed" /\ \E x \in A \ willExpire : AccountOf[x] = AccountOf[b]}

\* A pass over the ranked queue of camp c, in which the bookings of A come
\* before the cutoffs. The ranking is any order of the waiting bookings.
AllocatePlaces(c, A) ==
    LET W == WaitingFor(c)
        onWaitingList == {b \in A : WaitingListMode(b)}
        willExpire == {b \in A : b \in onWaitingList \/ expires[b] # "none"}
        D == ToDecline(W, A)
    IN
    /\ phase = "after_initial"
    /\ IsCutoff(W, A, SexOf, LeftOn(c))
    /\ \A b \in D : declinedLogs[b] < MaxDeclined
    /\ state' = [b \in Bookings |-> IF b \in A THEN "booked" ELSE state[b]]
    /\ expires' = [b \in Bookings |-> IF b \in onWaitingList THEN "pending" ELSE expires[b]]
    /\ told' = [b \in Bookings |->
                  IF b \in A /\ HasEmailFor(b)
                  THEN told[b] \cup MailsFor(b, A, willExpire) ELSE told[b]]
    /\ declinedLogs' = [b \in Bookings |->
                          IF b \in D THEN declinedLogs[b] + 1 ELSE declinedLogs[b]]
    /\ declined' = [b \in Bookings |-> declined[b] \/ (b \in D /\ HasEmailFor(b))]
    /\ UNCHANGED <<detail, shelved, entry, waitingList, calendar>>

-----------------------------------------------------------------------------
(* Staff, in the admin. *)

\* The change form, or the add form where there is no row. It writes every
\* field of the page back, whatever the row holds by now. The queue entry
\* can be made active or inactive there, but neither added nor removed.
AdminSave(b, d, st, sh, ex, en) ==
    /\ st \in CurrentBookingStates
    /\ entry[b] = "none" <=> en = "none"
    /\ state' = [state EXCEPT ![b] = st]
    /\ detail' = [detail EXCEPT ![b] = d]
    /\ shelved' = [shelved EXCEPT ![b] = sh]
    /\ expires' = [expires EXCEPT ![b] = ex]
    /\ entry' = [entry EXCEPT ![b] = en]
    /\ told' = IF st = "booked" /\ state[b] # "booked" /\ HasEmailFor(b)
               THEN [told EXCEPT ![b] = @ \cup {"confirmed"}] ELSE told
    /\ UNCHANGED <<waitingList, declined, declinedLogs, calendar>>

\* The "change to ..." action on the list page, for each selected booking.
AdminChangeState(b, st) ==
    /\ Exists(b)
    /\ state[b] # st
    /\ state' = [state EXCEPT ![b] = st]
    /\ UNCHANGED <<detail, shelved, expires, entryVars, told, calendar>>

AdminDelete(b) == Exists(b) /\ RemoveRow(b)

\* The secretary may change the number of places of a camp.
ChangeLimits(c, places) ==
    /\ maxPlaces' = [maxPlaces EXCEPT ![c] = places]
    /\ UNCHANGED <<rowVars, entryVars, told, phase>>

-----------------------------------------------------------------------------
HolderStep ==
    \/ \E b \in Bookings :
        \/ \E d \in DetailChoices : AddPlace(b, d) \/ EditPlace(b, d)
        \/ MoveToShelf(b) \/ MoveToBasket(b) \/ DeletePlace(b)
        \/ Withdraw(b) \/ AcceptPlace(b) \/ RejectPlace(b)
    \/ \E a \in Accounts : BookNow(a)

AllocatesOn(c) == \E A \in SUBSET WaitingFor(c) : AllocatePlaces(c, A)

AllocateStep == \E c \in Camps : AllocatesOn(c)

ClockStep ==
    \/ \E b \in Bookings : DeadlinePasses(b)
    \/ OpenForBooking
    \/ CloseInitialPeriod

AdminStep ==
    \/ \E b \in Bookings :
        \/ \E d \in DetailChoices, st \in AdminStates, sh \in BOOLEAN,
               ex \in Expiry, en \in Entry : AdminSave(b, d, st, sh, ex, en)
        \/ \E st \in AdminStates : AdminChangeState(b, st)
        \/ AdminDelete(b)
    \/ \E c \in Camps, places \in LimitChoices : ChangeLimits(c, places)

\* Everything but staff editing rows by hand.
QueueNext == HolderStep \/ AllocateStep \/ ExpireBookings \/ ClockStep

Next == QueueNext \/ AdminStep

\* The queue left to itself, and the whole system.
QueueSpec == Init /\ [][QueueNext]_vars
Spec == Init /\ [][Next]_vars

\* Deadlines go by, and the job is run again and again if it is scheduled: the
\* template of the crontab has it commented out (CronScheduled). Nobody has to
\* answer an offer, press a button or edit a row.
FairQueueSpec ==
    /\ QueueSpec
    /\ WF_vars(ExpireBookings)
    /\ \A b \in Bookings : WF_vars(DeadlinePasses(b))

-----------------------------------------------------------------------------
(* Invariants. *)

TypeOK ==
    /\ state \in [Bookings -> BookingState \cup {"absent"}]
    /\ detail \in [Bookings -> Details]
    /\ shelved \in [Bookings -> BOOLEAN]
    /\ expires \in [Bookings -> Expiry]
    /\ entry \in [Bookings -> Entry]
    /\ waitingList \in [Bookings -> BOOLEAN]
    /\ declined \in [Bookings -> BOOLEAN]
    /\ declinedLogs \in [Bookings -> 0..MaxDeclined]
    /\ told \in [Bookings -> SUBSET Mail]
    /\ maxPlaces \in [Camps -> PlacesType]
    /\ phase \in Phase

Fits(booked, max) ==
    booked.total <= max.total /\ booked.male <= max.male /\ booked.female <= max.female

\* No camp is overbooked: however allocations, refusals, expiries and edits of
\* waiting places follow one another, the places booked on a camp stay within
\* its total and its limits for boys and for girls.
WithinLimits == \A c \in Camps : Fits(PlacesBooked(BookedOn(c), SexOf), maxPlaces[c])

\* A place carries a deadline only when it is booked, and only when it went to
\* somebody who had been told of the waiting list; everybody else gets the
\* place for good.
DeadlineOnlyFromWaitingList ==
    \A b \in Bookings : expires[b] # "none" => Booked(b) /\ WaitingListMode(b)

\* Whoever can lose a place to the deadline has been sent the mail with the
\* links to accept or refuse it.
DeadlineWasAnnounced ==
    \A b \in Bookings : BookedButWillExpire(b) /\ HasEmailFor(b) => "offer" \in told[b]

\* An account with an email address is sent one "declined" mail per booking,
\* however often the booking leaves the queue and joins it again.
DeclinedOnce == \A b \in Bookings : HasEmailFor(b) => declinedLogs[b] <= 1

(* What a step may not do. *)

\* Whoever has a place without a deadline still has it, on the same camp.
KeepsConfirmed ==
    \A b \in Bookings :
        Booked(b) /\ expires[b] = "none"
        => Booked(b)' /\ expires'[b] = "none" /\ detail'[b] = detail[b]

\* A place without a deadline is the camper's: no request of a holder, no
\* allocation and no job takes it away, moves it or puts a deadline on it.
ConfirmedPlaceKept == [][KeepsConfirmed]_vars

\* Whoever waits keeps waiting, is booked, or is withdrawn.
KeepsQueuePlace ==
    \A b \in Bookings : WaitingInQueue(b) => WaitingInQueue(b)' \/ Booked(b)' \/ Withdraw(b)

\* A waiting booking leaves the queue by being booked or by being withdrawn by
\* its holder: handling the basket page around it never drops it.
QueuePlaceKept == [][KeepsQueuePlace]_vars

\* Each count of an allocated camp is within its limit, or as it was.
AllocatesWithinLimits ==
    \A c \in Camps : AllocatesOn(c)
        => LET before == PlacesBooked(BookedOn(c), SexOf)
               after == PlacesBooked(BookedOn(c), SexOf)'
           IN \A k \in {"total", "male", "female"} :
                after[k] <= maxPlaces[c][k] \/ after[k] = before[k]

\* Also when staff have overbooked a camp by hand, or have lowered its
\* limits: allocation takes no count above its limit, nor further above it.
AllocationKeepsLimits == [][AllocatesWithinLimits]_vars

\* A camper left waiting could not have a place, and knows of the waiting list.
ServesEverybody ==
    \A c \in Camps : AllocatesOn(c)
        => \A b \in Bookings : (WaitingInQueue(b) /\ CampOf(b) = c)'
             => ~PlacesAvailableFor(b)' /\ (WaitingListMode(b)' \/ ~HasEmailFor(b))

\* When an allocation is over, nobody is left waiting for a camp that still
\* has a place for them, and whoever is left waiting has been told so, or had
\* joined the waiting list from the start.
AllocationServesEverybody == [][ServesEverybody]_vars

-----------------------------------------------------------------------------
(* What comments, pages and mails say of the queue, and the code does not do. *)

\* expiring_place_allocated_email.txt: "If you do nothing, the place will expire".
\* That takes the job, which is not scheduled.
OfferResolved == \A b \in Bookings : BookedButWillExpire(b) ~> ~BookedButWillExpire(b)

\* places_confirmed_email.txt: "The following places on a CCiW camp have been
\* confirmed". A place in that list should not be able to expire.
ConfirmedMailIsFinal ==
    \A b \in Bookings : Booked(b) /\ "confirmed" \in told[b] => expires[b] = "none"

\* get_booking_warnings: the places left are compared with all the bookings of
\* the account on that camp that are "in the basket", queued ones included.
SameCampBasket(b) ==
    {x \in Bookings : AccountOf[x] = AccountOf[b] /\ InBasket(x) /\ CampOf(x) = CampOf(b)}
NoPlacesWarning(b) ==
    LET left == LeftOn(CampOf(b)) IN
    \/ ~PlacesAvailable(left, SexOf[b])
    \/ left.total < Cardinality(SameCampBasket(b))
    \/ left[SexOf[b]] < CountSex(SameCampBasket(b), SexOf, SexOf[b])

\* "There are not enough places left on this camp for the campers in this set
\* of bookings. You will be placed on the waiting list if you book now."
WarnedJoinsWaitingList ==
    [][\A b \in Bookings :
         NotInQueue(b) /\ NoPlacesWarning(b) /\ InQueue(b)' => waitingList'[b]]_vars

-----------------------------------------------------------------------------
(* The promise of module CampPlaces. *)

\* What the holder of the account sees of a booking.
Standing ==
    [b \in Bookings |->
        IF state[b] = "absent" THEN "absent"
        ELSE IF state[b] = "info_complete"
        THEN IF entry[b] = "active" THEN "waiting" ELSE "draft"
        ELSE IF state[b] = "booked"
        THEN IF expires[b] = "none" THEN "held" ELSE "offered"
        ELSE "released"]

Promise == INSTANCE CampPlaces WITH place <- Standing, asked <- detail, Limits <- MaxPlacesOf

\* Entries, shelves, waiting lists, deadlines and mails add up to what an
\* account holder expects of an application: it waits, is granted or offered a
\* place while there is room, and a place that was granted is never lost.
PromiseKept == Promise!Spec

=============================================================================
