---------------------------- MODULE QueueRanking ----------------------------
(***************************************************************************)
(* In which order the bookings of a camp wait for a place, and what becomes *)
(* of that order while campers come and go, places are given on several     *)
(* camps, and leaders mark the bookings of their officers' children.        *)
(*                                                                         *)
(* BookingQueue leaves the ranking open, and QueueCutoffs takes any; here   *)
(* it is worked out, and allocation follows it.                            *)
(***************************************************************************)
EXTENDS Places

CONSTANTS
    Bookings,       \* of one year
    CamperOf,       \* fuzzy_camper_id_strict: the same child, by the same account
    FamilyOf,       \* sibling_fuzzy_id: the same surname and account
    CampOf, SexOf,
    Tiebreaker,     \* the lottery number of each booking
    Pasts,          \* what earlier years may say of the camper: [attended, waited]
    MaxPlaces,      \* the limits of each camp
    MaxEdits        \* bound: edits by staff

Camps == {CampOf[b] : b \in Bookings}

ASSUME QueueRankingAssumption ==
    /\ IsFiniteSet(Bookings) /\ MaxEdits \in Nat
    /\ SexOf \in [Bookings -> Sexes]
    /\ Tiebreaker \in [Bookings -> Nat]
    /\ \A b, c \in Bookings : b # c => Tiebreaker[b] # Tiebreaker[c]
    /\ \A past \in Pasts : past \in [Bookings -> [attended : Nat, waited : BOOLEAN]]
    /\ MaxPlaces \in [Camps -> PlacesType]

VARIABLES
    past,           \* the rows of earlier years
    state,          \* columns of Booking
    entry,          \* is there a queue entry, and is it active?
    early,          \* enqueued_at: the entries of the initial period,
    sooner,         \* and for each entry after it, those that it comes after
    officerChild, firstTimer,   \* columns of the queue entry
    period,         \* of the year: is the initial one over?
    edits           \* edits by staff so far

queue == <<entry, early, sooner>>
marks == <<officerChild, firstTimer>>
vars == <<past, state, queue, marks, period, edits>>

Entered == {b \in Bookings : entry[b] # "none"}
Late == Entered \ early

\* enqueued_at orders the entries that came late.
LateInOrder ==
    /\ sooner \in [Bookings -> SUBSET Late]
    /\ \A b \in Bookings \ Late : sooner[b] = {}
    /\ \A b \in Late : b \notin sooner[b] /\ \A c \in sooner[b] : sooner[c] \subseteq sooner[b]
    /\ \A b, c \in Late : b = c \/ b \in sooner[c] \/ c \in sooner[b]

TypeOK ==
    /\ past \in Pasts
    /\ state \in [Bookings -> {"info_complete", "booked", "cancelled"}]
    /\ entry \in [Bookings -> {"none", "active", "inactive"}]
    /\ early \subseteq Entered
    /\ LateInOrder
    /\ officerChild \subseteq Entered /\ firstTimer \subseteq Entered
    /\ period \in {"initial", "over"}
    /\ edits \in 0..MaxEdits

Init ==
    /\ past \in Pasts
    /\ state = [b \in Bookings |-> "info_complete"]
    /\ entry = [b \in Bookings |-> "none"]
    /\ early = {} /\ sooner = [b \in Bookings |-> {}]
    /\ officerChild = {} /\ firstTimer = {}
    /\ period = "initial"
    /\ edits = 0

-----------------------------------------------------------------------------
(* The ranking.                                                            *)

OnCamp(c) == {b \in Bookings : CampOf[b] = c}
Booked == {b \in Bookings : state[b] = "booked"}
Waiting(c) == {b \in OnCamp(c) : entry[b] = "active" /\ state[b] = "info_complete"}

\* get_queue_position_ranks: everybody of the initial period is first.
QueuePosition(b) ==
    IF b \in early THEN 1 ELSE 2 + Cardinality(sooner[b] \cap Waiting(CampOf[b]))

\* find_siblings: whoever has an active entry.
Siblings(b) ==
    {c \in OnCamp(CampOf[b]) \ {b} : FamilyOf[c] = FamilyOf[b] /\ entry[c] = "active"}

HasClaim(b) ==
    b \in officerChild \cup firstTimer \/ past[b].attended > 0 \/ past[b].waited

\* (A change of HighProbability: all entries that are not waiting any more.)
HighProbabilityByEntry(c) ==
    {b \in OnCamp(c) : entry[b] = "active" /\ (state[b] # "info_complete" \/ HasClaim(b))}

\* Who is likely to be on the camp? (get_sibling_bonus_scores)
HighProbability(c) == (Booked \cap OnCamp(c)) \cup {b \in Waiting(c) : HasClaim(b)}

\* (A change of CountedSiblings: booking__camp=camp is forgotten.)
CountedOnAnyCamp(b) ==
    {c \in Bookings \ {b} : /\ FamilyOf[c] = FamilyOf[b] /\ entry[c] = "active"
                           /\ c \in HighProbability(CampOf[c])}

CountedSiblings(b) == HighProbability(CampOf[b]) \cap Siblings(b)

\* (A change of OtherPlaceBooked: looked for in the queues.)
OtherPlaceInQueue(b) ==
    \E c \in Booked \ OnCamp(CampOf[b]) : CamperOf[c] = CamperOf[b] /\ entry[c] = "active"

\* get_other_places_booked
OtherPlaceBooked(b) == \E c \in Booked \ OnCamp(CampOf[b]) : CamperOf[c] = CamperOf[b]

\* False comes first, as 0 does in the code.
ZeroIf(p) == IF p THEN 0 ELSE 1

\* ranking_key; the smallest is the best.
RankingKey(b) ==
    << ZeroIf(b \in officerChild),
       ZeroIf(b \in firstTimer),
       ZeroIf(~OtherPlaceBooked(b)),
       QueuePosition(b),
       -past[b].attended,
       ZeroIf(past[b].waited),
       -Cardinality(CountedSiblings(b)),
       Tiebreaker[b] >>

\* (A change of Smaller: each part counts by itself.)
SmallerInAnyPart(k, l) == \E i \in DOMAIN k : k[i] < l[i]

\* Tuples are compared from the left.
Smaller(k, l) ==
    \E i \in DOMAIN k : k[i] < l[i] /\ \A j \in 1..(i - 1) : k[j] = l[j]

Before(b, c) == Smaller(RankingKey(b), RankingKey(c))

LeftOn(c) == PlacesLeft(MaxPlaces[c], PlacesBooked(Booked \cap OnCamp(c), SexOf))

\* rank_queue_bookings: for each of those who wait, the ones ranked better.
Ranking(c) ==
    LET key == [b \in Waiting(c) |-> RankingKey(b)]
    IN [b \in Waiting(c) |-> {a \in Waiting(c) : Smaller(key[a], key[b])}]

-----------------------------------------------------------------------------
(* The account holder.                                                     *)

\* (A change of Enqueue: the old place is kept too.)
EnqueueTwice(b) ==
    IF period = "initial"
    THEN early' = early \cup {b} /\ UNCHANGED sooner
    ELSE early' = early \ {b} /\ sooner' = [sooner EXCEPT ![b] = Late \ {b}]

\* enqueued_at of b comes after those of S, and before the others.
ComesAfter(b, S) ==
    /\ early' = early \ {b}
    /\ sooner' = [c \in Bookings |-> IF c = b THEN S
                                   ELSE IF c \in Late \ S THEN sooner[c] \cup {b}
                                   ELSE sooner[c] \ {b}]

\* enqueued_at of b is in the initial period.
ComesEarly(b) ==
    /\ early' = early \cup {b}
    /\ sooner' = [c \in Bookings |-> IF c = b THEN {} ELSE sooner[c] \ {b}]

\* enqueued_at becomes the present.
Enqueue(b) == IF period = "initial" THEN ComesEarly(b) ELSE ComesAfter(b, Late \ {b})

\* (A change of Join: enqueued_at is set by its default only, when a row is made.)
JoinAsBefore(b) ==
    /\ state[b] = "info_complete" /\ entry[b] # "active"
    /\ entry' = [entry EXCEPT ![b] = "active"]
    /\ IF entry[b] = "none" THEN Enqueue(b) ELSE UNCHANGED <<early, sooner>>
    /\ UNCHANGED <<past, state, marks, period, edits>>

\* create_for_booking, make_active: marks stay, the time is the present.
Join(b) ==
    /\ state[b] = "info_complete" /\ entry[b] # "active"
    /\ entry' = [entry EXCEPT ![b] = "active"]
    /\ Enqueue(b)
    /\ UNCHANGED <<past, state, marks, period, edits>>

\* From a page that may be old: the place may have been given by now.
Withdraw(b) ==
    /\ entry[b] = "active" /\ state[b] # "cancelled"
    /\ entry' = [entry EXCEPT ![b] = "inactive"]
    /\ UNCHANGED <<past, state, early, sooner, marks, period, edits>>

\* cancel_expiring_place, by the holder or the job. Deadlines are in BookingQueue.
Release(b) ==
    /\ state[b] = "booked"
    /\ state' = [state EXCEPT ![b] = "cancelled"]
    /\ entry' = [entry EXCEPT ![b] = IF @ = "active" THEN "inactive" ELSE @]
    /\ UNCHANGED <<past, early, sooner, marks, period, edits>>

-----------------------------------------------------------------------------
(* Staff.                                                                  *)

\* The ranking is worked out in the request that allocates.
Allocate(c) ==
    /\ period = "over"
    /\ \E A \in SUBSET Waiting(c) :
        /\ AcceptedInTurn(Ranking(c), A, SexOf, LeftOn(c))
        /\ state' = [b \in Bookings |-> IF b \in A THEN "booked" ELSE state[b]]
    /\ UNCHANGED <<past, queue, marks, period, edits>>

\* UpdateQueueEntryForm, for a booking that waits.
Mark(b, child, first) ==
    /\ b \in Waiting(CampOf[b])
    /\ first => past[b].attended = 0
    /\ officerChild' = IF child THEN officerChild \cup {b} ELSE officerChild \ {b}
    /\ firstTimer' = IF first THEN firstTimer \cup {b} ELSE firstTimer \ {b}
    /\ marks' # marks
    /\ UNCHANGED <<past, state, queue, period>>

\* make_change_state_action, and the admin form: the entry is left alone.
AdminChangeState(b, st) ==
    /\ state[b] # st
    /\ state' = [state EXCEPT ![b] = st]
    /\ UNCHANGED <<past, queue, marks, period>>

\* QueueStateInline: "is active", and "enqueued at".
AdminQueueState(b, active) ==
    /\ entry[b] # "none"
    /\ entry' = [entry EXCEPT ![b] = IF active THEN "active" ELSE "inactive"]
    /\ \/ ComesEarly(b)
       \/ /\ period = "over"
          /\ \E S \in SUBSET (Late \ {b}) :
                (\A c \in S : sooner[c] \ {b} \subseteq S) /\ ComesAfter(b, S)
    /\ queue' # queue
    /\ UNCHANGED <<past, state, marks, period>>

CloseInitialPeriod ==
    /\ period = "initial"
    /\ period' = "over"
    /\ UNCHANGED <<past, state, queue, marks, edits>>

-----------------------------------------------------------------------------

Edit ==
    \E b \in Bookings :
        \/ \E child, first \in BOOLEAN : Mark(b, child, first)
        \/ \E st \in {"info_complete", "booked", "cancelled"} : AdminChangeState(b, st)
        \/ \E active \in BOOLEAN : AdminQueueState(b, active)

Next ==
    \/ \E b \in Bookings : Join(b) \/ Withdraw(b) \/ Release(b)
    \/ \E c \in Camps : Allocate(c)
    \/ CloseInitialPeriod
    \/ edits < MaxEdits /\ edits' = edits + 1 /\ Edit

Spec == Init /\ [][Next]_vars

-----------------------------------------------------------------------------
(* Properties.                                                             *)

PlaceElsewhere(b) ==
    \E c \in Bookings : CamperOf[c] = CamperOf[b] /\ CampOf[c] # CampOf[b] /\ state[c] = "booked"

SameStanding(b, c) ==
    /\ b \in officerChild <=> c \in officerChild
    /\ b \in firstTimer <=> c \in firstTimer
    /\ PlaceElsewhere(b) <=> PlaceElsewhere(c)

\* "If a camper is given a place on one camp, any other applications for the same
\* camper to another camp" come behind those of campers who have no place, unless
\* staff marked them: nobody is given a second place while somebody of the same
\* sex waits in vain for a first one, in whatever order the camps are allocated
\* (get_other_places_booked).
FirstPlaceFirst ==
    [][state' # state /\ edits' = edits =>
        \A c \in Camps : \A b, d \in Waiting(c) :
            /\ state'[b] = "booked" /\ state'[d] # "booked"
            /\ PlaceElsewhere(b) /\ ~PlaceElsewhere(d) /\ SexOf[b] = SexOf[d]
            => b \in (officerChild \cup firstTimer)]_vars

\* Whoever joins after the initial period, for the first time or again, comes
\* behind everybody of the same standing who was waiting by then (make_active).
LateJoinsBelow ==
    [][period = "over" /\ edits' = edits =>
        \A b \in Bookings : entry[b] # "active" /\ entry'[b] = "active" =>
            \A d \in Waiting(CampOf[b]) : SameStanding(b, d) => Before(d, b)']_vars

Concerns(z, b) ==
    \/ z = b
    \/ FamilyOf[z] = FamilyOf[b] /\ CampOf[z] = CampOf[b]
    \/ CamperOf[z] = CamperOf[b]

Touched(z) ==
    \/ <<state[z], entry[z]>>' # <<state[z], entry[z]>>
    \/ (z \in officerChild)' # (z \in officerChild)
    \/ (z \in firstTimer)' # (z \in firstTimer)

\* Who comes first of two who wait is changed by what happens to them, to their
\* siblings on the camp and to their other places, or by staff, and by nobody
\* else: strangers may come and go, be given places and lose them
\* (add_rank_info).
OrderKept ==
    [][edits' = edits \/ queue' = queue =>
        LET touched == {z \in Bookings : Touched(z)}
        IN \A c \in Camps : \A b, d \in Waiting(c) \cap Waiting(c)' :
            b # d /\ (\A z \in touched : ~Concerns(z, b) /\ ~Concerns(z, d))
            => (Before(b, d)' <=> Before(b, d))]_vars

\* A sibling in the queue counts once it has a place on the camp, and from then on, or
\* while it waits with a claim, until the place is given up or taken back: allocation,
\* which moves it from the one to the other, loses nobody, and a place that staff have
\* cancelled counts for nothing, although its entry is active still
\* (get_sibling_bonus_scores).
SiblingsCountOn ==
    [][edits' = edits =>
        \A c \in Camps : \A b \in Waiting(c) \cap Waiting(c)' :
            \A s \in Siblings(b) \cap Siblings(b)' :
                s \in CountedSiblings(b)' <=>
                    \/ state'[s] = "booked"
                    \/ s \in CountedSiblings(b) /\ state'[s] # "cancelled"]_vars

\* For those who wait there is one allocation, neither none nor two: the key leaves no two
\* of them even, and what the loop accepts in its order fits in the places, and passes over
\* nobody for whom there is one, as BookingQueue expects of every allocation
\* (rank_queue_bookings, add_queue_cutoffs).
AllocationDecided ==
    \A c \in Camps :
        LET ranking == Ranking(c)
            left == LeftOn(c)
            W == Waiting(c)
        IN \E A \in SUBSET W :
            /\ AcceptedInTurn(ranking, A, SexOf, left)
            /\ \A B \in SUBSET W : AcceptedInTurn(ranking, B, SexOf, left) => B = A
            /\ IsCutoff(W, A, SexOf, left)

-----------------------------------------------------------------------------
(* What pages and comments say of the ranking, and the code does not do.    *)

\* "any other applications for the same camper to another camp will be treated as
\* lowest priority" (booking_process_info.html).
LowestPriority ==
    \A c \in Camps : \A b, d \in Waiting(c) :
        PlaceElsewhere(b) /\ ~PlaceElsewhere(d) => Before(d, b)

\* "Number of siblings who are likely to be on camp" (booking_queue.html): a second
\* booking for the same child is no sibling. The basket warns of it, no more.
SiblingsAreOthers ==
    \A b \in Bookings : \A s \in CountedSiblings(b) : CamperOf[s] # CamperOf[b]

\* "Any bookings made after this point will be added below the original group"
\* (booking_process_info.html).
OriginalGroupFirst ==
    \A c \in Camps : \A b, d \in Waiting(c) : b \in early /\ d \notin early => Before(b, d)

=============================================================================
