----------------------------- MODULE CampPlaces -----------------------------
(***************************************************************************)
(* What the queue promises to the holder of an account, with no queue      *)
(* entries, shelves, mails or clocks in it: a place is drafted, waits, and *)
(* is then held for good or offered; an offer is confirmed or released.    *)
(* A place that is held stays held, and a camp never has more places held  *)
(* or on offer than it has room for.                                       *)
(***************************************************************************)
EXTENDS Places

CONSTANTS
    Bookings, Camps,
    Limits,         \* the places of each camp
    DetailChoices   \* bound: the [camp, sex] that a place may be drafted for

VARIABLES
    place,      \* where each booking stands
    asked       \* its camp and sex

vars == <<place, asked>>

Standing == {"absent", "draft", "waiting", "offered", "held", "released"}

Taken(c, p, d) == {b \in Bookings : p[b] \in {"offered", "held"} /\ d[b].camp = c}

HasRoom(c, p, d) ==
    LET booked == PlacesBooked(Taken(c, p, d), [b \in Bookings |-> d[b].sex]) IN
    /\ booked.total <= Limits[c].total
    /\ booked.male <= Limits[c].male
    /\ booked.female <= Limits[c].female

Move(S, to) == place' = [b \in Bookings |-> IF b \in S THEN to ELSE place[b]]

Init ==
    /\ place = [b \in Bookings |-> "absent"]
    /\ asked \in [Bookings -> DetailChoices]

Draft(b, d) ==
    /\ place[b] = "absent"
    /\ Move({b}, "draft")
    /\ asked' = [asked EXCEPT ![b] = d]

Amend(b, d) ==
    /\ place[b] \in {"draft", "waiting"}
    /\ asked' = [asked EXCEPT ![b] = d]
    /\ UNCHANGED place

Discard(b, d) ==
    /\ place[b] = "draft"
    /\ Move({b}, "absent")
    /\ asked' = [asked EXCEPT ![b] = d]

Apply(S) ==
    /\ \A b \in S : place[b] = "draft"
    /\ Move(S, "waiting")
    /\ UNCHANGED asked

Leave(b) ==
    /\ place[b] = "waiting"
    /\ Move({b}, "draft")
    /\ UNCHANGED asked

Award(c, held, offered) ==
    /\ \A b \in held \cup offered : place[b] = "waiting" /\ asked[b].camp = c
    /\ place' = [b \in Bookings |-> IF b \in offered THEN "offered"
                                    ELSE IF b \in held THEN "held" ELSE place[b]]
    /\ HasRoom(c, place', asked)
    /\ UNCHANGED asked

Confirm(b) ==
    /\ place[b] = "offered"
    /\ Move({b}, "held")
    /\ UNCHANGED asked

Release(S) ==
    /\ \A b \in S : place[b] = "offered"
    /\ Move(S, "released")
    /\ UNCHANGED asked

Next ==
    \/ \E b \in Bookings, d \in DetailChoices : Draft(b, d) \/ Amend(b, d) \/ Discard(b, d)
    \/ \E S \in SUBSET Bookings : Apply(S) \/ Release(S)
    \/ \E b \in Bookings : Leave(b) \/ Confirm(b)
    \/ \E c \in Camps, held, offered \in SUBSET Bookings : Award(c, held, offered)

Spec == Init /\ [][Next]_vars
=============================================================================
