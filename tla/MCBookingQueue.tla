--------------------------- MODULE MCBookingQueue ---------------------------
(***************************************************************************)
(* Small instances of BookingQueue for TLC: who has which bookings, and    *)
(* how many places there are.                                              *)
(***************************************************************************)
EXTENDS BookingQueue, TLC

CONSTANTS b1, b2, b3,   \* bookings
          a1, a2,       \* accounts
          c1, c2        \* camps

PlacesOf(total, male, female) == [total |-> total, male |-> male, female |-> female]

\* a1 books for two campers, a2 for one.
Siblings == [b \in Bookings |-> IF b = b3 THEN a2 ELSE a1]

\* Boys and girls on the first camp.
OneCamp == [camp : {c1}, sex : Sexes]

\* Boys only, on two camps.
BoysOnOneCamp == [camp : {c1}, sex : {"male"}]
BoysOnTwoCamps == [camp : {c1, c2}, sex : {"male"}]

\* Boys and girls on the first camp, boys on the second.
TwoCamps == OneCamp \cup BoysOnTwoCamps

\* Room for two of three campers, at most one of them a boy.
TwoPlaces == [c \in Camps |-> PlacesOf(2, 1, 2)]

\* Room for all three, at most one of them a boy.
ThreePlaces == [c \in Camps |-> PlacesOf(3, 1, 2)]

\* Staff change the limits of a camp: the boys' places run out first, then the
\* total, then there is nothing left at all.
StaffLimits == {PlacesOf(2, 1, 2), PlacesOf(1, 2, 2), PlacesOf(0, 0, 0)}

\* Two bookings of the same account are interchangeable.
Alike == Permutations({b1, b2})

=============================================================================
