------------------------------- MODULE Places -------------------------------
(***************************************************************************)
(* The arithmetic of places on a camp: how many there are, how many are    *)
(* booked, how many are left, and which sets of bookings a pass over the   *)
(* ranked queue may accept.                                                *)
(*                                                                         *)
(* A count of places is a record with a total and one count for each sex;  *)
(* the limit on the total is independent of the two limits by sex.         *)
(***************************************************************************)
EXTENDS Integers, FiniteSets

\* The choices of Sex, named as the fields of a Places record.
Sexes == {"male", "female"}

\* Camp limits and counts.
PlacesType == [total : Nat, male : Nat, female : Nat]

\* The members of S that are of the given sex.
OfSex(S, sexOf, sex) == {b \in S : sexOf[b] = sex}

CountSex(S, sexOf, sex) == Cardinality(OfSex(S, sexOf, sex))

\* Places taken by a set of booked bookings. The code adds up the two sexes.
PlacesBooked(S, sexOf) ==
    [total  |-> CountSex(S, sexOf, "male") + CountSex(S, sexOf, "female"),
     male   |-> CountSex(S, sexOf, "male"),
     female |-> CountSex(S, sexOf, "female")]

\* max(n, 0): an overbooked camp has no places left, never a negative number.
AtLeastZero(n) == IF n > 0 THEN n ELSE 0

PlacesLeft(max, booked) ==
    [total  |-> AtLeastZero(max.total - booked.total),
     male   |-> AtLeastZero(max.male - booked.male),
     female |-> AtLeastZero(max.female - booked.female)]

\* places_are_available_for_booking, for a camper of the given sex.
PlacesAvailable(left, sex) == left.total > 0 /\ left[sex] > 0

\* The pass with the check of the total forgotten.
IsCutoffBySex(W, A, sexOf, left) ==
    /\ A \subseteq W
    /\ \A sex \in Sexes : CountSex(A, sexOf, sex) <= left[sex]
    /\ \A b \in W \ A : CountSex(A, sexOf, sexOf[b]) >= left[sexOf[b]]

\* A is what add_queue_cutoffs accepts from the waiting bookings W under
\* some ranking of W: it fits in the places left, and every booking that was
\* passed over met a limit that was already used up. (QueueCutoffs has the
\* loop itself, one booking at a time.)
IsCutoff(W, A, sexOf, left) ==
    /\ A \subseteq W
    /\ Cardinality(A) <= left.total
    /\ \A sex \in Sexes : CountSex(A, sexOf, sex) <= left[sex]
    /\ \A b \in W \ A : \/ Cardinality(A) >= left.total
                        \/ CountSex(A, sexOf, sexOf[b]) >= left[sexOf[b]]

\* A is what the loop of add_queue_cutoffs accepts under one ranking, if ahead[b] are
\* the bookings ranked better than b: each is accepted if those accepted before it have
\* left a place.
AcceptedInTurn(ahead, A, sexOf, left) ==
    \A b \in DOMAIN ahead :
        LET before == A \cap ahead[b]
        IN b \in A <=> /\ Cardinality(before) < left.total
                       /\ CountSex(before, sexOf, sexOf[b]) < left[sexOf[b]]

=============================================================================
