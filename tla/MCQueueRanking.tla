--------------------------- MODULE MCQueueRanking ---------------------------
(***************************************************************************)
(* Instances of QueueRanking: a child who is booked for two camps, a        *)
(* sibling on the first of them, and a stranger on each.                    *)
(***************************************************************************)
EXTENDS QueueRanking

CONSTANTS anna1, anna2,     \* Anna, on either camp
          ben,              \* her brother, on the first camp
          carl, dora,       \* strangers, on the first camp
          c1, c2

Camper == [b \in Bookings |-> IF b \in {anna1, anna2} THEN "anna" ELSE b]
\* Anna is booked twice for the first camp, the second time by mistake.
Mistaken == [Camper EXCEPT ![dora] = "anna"]
MistakenFamily == [b \in Bookings |-> IF b = carl THEN "c" ELSE "a"]

Family == [b \in Bookings |-> IF b \in {anna1, anna2, ben} THEN "a" ELSE b]
Camp == [b \in Bookings |-> IF b = anna2 THEN c2 ELSE c1]
Sex == [b \in Bookings |-> IF b = ben THEN "male" ELSE "female"]

\* Whoever wrote first in alphabetical order has drawn the best number, or the worst.
Lottery == [b \in Bookings |-> CASE b = anna1 -> 2 [] b = anna2 -> 1 [] b = ben -> 4
                                 [] b = carl -> 3 [] OTHER -> 0]

New == [attended |-> 0, waited |-> FALSE]
Past(veterans, waited) ==
    [b \in Bookings |-> IF b \in veterans THEN [attended |-> 1, waited |-> FALSE]
                        ELSE [attended |-> 0, waited |-> b \in waited]]
\* Ben and Carl are even, but for siblings and luck.
OnePast == {Past({ben, carl}, {anna1, anna2})}

TwoPlaces == [c \in Camps |-> [total |-> 2, male |-> 1, female |-> 1]]

=============================================================================
