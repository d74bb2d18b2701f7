---------------------------- MODULE QueueCutoffs ----------------------------
(***************************************************************************)
(* add_queue_cutoffs (cciw/bookings/models/queue.py): one pass over the    *)
(* ranked queue of a camp that marks each booking as accepted, or as       *)
(* passed over because the total, or the places for that sex, ran out.     *)
(*                                                                         *)
(* A behaviour is one run of the loop over one ranking. Its outcome is     *)
(* what module BookingQueue takes as given (Places!IsCutoff).              *)
(***************************************************************************)
EXTENDS Places, Sequences, SequencesExt

CONSTANTS
    Queued,     \* the bookings that may wait in the queue of the camp
    MaxPlaces   \* bound: the largest number of places left that is tried

ASSUME QueueAssumption ==
    /\ IsFiniteSet(Queued)       \* rows of a table
    /\ MaxPlaces \in Nat

VARIABLES
    ranked,     \* ranked_queue_bookings: every waiting booking, best first
    sex,        \* booking.sex
    left,       \* places_left, read before the loop
    next,       \* the position in ranked the loop has reached
    cutoff      \* booking.rank_info.cutoff_state

vars == <<ranked, sex, left, next, cutoff>>

CutoffStates == {"undecided", "accepted",
                 "after_total_cutoff", "after_male_cutoff", "after_female_cutoff"}

\* The bookings of ranked that the loop has marked as accepted.
Accepted == {b \in Queued : cutoff[b] = "accepted"}

CutoffOfSex(s) == IF s = "male" THEN "after_male_cutoff" ELSE "after_female_cutoff"

\* "More than the limit": one booking too many for each sex.
JudgeOffByOne(b) ==
    IF Cardinality(Accepted) >= left.total
    THEN "after_total_cutoff"
    ELSE IF CountSex(Accepted, sex, sex[b]) > left[sex[b]]
    THEN CutoffOfSex(sex[b])
    ELSE "accepted"

\* The cutoff of one booking, given those already accepted.
Judge(b) ==
    IF Cardinality(Accepted) >= left.total
    THEN "after_total_cutoff"
    ELSE IF CountSex(Accepted, sex, sex[b]) >= left[sex[b]]
    THEN CutoffOfSex(sex[b])
    ELSE "accepted"

Init ==
    /\ \E W \in SUBSET Queued : ranked \in SetToSeqs(W)
    /\ sex \in [Queued -> Sexes]
    /\ left \in [total : 0..MaxPlaces, male : 0..MaxPlaces, female : 0..MaxPlaces]
    /\ next = 1
    /\ cutoff = [b \in Queued |-> "undecided"]

\* The ranking read from its worst end.
WorstFirst ==
    LET b == ranked[Len(ranked) + 1 - next] IN
    /\ next <= Len(ranked)
    /\ cutoff' = [cutoff EXCEPT ![b] = Judge(b)]
    /\ next' = next + 1
    /\ UNCHANGED <<ranked, sex, left>>

\* One iteration of the loop.
NextBooking ==
    /\ next <= Len(ranked)
    /\ cutoff' = [cutoff EXCEPT ![ranked[next]] = Judge(ranked[next])]
    /\ next' = next + 1
    /\ UNCHANGED <<ranked, sex, left>>

Next == NextBooking

Spec == Init /\ [][Next]_vars

-----------------------------------------------------------------------------

Done == next > Len(ranked)

TypeOK ==
    /\ ranked \in Seq(Queued)
    /\ sex \in [Queued -> Sexes]
    /\ left \in PlacesType
    /\ next \in 1..(Len(ranked) + 1)
    /\ cutoff \in [Queued -> CutoffStates]

\* The bookings ranked better than each one.
Ahead == [b \in ToSet(ranked) |->
            {c \in ToSet(ranked) : \E i, j \in 1..Len(ranked) :
                                      i < j /\ ranked[i] = c /\ ranked[j] = b}]

\* When the pass is over, the accepted bookings are a cutoff of the waiting
\* ones in the declarative sense: none of the three limits is exceeded, and
\* no place that a waiting camper could have had stays empty. And they are those
\* that the ranking alone determines, as module QueueRanking has it.
OutcomeIsCutoff ==
    Done => /\ IsCutoff(ToSet(ranked), Accepted, sex, left)
            /\ AcceptedInTurn(Ahead, Accepted, sex, left)

\* A booking is passed over in favour of one ranked below it only when the
\* two differ in sex and the places for its own sex had run out: nobody
\* overtakes a camper of the same sex, and nobody at all is accepted once the
\* total is used up.
RankingRespected ==
    \A i, j \in 1..(next - 1) :
        i < j /\ cutoff[ranked[i]] # "accepted" /\ cutoff[ranked[j]] = "accepted"
        => /\ sex[ranked[i]] # sex[ranked[j]]
           /\ cutoff[ranked[i]] = CutoffOfSex(sex[ranked[i]])

=============================================================================
