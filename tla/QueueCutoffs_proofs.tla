------------------------ MODULE QueueCutoffs_proofs ------------------------
(***************************************************************************)
(* What the pass over the ranked queue (module QueueCutoffs) yields, for a *)
(* queue of any length and any numbers of places.                          *)
(***************************************************************************)
EXTENDS QueueCutoffs, FiniteSetTheorems, TLAPS

USE QueueAssumption

\* A booking is ranked once.
RankedOnce == \A i, j \in 1..Len(ranked) : i # j => ranked[i] # ranked[j]

\* The loop has judged what it has passed, and nothing else.
JudgedSoFar == \A b \in Queued :
                  cutoff[b] # "undecided" <=> \E i \in 1..(next - 1) : ranked[i] = b

\* The three limits are kept all along the pass.
AcceptedFit ==
    /\ Cardinality(Accepted) <= left.total
    /\ \A s \in Sexes : CountSex(Accepted, sex, s) <= left[s]

\* A limit that has stopped a booking stays used up: acceptances only add up.
\* This is what makes the outcome a cutoff, and the loop says it nowhere.
LimitStaysUsedUp ==
    \A b \in Queued :
        \/ cutoff[b] \in {"undecided", "accepted"}
        \/ cutoff[b] = "after_total_cutoff" /\ Cardinality(Accepted) >= left.total
        \/ /\ cutoff[b] = CutoffOfSex(sex[b])
           /\ CountSex(Accepted, sex, sex[b]) >= left[sex[b]]

\* Those ranked before position i.
Above(i) == {ranked[j] : j \in 1..(i - 1)}

\* Whoever was judged was judged by those accepted above, as they still are.
JudgedInTurn ==
    \A i \in 1..(next - 1) :
        ranked[i] \in Accepted <=>
            /\ Cardinality(Accepted \cap Above(i)) < left.total
            /\ CountSex(Accepted \cap Above(i), sex, sex[ranked[i]]) < left[sex[ranked[i]]]

PassInv ==
    /\ TypeOK
    /\ RankedOnce
    /\ JudgedSoFar
    /\ AcceptedFit
    /\ LimitStaysUsedUp
    /\ RankingRespected
    /\ JudgedInTurn

\* Counts of accepted bookings are natural numbers.
LEMMA AcceptedType ==
    ASSUME TypeOK
    PROVE  /\ IsFiniteSet(Accepted) /\ Cardinality(Accepted) \in Nat
           /\ \A s \in Sexes : /\ IsFiniteSet(OfSex(Accepted, sex, s))
                               /\ CountSex(Accepted, sex, s) \in Nat
<1>1. Accepted \in SUBSET Queued /\ \A s \in Sexes : OfSex(Accepted, sex, s) \in SUBSET Queued
  BY DEF Accepted, OfSex
<1>. QED
  BY <1>1, FS_Subset, FS_CardinalityType DEF CountSex

\* The loop starts with nothing judged.
LEMMA InitPass == Init => PassInv
<1>. SUFFICES ASSUME Init
              PROVE  PassInv
  OBVIOUS
<1>1. PICK W \in SUBSET Queued : ranked \in SetToSeqs(W)
  BY DEF Init
<1>2. Cardinality(W) \in Nat
  BY FS_Subset, FS_CardinalityType
<1>3. /\ ranked \in [1..Cardinality(W) -> W]
      /\ \A i, j \in 1..Cardinality(W) : i # j => ranked[i] # ranked[j]
  BY <1>1 DEF SetToSeqs
<1>4. ranked \in Seq(Queued) /\ Len(ranked) = Cardinality(W)
  BY <1>2, <1>3
<1>5. TypeOK
  BY <1>4 DEF Init, TypeOK, PlacesType, CutoffStates
<1>6. Accepted = {}
  BY DEF Init, Accepted
<1>7. Cardinality(Accepted) = 0 /\ \A s \in Sexes : CountSex(Accepted, sex, s) = 0
  BY <1>6, FS_EmptySet DEF CountSex, OfSex
<1>8. AcceptedFit
  BY <1>5, <1>7 DEF AcceptedFit, TypeOK, PlacesType, Sexes
<1>. QED
  BY <1>3, <1>4, <1>5, <1>8 DEF Init, PassInv, RankedOnce, JudgedSoFar, LimitStaysUsedUp, RankingRespected, JudgedInTurn

\* Accepting one more booking adds one to the total and to its sex.
LEMMA AcceptOneMore ==
    ASSUME TypeOK, NEW b \in Queued, b \notin Accepted,
           Accepted' = Accepted \cup {b}, sex' = sex
    PROVE  /\ Cardinality(Accepted)' = Cardinality(Accepted) + 1
           /\ \A s \in Sexes : CountSex(Accepted, sex, s)'
                 = CountSex(Accepted, sex, s) + (IF s = sex[b] THEN 1 ELSE 0)
<1>1. Cardinality(Accepted') = Cardinality(Accepted) + 1
  BY AcceptedType, FS_AddElement
<1>2. ASSUME NEW s \in Sexes
      PROVE  CountSex(Accepted, sex, s)'
                = CountSex(Accepted, sex, s) + (IF s = sex[b] THEN 1 ELSE 0)
  <2>1. CASE s = sex[b]
    <3>1. OfSex(Accepted', sex, s) = OfSex(Accepted, sex, s) \cup {b} /\ b \notin OfSex(Accepted, sex, s)
      BY <2>1 DEF OfSex
    <3>2. Cardinality(OfSex(Accepted', sex, s)) = Cardinality(OfSex(Accepted, sex, s)) + 1
      BY <1>2, <3>1, AcceptedType, FS_AddElement
    <3>. QED
      BY <2>1, <3>2 DEF CountSex
  <2>2. CASE s # sex[b]
    <3>1. OfSex(Accepted', sex, s) = OfSex(Accepted, sex, s)
      BY <2>2 DEF OfSex
    <3>. QED
      BY <1>2, <2>2, <3>1, AcceptedType DEF CountSex
  <2>. QED
    BY <2>1, <2>2
<1>. QED
  BY <1>1, <1>2

\* One iteration keeps the invariant.
LEMMA NextPass == PassInv /\ [Next]_vars => PassInv'
<1>. SUFFICES ASSUME PassInv, [Next]_vars
              PROVE  PassInv'
  OBVIOUS
<1>1. CASE UNCHANGED vars
  <2>. USE <1>1 DEF vars, PassInv
  <2>1. TypeOK' /\ RankedOnce' /\ JudgedSoFar'
    BY DEF TypeOK, RankedOnce, JudgedSoFar
  <2>2. Accepted' = Accepted
    BY DEF Accepted
  <2>3. AcceptedFit'
    BY <2>2 DEF AcceptedFit, CountSex
  <2>4. LimitStaysUsedUp'
    BY <2>2 DEF LimitStaysUsedUp, CountSex
  <2>5. RankingRespected'
    BY DEF RankingRespected
  <2>6. JudgedInTurn'
    BY <2>2 DEF JudgedInTurn, Above, CountSex
  <2>. QED
    BY <2>1, <2>3, <2>4, <2>5, <2>6
<1>2. CASE NextBooking
  <2>. DEFINE b == ranked[next]
  <2>. USE DEF PassInv, TypeOK
  <2>1. next \in 1..Len(ranked) /\ b \in Queued /\ sex[b] \in Sexes
    BY <1>2 DEF NextBooking
  <2>2. /\ UNCHANGED <<ranked, sex, left>>
        /\ next' = next + 1
        /\ \A x \in Queued : cutoff'[x] = IF x = b THEN Judge(b) ELSE cutoff[x]
    BY <1>2, <2>1 DEF NextBooking
  <2>3. cutoff[b] = "undecided"
    BY <2>1 DEF RankedOnce, JudgedSoFar
  <2>4. Judge(b) \in CutoffStates \ {"undecided"}
    BY DEF Judge, CutoffOfSex, CutoffStates
  <2>5. TypeOK'
    BY <1>2, <2>1, <2>4 DEF NextBooking
  <2>6. RankedOnce'
    BY <2>2 DEF RankedOnce
  <2>7. JudgedSoFar'
    <3>1. 1..(next' - 1) = (1..(next - 1)) \cup {next}
      BY <2>1, <2>2
    <3>. QED
      BY <2>1, <2>2, <2>4, <3>1 DEF JudgedSoFar
  <2>8. /\ Cardinality(Accepted) \in Nat /\ left.total \in Nat
        /\ \A s \in Sexes : CountSex(Accepted, sex, s) \in Nat /\ left[s] \in Nat
    BY AcceptedType DEF PlacesType, Sexes
  <2>a. /\ b \notin Accepted /\ Accepted \subseteq Above(next)
        /\ \A i \in 1..next : Above(i)' = Above(i) /\ b \notin Above(i)
    <3>1. b \notin Accepted
      BY <2>3 DEF Accepted
    <3>2. ASSUME NEW x \in Accepted PROVE x \in Above(next)
      <4>1. x \in Queued /\ cutoff[x] # "undecided"
        BY DEF Accepted
      <4>2. PICK i \in 1..(next - 1) : ranked[i] = x
        BY <4>1 DEF JudgedSoFar
      <4>. QED
        BY <4>2 DEF Above
    <3>3. \A i \in 1..next : Above(i)' = Above(i)
      BY <2>2 DEF Above
    <3>4. ASSUME NEW i \in 1..next PROVE b \notin Above(i)
      <4>1. \A j \in 1..(i - 1) : j \in 1..Len(ranked) /\ j # next
        BY <2>1
      <4>2. \A j \in 1..(i - 1) : ranked[j] # b
        BY <2>1, <4>1 DEF RankedOnce
      <4>. QED
        BY <4>2 DEF Above
    <3>. QED
      BY <3>1, <3>2, <3>3, <3>4
  <2>b. Accepted' = IF Judge(b) = "accepted" THEN Accepted \cup {b} ELSE Accepted
    BY <2>1, <2>2, <2>3 DEF Accepted
  <2>c. JudgedInTurn'
    <3>. SUFFICES ASSUME NEW i \in 1..(next' - 1)
                  PROVE  ranked[i] \in Accepted' <=>
                            /\ Cardinality(Accepted' \cap Above(i)') < left.total
                            /\ CountSex(Accepted' \cap Above(i)', sex, sex[ranked[i]])
                                  < left[sex[ranked[i]]]
      BY <2>2 DEF JudgedInTurn, CountSex
    <3>1. i \in 1..next
      BY <2>1, <2>2
    <3>2. CASE i = next
      <4>1. Accepted' \cap Above(i)' = Accepted
        <5>1. Above(i)' = Above(next) /\ b \notin Above(next) /\ i \in 1..next
          BY <2>1, <2>a, <3>2
        <5>. QED
          BY <2>a, <2>b, <5>1
      <4>2. b \in Accepted' <=> Judge(b) = "accepted"
        BY <2>a, <2>b
      <4>3. Judge(b) = "accepted" <=>
              Cardinality(Accepted) < left.total /\ CountSex(Accepted, sex, sex[b]) < left[sex[b]]
        BY <2>1, <2>8 DEF Judge, CutoffOfSex
      <4>. QED
        BY <3>2, <4>1, <4>2, <4>3
    <3>3. CASE i # next
      <4>1. i \in 1..(next - 1) /\ ranked[i] # b
        BY <2>1, <3>1, <3>3 DEF RankedOnce
      <4>2. Accepted' \cap Above(i)' = Accepted \cap Above(i)
        BY <2>a, <2>b, <4>1
      <4>3. ranked[i] \in Accepted' <=> ranked[i] \in Accepted
        BY <2>b, <4>1
      <4>. QED
        BY <4>1, <4>2, <4>3 DEF JudgedInTurn
    <3>. QED
      BY <3>2, <3>3
  <2>9. CASE Judge(b) = "accepted"
    <3>1. Accepted' = Accepted \cup {b} /\ b \notin Accepted
      BY <2>1, <2>2, <2>3, <2>9 DEF Accepted
    <3>2. Cardinality(Accepted) < left.total /\ CountSex(Accepted, sex, sex[b]) < left[sex[b]]
      BY <2>1, <2>8, <2>9 DEF Judge, CutoffOfSex
    <3>3. /\ Cardinality(Accepted)' = Cardinality(Accepted) + 1
          /\ \A s \in Sexes : CountSex(Accepted, sex, s)'
                = CountSex(Accepted, sex, s) + (IF s = sex[b] THEN 1 ELSE 0)
      BY <2>1, <2>2, <3>1, AcceptOneMore
    <3>4. AcceptedFit'
      BY <2>2, <2>8, <3>2, <3>3 DEF AcceptedFit
    <3>5. LimitStaysUsedUp'
      <4>. SUFFICES ASSUME NEW x \in Queued, cutoff'[x] \notin {"undecided", "accepted"}
                    PROVE  \/ cutoff'[x] = "after_total_cutoff" /\ Cardinality(Accepted)' >= left.total
                           \/ /\ cutoff'[x] = CutoffOfSex(sex[x])
                              /\ CountSex(Accepted, sex, sex[x])' >= left[sex[x]]
        BY <2>2 DEF LimitStaysUsedUp
      <4>1. cutoff'[x] = cutoff[x] /\ sex[x] \in Sexes
        BY <2>2, <2>9
      <4>2. /\ Cardinality(Accepted)' >= Cardinality(Accepted) /\ Cardinality(Accepted)' \in Nat
            /\ CountSex(Accepted, sex, sex[x])' >= CountSex(Accepted, sex, sex[x])
            /\ CountSex(Accepted, sex, sex[x])' \in Nat
        BY <2>2, <2>8, <3>3, <4>1
      <4>. QED
        BY <2>8, <4>1, <4>2 DEF LimitStaysUsedUp
    <3>6. RankingRespected'
      <4>. SUFFICES ASSUME NEW i \in 1..(next' - 1), NEW j \in 1..(next' - 1), i < j,
                           cutoff'[ranked[i]] # "accepted", cutoff'[ranked[j]] = "accepted"
                    PROVE  /\ sex[ranked[i]] # sex[ranked[j]]
                           /\ cutoff'[ranked[i]] = CutoffOfSex(sex[ranked[i]])
        BY <2>2 DEF RankingRespected
      <4>1. i \in 1..(next - 1) /\ j \in 1..next /\ ranked[i] \in Queued /\ ranked[j] \in Queued
        BY <2>1, <2>2
      <4>2. cutoff'[ranked[i]] = cutoff[ranked[i]] /\ ranked[i] # b
        BY <2>1, <2>2, <4>1 DEF RankedOnce
      <4>3. CASE j = next
        <5>1. cutoff[ranked[i]] # "undecided" /\ cutoff[ranked[i]] # "accepted"
          BY <4>1, <4>2 DEF JudgedSoFar
        <5>2. /\ cutoff[ranked[i]] = CutoffOfSex(sex[ranked[i]])
              /\ CountSex(Accepted, sex, sex[ranked[i]]) >= left[sex[ranked[i]]]
          BY <2>8, <3>2, <4>1, <5>1 DEF LimitStaysUsedUp
        <5>3. sex[ranked[i]] # sex[b]
          BY <2>1, <2>8, <3>2, <5>2
        <5>. QED
          BY <4>2, <4>3, <5>2, <5>3
      <4>4. CASE j # next
        <5>1. j \in 1..(next - 1) /\ ranked[j] # b
          BY <2>1, <4>1, <4>4 DEF RankedOnce
        <5>2. cutoff[ranked[j]] = "accepted"
          BY <2>2, <4>1, <5>1
        <5>. QED
          BY <4>1, <4>2, <5>1, <5>2 DEF RankingRespected
      <4>. QED
        BY <4>3, <4>4
    <3>. QED
      BY <2>5, <2>6, <2>7, <2>c, <3>4, <3>5, <3>6
  <2>10. CASE Judge(b) # "accepted"
    <3>1. Accepted' = Accepted
      BY <2>1, <2>2, <2>3, <2>10 DEF Accepted
    <3>2. AcceptedFit'
      BY <2>2, <3>1 DEF AcceptedFit, CountSex
    <3>3. LimitStaysUsedUp'
      BY <2>2, <2>10, <3>1 DEF LimitStaysUsedUp, CountSex, Judge
    <3>4. RankingRespected'
      <4>. SUFFICES ASSUME NEW i \in 1..(next' - 1), NEW j \in 1..(next' - 1), i < j,
                           cutoff'[ranked[i]] # "accepted", cutoff'[ranked[j]] = "accepted"
                    PROVE  /\ sex[ranked[i]] # sex[ranked[j]]
                           /\ cutoff'[ranked[i]] = CutoffOfSex(sex[ranked[i]])
        BY <2>2 DEF RankingRespected
      <4>1. i \in 1..(next - 1) /\ j \in 1..next /\ ranked[i] \in Queued /\ ranked[j] \in Queued
        BY <2>1, <2>2
      <4>2. cutoff'[ranked[i]] = cutoff[ranked[i]]
        BY <2>1, <2>2, <4>1 DEF RankedOnce
      <4>3. ranked[j] # b
        BY <2>2, <2>10, <4>1
      <4>4. j \in 1..(next - 1) /\ cutoff[ranked[j]] = "accepted"
        BY <2>1, <2>2, <4>1, <4>3
      <4>. QED
        BY <4>1, <4>2, <4>4 DEF RankingRespected
    <3>. QED
      BY <2>5, <2>6, <2>7, <2>c, <3>2, <3>3, <3>4
  <2>. QED
    BY <2>9, <2>10
<1>. QED
  BY <1>1, <1>2 DEF Next

\* The invariant of the loop.
LEMMA PassInvariant == Spec => []PassInv
  BY InitPass, NextPass, PTL DEF Spec

\* Nobody overtakes a camper of the same sex, and nobody is accepted after the
\* total has run out, for any ranking and any numbers of places.
THEOREM RankingIsRespected == Spec => []RankingRespected
<1>1. PassInv => RankingRespected
  BY DEF PassInv
<1>. QED
  BY <1>1, PassInvariant, PTL

\* What the loop has accepted when it is over is a cutoff in the sense of
\* module Places, as BookingQueue has it, and the one that follows from the
\* ranking, as QueueRanking has it.
THEOREM LoopYieldsCutoff == Spec => []OutcomeIsCutoff
<1>1. ASSUME PassInv, Done
      PROVE  /\ IsCutoff(ToSet(ranked), Accepted, sex, left)
             /\ AcceptedInTurn(Ahead, Accepted, sex, left)
  <2>. USE <1>1 DEF PassInv, TypeOK
  <2>1. ToSet(ranked) = {ranked[i] : i \in 1..Len(ranked)} /\ 1..(next - 1) = 1..Len(ranked)
    BY DEF ToSet, Done
  <2>2. ToSet(ranked) \in SUBSET Queued
    BY <2>1
  <2>3. \A b \in Queued : b \in ToSet(ranked) <=> cutoff[b] # "undecided"
    BY <2>1 DEF JudgedSoFar
  <2>4. Accepted \subseteq ToSet(ranked)
    BY <2>3 DEF Accepted
  <2>5. \A b \in ToSet(ranked) \ Accepted :
           \/ Cardinality(Accepted) >= left.total
           \/ CountSex(Accepted, sex, sex[b]) >= left[sex[b]]
    BY <2>2, <2>3 DEF LimitStaysUsedUp, Accepted
  <2>6. ASSUME NEW i \in 1..Len(ranked) PROVE Ahead[ranked[i]] = Above(i)
    <3>1. \A j \in 1..Len(ranked) : ranked[j] = ranked[i] => j = i
      BY DEF RankedOnce
    <3>2. Ahead[ranked[i]] = {c \in ToSet(ranked) : \E h, j \in 1..Len(ranked) :
                                  h < j /\ ranked[h] = c /\ ranked[j] = ranked[i]}
      BY <2>1 DEF Ahead
    <3>3. \A c : c \in Above(i) <=> \E h \in 1..Len(ranked) : h < i /\ ranked[h] = c
      BY DEF Above
    <3>. QED
      BY <2>1, <3>1, <3>2, <3>3
  <2>7. AcceptedInTurn(Ahead, Accepted, sex, left)
    <3>1. DOMAIN Ahead = ToSet(ranked)
      BY DEF Ahead
    <3>2. ASSUME NEW b \in DOMAIN Ahead
          PROVE  b \in Accepted <=>
                    /\ Cardinality(Accepted \cap Ahead[b]) < left.total
                    /\ CountSex(Accepted \cap Ahead[b], sex, sex[b]) < left[sex[b]]
      <4>1. PICK i \in 1..Len(ranked) : ranked[i] = b
        BY <2>1, <3>1
      <4>2. Ahead[b] = Above(i) /\ i \in 1..(next - 1)
        BY <2>1, <2>6, <4>1
      <4>. QED
        BY <4>1, <4>2 DEF JudgedInTurn
    <3>. QED
      BY <3>2 DEF AcceptedInTurn
  <2>. QED
    BY <2>4, <2>5, <2>7 DEF IsCutoff, AcceptedFit
<1>2. PassInv => OutcomeIsCutoff
  BY <1>1 DEF OutcomeIsCutoff
<1>. QED
  BY <1>2, PassInvariant, PTL

=============================================================================
