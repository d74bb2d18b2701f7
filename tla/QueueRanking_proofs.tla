------------------------ MODULE QueueRanking_proofs ------------------------
(***************************************************************************)
(* What the ranking of module QueueRanking keeps, for any bookings,        *)
(* campers, families, camps and lottery numbers.                           *)
(***************************************************************************)
EXTENDS QueueRanking, FiniteSetTheorems, WellFoundedInduction, TLAPS

USE QueueRankingAssumption

-----------------------------------------------------------------------------
(* Types. *)

\* A booking that comes late, after those of S.
LEMMA ComesAfterInOrder ==
  ASSUME LateInOrder, NEW b \in Bookings, Entered' = Entered \cup {b},
         NEW S \in SUBSET (Late \ {b}), \A c \in S : sooner[c] \ {b} \subseteq S,
         ComesAfter(b, S)
  PROVE  LateInOrder'
<1>1. Late' = Late \cup {b} /\ Late \subseteq Bookings
  BY DEF ComesAfter, Late, Entered
<1>2. \A c \in Bookings : sooner'[c] = IF c = b THEN S
                                       ELSE IF c \in Late \ S THEN sooner[c] \cup {b}
                                       ELSE sooner[c] \ {b}
  BY DEF ComesAfter
<1>3. \A c \in Bookings : sooner[c] \subseteq Late
  BY DEF LateInOrder
<1>0. b \notin S /\ S \subseteq Late
  OBVIOUS
<1>4. sooner' \in [Bookings -> SUBSET (Late')]
  <2>1. \A c \in Bookings : sooner'[c] \subseteq Late'
    BY <1>1, <1>2, <1>3
  <2>2. sooner' = [c \in Bookings |-> sooner'[c]]
    BY DEF ComesAfter
  <2>. QED
    BY <2>1, <2>2
<1>5. \A c \in Bookings \ Late' : sooner'[c] = {}
  BY <1>1, <1>2 DEF LateInOrder
<1>6. ASSUME NEW a \in Late', NEW c \in sooner'[a]
      PROVE  sooner'[c] \subseteq sooner'[a]
  <2>0. a \in Bookings /\ c \in Bookings
    BY <1>1, <1>4, <1>6
  <2>1. CASE a = b
    BY <1>2, <1>6, <2>0, <2>1
  <2>2. CASE a # b /\ a \in S
    <3>1. sooner'[a] = sooner[a] \ {b} /\ a \in Late
      BY <1>0, <1>2, <2>0, <2>2
    <3>a. c \in sooner[a] /\ c # b
      BY <1>6, <3>1
    <3>2. c \in S /\ sooner[c] \subseteq sooner[a]
      BY <2>2, <3>1, <3>a DEF LateInOrder
    <3>. QED
      BY <1>2, <2>0, <3>1, <3>a, <3>2
  <2>3. CASE a # b /\ a \notin S
    <3>1. a \in Late /\ sooner'[a] = sooner[a] \cup {b}
      BY <1>1, <1>2, <1>6, <2>0, <2>3
    <3>2. CASE c = b
      <4>1. ASSUME NEW x \in S PROVE x \in sooner[a]
        <5>1. x \in Late /\ x # a /\ x # b
          BY <2>3
        <5>2. a \notin sooner[x]
          BY <2>3
        <5>. QED
          BY <3>1, <5>1, <5>2 DEF LateInOrder
      <4>. QED
        BY <1>2, <3>1, <3>2, <4>1
    <3>3. CASE c # b
      <4>1. sooner[c] \subseteq sooner[a]
        BY <3>1, <3>3, <1>6 DEF LateInOrder
      <4>. QED
        BY <1>2, <2>0, <3>1, <3>3, <4>1
    <3>. QED
      BY <3>2, <3>3
  <2>. QED
    BY <2>1, <2>2, <2>3
<1>7. ASSUME NEW a \in Late' PROVE a \notin sooner'[a]
  <2>1. CASE a = b
    BY <1>0, <1>1, <1>2, <2>1
  <2>2. CASE a # b
    <3>1. a \in Late /\ a \in Bookings /\ a \notin sooner[a]
      BY <1>1, <2>2 DEF LateInOrder
    <3>. QED
      BY <1>2, <2>2, <3>1
  <2>. QED
    BY <2>1, <2>2
<1>8. ASSUME NEW a \in Late', NEW c \in Late', a # c
      PROVE  a \in sooner'[c] \/ c \in sooner'[a]
  <2>0. ASSUME NEW x \in Late, x # b PROVE x \in sooner'[b] \/ b \in sooner'[x]
    <3>1. x \in Bookings /\ sooner'[b] = S
      BY <1>1, <1>2
    <3>2. x \notin S => sooner'[x] = sooner[x] \cup {b}
      BY <1>2, <2>0, <3>1
    <3>. QED
      BY <3>1, <3>2
  <2>1. CASE a = b \/ c = b
    BY <1>1, <1>8, <2>0, <2>1
  <2>2. CASE a # b /\ c # b
    <3>1. a \in sooner[c] \/ c \in sooner[a]
      BY <1>1, <1>8, <2>2 DEF LateInOrder
    <3>. QED
      BY <1>1, <1>2, <1>8, <2>2, <3>1
  <2>. QED
    BY <2>1, <2>2
<1>. QED
  BY <1>4, <1>5, <1>6, <1>7, <1>8 DEF LateInOrder

\* A booking that comes in the initial period, or is moved there.
LEMMA ComesEarlyInOrder ==
  ASSUME LateInOrder, NEW b \in Bookings, Entered' = Entered \cup {b}, ComesEarly(b)
  PROVE  LateInOrder'
<1>1. Late' = Late \ {b} /\ Late \subseteq Bookings
  BY DEF ComesEarly, Late, Entered
<1>2. sooner' = [c \in Bookings |-> IF c = b THEN {} ELSE sooner[c] \ {b}]
  BY DEF ComesEarly
<1>3. sooner' \in [Bookings -> SUBSET (Late')]
  BY <1>1, <1>2 DEF LateInOrder
<1>. QED
  BY <1>1, <1>2, <1>3 DEF LateInOrder

\* Nobody enters the queue, and nobody moves in it.
LEMMA StaysInOrder ==
  ASSUME LateInOrder, Entered' = Entered, early' = early, sooner' = sooner
  PROVE  LateInOrder'
<1>1. Late' = Late
  BY DEF Late
<1>. QED
  BY <1>1 DEF LateInOrder

\* Steps of the account holder.
LEMMA HolderTyped ==
  ASSUME TypeOK, NEW b \in Bookings, Join(b) \/ Withdraw(b) \/ Release(b)
  PROVE  TypeOK'
<1>. USE DEF TypeOK
<1>1. CASE Join(b)
  <2>1. Entered' = Entered \cup {b}
    BY <1>1 DEF Join, Entered
  <2>2. LateInOrder'
    <3>1. CASE ComesEarly(b)
      BY <2>1, <3>1, ComesEarlyInOrder
    <3>2. CASE ComesAfter(b, Late \ {b})
      <4>1. \A c \in Late \ {b} : sooner[c] \ {b} \subseteq Late \ {b}
        BY DEF LateInOrder, Late, Entered
      <4>2. Late \ {b} \in SUBSET (Late \ {b})
        OBVIOUS
      <4>. QED
        BY <2>1, <3>2, <4>1, <4>2, ComesAfterInOrder
    <3>. QED
      BY <1>1, <3>1, <3>2 DEF Join, Enqueue
  <2>3. early' \subseteq Entered'
    BY <1>1, <2>1 DEF Join, Enqueue, ComesEarly, ComesAfter
  <2>. QED
    BY <1>1, <2>1, <2>2, <2>3 DEF Join, marks
<1>2. CASE Withdraw(b)
  <2>1. Entered' = Entered
    BY <1>2 DEF Withdraw, Entered
  <2>. QED
    BY <1>2, <2>1, StaysInOrder DEF Withdraw, marks
<1>3. CASE Release(b)
  <2>1. Entered' = Entered
    BY <1>3 DEF Release, Entered
  <2>. QED
    BY <1>3, <2>1, StaysInOrder DEF Release, marks
<1>. QED
  BY <1>1, <1>2, <1>3

\* Steps of staff.
LEMMA StaffTyped ==
  ASSUME TypeOK,
         \/ \E c \in Camps : Allocate(c)
         \/ CloseInitialPeriod
         \/ edits < MaxEdits /\ edits' = edits + 1 /\ Edit
  PROVE  TypeOK'
<1>. USE DEF TypeOK
<1>1. ASSUME NEW c \in Camps, Allocate(c) PROVE TypeOK'
  <2>1. Entered' = Entered
    BY <1>1 DEF Allocate, Entered, queue
  <2>. QED
    BY <1>1, <2>1, StaysInOrder DEF Allocate, queue, marks
<1>2. CASE CloseInitialPeriod
  <2>1. Entered' = Entered
    BY <1>2 DEF CloseInitialPeriod, Entered, queue
  <2>. QED
    BY <1>2, <2>1, StaysInOrder DEF CloseInitialPeriod, queue, marks
<1>3. CASE edits < MaxEdits /\ edits' = edits + 1 /\ Edit
  <2>0. edits' \in 0..MaxEdits
    BY <1>3
  <2>1. ASSUME NEW b \in Bookings, NEW child \in BOOLEAN, NEW first \in BOOLEAN, Mark(b, child, first)
        PROVE  TypeOK'
    <3>1. Entered' = Entered /\ b \in Entered
      BY <2>1 DEF Mark, Entered, queue, Waiting
    <3>. QED
      BY <2>0, <2>1, <3>1, StaysInOrder DEF Mark, queue
  <2>2. ASSUME NEW b \in Bookings, NEW st \in {"info_complete", "booked", "cancelled"},
               AdminChangeState(b, st)
        PROVE  TypeOK'
    <3>1. Entered' = Entered
      BY <2>2 DEF AdminChangeState, Entered, queue
    <3>. QED
      BY <2>0, <2>2, <3>1, StaysInOrder DEF AdminChangeState, queue, marks
  <2>3. ASSUME NEW b \in Bookings, NEW active \in BOOLEAN, AdminQueueState(b, active)
        PROVE  TypeOK'
    <3>1. Entered' = Entered /\ Entered' = Entered \cup {b}
      BY <2>3 DEF AdminQueueState, Entered
    <3>2. LateInOrder'
      BY <2>3, <3>1, ComesEarlyInOrder, ComesAfterInOrder DEF AdminQueueState
    <3>3. early' \subseteq Entered'
      BY <2>3, <3>1 DEF AdminQueueState, ComesEarly, ComesAfter
    <3>. QED
      BY <2>0, <2>3, <3>1, <3>2, <3>3 DEF AdminQueueState, marks
  <2>. QED
    BY <1>3, <2>1, <2>2, <2>3 DEF Edit
<1>. QED
  BY <1>1, <1>2, <1>3

\* Every step keeps the types.
LEMMA TypeInductive ==
  ASSUME TypeOK, [Next]_vars
  PROVE  TypeOK'
<1>1. CASE UNCHANGED vars
  <2>1. Entered' = Entered
    BY <1>1 DEF vars, queue, Entered
  <2>. QED
    BY <1>1, <2>1, StaysInOrder DEF vars, queue, marks, TypeOK
<1>. QED
  BY <1>1, HolderTyped, StaffTyped DEF Next

\* Whoever comes and goes, and whatever staff write into enqueued_at: those who came
\* late stand in one line.
THEOREM TypeCorrect == Spec => []TypeOK
<1>1. Init => TypeOK
  <2>. SUFFICES ASSUME Init PROVE TypeOK
    OBVIOUS
  <2>1. Entered = {} /\ Late = {}
    BY DEF Init, Entered, Late
  <2>. QED
    BY <2>1 DEF Init, TypeOK, LateInOrder
<1>. QED
  BY <1>1, TypeInductive, PTL DEF Spec

-----------------------------------------------------------------------------
(* Keys, and what comes before what. *)

Keys == [1..8 -> Int]

\* What is smaller in one part, and the same in those before it, is smaller.
LEMMA PartDecides ==
  ASSUME NEW k \in Keys, NEW l \in Keys, NEW i \in 1..8, k[i] < l[i],
         \A j \in 1..8 : j < i => k[j] = l[j]
  PROVE  Smaller(k, l)
BY DEF Keys, Smaller

LEMMA SmallerAt ==
  ASSUME NEW k \in Keys, NEW l \in Keys, Smaller(k, l)
  PROVE  \E i \in 1..8 : k[i] < l[i] /\ \A j \in 1..8 : j < i => k[j] = l[j]
BY DEF Keys, Smaller

\* Whatever comes before the second of two comes before the third.
LEMMA SmallerTransitive ==
  ASSUME NEW k \in Keys, NEW l \in Keys, NEW m \in Keys, Smaller(k, l), Smaller(l, m)
  PROVE  Smaller(k, m)
<1>1. PICK i \in 1..8 : k[i] < l[i] /\ \A j \in 1..8 : j < i => k[j] = l[j]
  BY SmallerAt
<1>2. PICK h \in 1..8 : l[h] < m[h] /\ \A j \in 1..8 : j < h => l[j] = m[j]
  BY SmallerAt
<1>3. \A j \in 1..8 : k[j] \in Int /\ l[j] \in Int /\ m[j] \in Int
  BY DEF Keys
<1>4. CASE i < h
  <2>1. k[i] < m[i] /\ \A j \in 1..8 : j < i => k[j] = m[j]
    BY <1>1, <1>2, <1>3, <1>4
  <2>. QED
    BY <2>1, PartDecides
<1>5. CASE i = h
  <2>1. k[i] < m[i] /\ \A j \in 1..8 : j < i => k[j] = m[j]
    BY <1>1, <1>2, <1>3, <1>5
  <2>. QED
    BY <2>1, PartDecides
<1>6. CASE h < i
  <2>1. k[h] < m[h] /\ \A j \in 1..8 : j < h => k[j] = m[j]
    BY <1>1, <1>2, <1>3, <1>6
  <2>. QED
    BY <2>1, PartDecides
<1>. QED
  BY <1>4, <1>5, <1>6

LEMMA SmallerIsStrict ==
  ASSUME NEW k \in Keys, NEW l \in Keys, Smaller(k, l)
  PROVE  ~Smaller(l, k)
<1>1. PICK i \in 1..8 : k[i] < l[i] /\ \A j \in 1..8 : j < i => k[j] = l[j]
  BY SmallerAt
<1>2. SUFFICES ASSUME Smaller(l, k) PROVE FALSE
  OBVIOUS
<1>3. PICK h \in 1..8 : l[h] < k[h] /\ \A j \in 1..8 : j < h => l[j] = k[j]
  BY <1>2, SmallerAt
<1>4. \A j \in 1..8 : k[j] \in Int /\ l[j] \in Int
  BY DEF Keys
<1>. QED
  BY <1>1, <1>3, <1>4

\* Two pairs that compare in the same way in every part compare in the same way.
LEMMA ComparedAlike ==
  ASSUME NEW k \in Keys, NEW l \in Keys, NEW m \in Keys, NEW n \in Keys,
         \A i \in 1..8 : (k[i] < l[i] <=> m[i] < n[i]) /\ (k[i] = l[i] <=> m[i] = n[i])
  PROVE  Smaller(k, l) <=> Smaller(m, n)
<1>1. ASSUME Smaller(k, l) PROVE Smaller(m, n)
  BY <1>1, SmallerAt, PartDecides
<1>2. ASSUME Smaller(m, n) PROVE Smaller(k, l)
  BY <1>2, SmallerAt, PartDecides
<1>. QED
  BY <1>1, <1>2

KeyIs(b) ==
  /\ RankingKey(b) \in Keys
  /\ RankingKey(b)[1] = ZeroIf(b \in officerChild)
  /\ RankingKey(b)[2] = ZeroIf(b \in firstTimer)
  /\ RankingKey(b)[3] = ZeroIf(~OtherPlaceBooked(b))
  /\ RankingKey(b)[4] = QueuePosition(b)
  /\ RankingKey(b)[5] = -past[b].attended
  /\ RankingKey(b)[6] = ZeroIf(past[b].waited)
  /\ RankingKey(b)[7] = -Cardinality(CountedSiblings(b))
  /\ RankingKey(b)[8] = Tiebreaker[b]

\* The key has eight numbers.
LEMMA KeyParts == TypeOK => \A b \in Bookings : KeyIs(b)
<1>. SUFFICES ASSUME TypeOK, NEW b \in Bookings PROVE KeyIs(b)
  OBVIOUS
<1>1. IsFiniteSet(sooner[b] \cap Waiting(CampOf[b])) /\ IsFiniteSet(CountedSiblings(b))
  <2>1. CountedSiblings(b) \subseteq Bookings /\ sooner[b] \cap Waiting(CampOf[b]) \subseteq Bookings
    BY DEF CountedSiblings, Siblings, OnCamp, Waiting
  <2>. QED
    BY <2>1, FS_Subset
<1>2. /\ Cardinality(sooner[b] \cap Waiting(CampOf[b])) \in Nat
      /\ Cardinality(CountedSiblings(b)) \in Nat
  BY <1>1, FS_CardinalityType
<1>3. QueuePosition(b) \in Nat
  BY <1>2 DEF QueuePosition
<1>4. past[b].attended \in Nat /\ Tiebreaker[b] \in Nat
  BY DEF TypeOK
<1>5. \A p \in BOOLEAN : ZeroIf(p) \in Int
  BY DEF ZeroIf
<1>6. /\ ZeroIf(b \in officerChild) \in Int /\ ZeroIf(b \in firstTimer) \in Int
      /\ ZeroIf(~OtherPlaceBooked(b)) \in Int /\ ZeroIf(past[b].waited) \in Int
  BY DEF ZeroIf
<1>. QED
  BY <1>2, <1>3, <1>4, <1>6 DEF KeyIs, RankingKey, Keys

\* A part of a set that misses a member is smaller.
LEMMA MissesOne ==
  ASSUME NEW S, NEW T, IsFiniteSet(T), S \subseteq T, NEW x \in T, x \notin S
  PROVE  Cardinality(S) < Cardinality(T)
<1>1. S \subseteq T \ {x} /\ IsFiniteSet(T \ {x})
  BY FS_Subset
<1>2. /\ Cardinality(S) <= Cardinality(T \ {x})
      /\ Cardinality(T \ {x}) = Cardinality(T) - 1
      /\ Cardinality(T) \in Nat /\ Cardinality(S) \in Nat
  BY <1>1, FS_Subset, FS_RemoveElement, FS_CardinalityType
<1>. QED
  BY <1>2

AsTheyEntered(c) ==
  \A b, d \in Waiting(c) : b # d =>
    /\ QueuePosition(b) < QueuePosition(d) <=> d \notin early /\ (b \in early \/ b \in sooner[d])
    /\ QueuePosition(b) = QueuePosition(d) <=> b \in early /\ d \in early

\* Two who wait for the same camp are in the queue as the times at which they entered.
LEMMA PositionsCompare == TypeOK => \A c \in Camps : AsTheyEntered(c)
<1>. SUFFICES ASSUME TypeOK, NEW c \in Camps, NEW b \in Waiting(c), NEW d \in Waiting(c), b # d
              PROVE  /\ QueuePosition(b) < QueuePosition(d) <=>
                          d \notin early /\ (b \in early \/ b \in sooner[d])
                     /\ QueuePosition(b) = QueuePosition(d) <=> b \in early /\ d \in early
  BY DEF AsTheyEntered
<1>1. /\ b \in Bookings /\ d \in Bookings /\ CampOf[b] = c /\ CampOf[d] = c
      /\ b \in Entered /\ d \in Entered
  BY DEF Waiting, OnCamp, Entered
<1>. DEFINE W == Waiting(c)
            s(x) == Cardinality(sooner[x] \cap W)
<1>2. IsFiniteSet(W)
  BY FS_Subset DEF Waiting, OnCamp
<1>3. \A x \in Bookings : IsFiniteSet(sooner[x] \cap W)
  BY <1>2, FS_Subset
<1>4. s(b) \in Nat /\ s(d) \in Nat
  BY <1>1, <1>3, FS_CardinalityType
<1>5. /\ QueuePosition(b) = IF b \in early THEN 1 ELSE 2 + s(b)
      /\ QueuePosition(d) = IF d \in early THEN 1 ELSE 2 + s(d)
  BY <1>1 DEF QueuePosition
<1>6. ASSUME NEW x \in W, NEW y \in W, x \notin early, y \notin early, x \in sooner[y]
      PROVE  s(x) < s(y)
  <2>1. x \in Late /\ y \in Late /\ x \in Bookings /\ y \in Bookings
    BY <1>6 DEF Late, Waiting, OnCamp, Entered
  <2>2. sooner[x] \subseteq sooner[y] /\ x \notin sooner[x]
    BY <1>6, <2>1 DEF TypeOK, LateInOrder
  <2>. QED
    BY <1>3, <1>6, <2>1, <2>2, MissesOne
<1>7. b \notin early /\ d \notin early => b \in sooner[d] \/ d \in sooner[b]
  BY <1>1 DEF TypeOK, LateInOrder, Late
<1>8. b \in W /\ d \in W
  OBVIOUS
<1>9. b \notin early /\ d \notin early =>
        (b \in sooner[d] => s(b) < s(d)) /\ (d \in sooner[b] => s(d) < s(b))
  BY <1>6, <1>8
<1>. HIDE DEF s, W
<1>. QED
  BY <1>4, <1>5, <1>7, <1>9

\* Both hold after a step as well.
LEMMA PartsAfter ==
  ASSUME TypeOK'
  PROVE  (\A b \in Bookings : KeyIs(b)') /\ \A c \in Camps : AsTheyEntered(c)'
<1>1. (TypeOK => \A b \in Bookings : KeyIs(b))'
  BY KeyParts, PTL
<1>2. (TypeOK => \A c \in Camps : AsTheyEntered(c))'
  BY PositionsCompare, PTL
<1>. QED
  BY <1>1, <1>2

-----------------------------------------------------------------------------
(* What the steps leave alone. *)

\* Nobody but staff moves in the queue who stays in it, and a step of the account
\* holder concerns one booking.
LEMMA QueueOfOthers ==
  ASSUME TypeOK, [Next]_vars, edits' = edits, NEW b \in Bookings, NEW d \in Bookings,
         entry[b] = "active", entry[d] = "active"
  PROVE  (b \in early)' = (b \in early) /\ (b \in sooner[d])' = (b \in sooner[d])
<1>0. /\ edits \in Nat
      /\ sooner \in [Bookings -> SUBSET Late]
  BY DEF TypeOK, LateInOrder
<1>1. ASSUME NEW z \in Bookings, Join(z)
      PROVE  (b \in early)' = (b \in early) /\ (b \in sooner[d])' = (b \in sooner[d])
  <2>1. z # b /\ z # d
    BY <1>1 DEF Join
  <2>2. CASE ComesEarly(z)
    BY <1>0, <2>1, <2>2 DEF ComesEarly
  <2>3. CASE ComesAfter(z, Late \ {z})
    BY <1>0, <2>1, <2>3 DEF ComesAfter
  <2>. QED
    BY <1>1, <2>2, <2>3 DEF Join, Enqueue
<1>2. CASE early' = early /\ sooner' = sooner
  BY <1>2
<1>3. CASE edits' = edits + 1
  BY <1>0, <1>3
<1>. QED
  BY <1>1, <1>2, <1>3 DEF Next, vars, queue, Withdraw, Release, Allocate, CloseInitialPeriod

\* Earlier years do not change.
LEMMA PastStays ==
  ASSUME [Next]_vars
  PROVE  past' = past
<1>1. ASSUME NEW b \in Bookings, Join(b) \/ Withdraw(b) \/ Release(b) PROVE past' = past
  BY <1>1 DEF Join, Withdraw, Release
<1>2. ASSUME Edit PROVE past' = past
  BY <1>2 DEF Edit, Mark, AdminChangeState, AdminQueueState
<1>. QED
  BY <1>1, <1>2 DEF Next, vars, Allocate, CloseInitialPeriod

-----------------------------------------------------------------------------
(* Siblings. *)

\* Without an edit by staff, whoever has a claim keeps it, and a booking goes on from
\* waiting to booked and from booked to cancelled.
LEMMA GoesOn ==
  ASSUME TypeOK, [Next]_vars, edits' = edits, NEW s \in Bookings
  PROVE  /\ HasClaim(s)' <=> HasClaim(s)
         /\ state'[s] = "info_complete" => state[s] = "info_complete"
         /\ state[s] = "cancelled" => state'[s] = "cancelled"
         /\ state[s] = "booked" => state'[s] \in {"booked", "cancelled"}
<1>0. edits \in Nat /\ state \in [Bookings -> {"info_complete", "booked", "cancelled"}]
  BY DEF TypeOK
<1>1. past' = past
  BY PastStays
<1>2. CASE state' = state /\ officerChild' = officerChild /\ firstTimer' = firstTimer
  BY <1>0, <1>1, <1>2 DEF HasClaim
<1>3. ASSUME NEW z \in Bookings, Release(z)
      PROVE  /\ HasClaim(s)' <=> HasClaim(s)
             /\ state'[s] = "info_complete" => state[s] = "info_complete"
             /\ state[s] = "cancelled" => state'[s] = "cancelled"
             /\ state[s] = "booked" => state'[s] \in {"booked", "cancelled"}
  BY <1>0, <1>1, <1>3 DEF Release, HasClaim, marks
<1>4. ASSUME NEW c \in Camps, Allocate(c)
      PROVE  /\ HasClaim(s)' <=> HasClaim(s)
             /\ state'[s] = "info_complete" => state[s] = "info_complete"
             /\ state[s] = "cancelled" => state'[s] = "cancelled"
             /\ state[s] = "booked" => state'[s] \in {"booked", "cancelled"}
  <2>1. officerChild' = officerChild /\ firstTimer' = firstTimer
    BY <1>4 DEF Allocate, marks
  <2>2. PICK A \in SUBSET Waiting(c) :
          state' = [b \in Bookings |-> IF b \in A THEN "booked" ELSE state[b]]
    BY <1>4 DEF Allocate
  <2>3. s \in A => state[s] = "info_complete"
    BY <2>2 DEF Waiting
  <2>. QED
    BY <1>0, <1>1, <2>1, <2>2, <2>3 DEF HasClaim
<1>5. CASE edits' = edits + 1
  BY <1>0, <1>5
<1>. QED
  BY <1>2, <1>3, <1>4, <1>5 DEF Next, vars, marks, Join, Withdraw, CloseInitialPeriod

\* Siblings count from when they have a claim or a place until they give it up, for any
\* families and whatever the others do.
THEOREM SiblingsKeepCounting == Spec => SiblingsCountOn
<1>1. ASSUME TypeOK, TypeOK', [Next]_vars, edits' = edits, NEW c \in Camps,
             NEW b \in Waiting(c) \cap Waiting(c)', NEW s \in Siblings(b) \cap Siblings(b)'
      PROVE  s \in CountedSiblings(b)' <=>
                \/ state'[s] = "booked"
                \/ s \in CountedSiblings(b) /\ state'[s] # "cancelled"
  <2>1. /\ s \in Bookings /\ CampOf[s] = CampOf[b]
        /\ entry[s] = "active" /\ entry'[s] = "active"
    BY <1>1 DEF Siblings, OnCamp
  <2>2. s \in CountedSiblings(b) <=>
            state[s] = "booked" \/ (state[s] = "info_complete" /\ HasClaim(s))
    BY <1>1, <2>1 DEF CountedSiblings, HighProbability, Booked, Waiting, OnCamp
  <2>3. s \in CountedSiblings(b)' <=>
            state'[s] = "booked" \/ (state'[s] = "info_complete" /\ HasClaim(s)')
    BY <1>1, <2>1 DEF CountedSiblings, HighProbability, Booked, Waiting, OnCamp
  <2>4. /\ state[s] \in {"info_complete", "booked", "cancelled"}
        /\ state'[s] \in {"info_complete", "booked", "cancelled"}
    BY <1>1, <2>1 DEF TypeOK
  <2>5. /\ HasClaim(s)' <=> HasClaim(s)
        /\ state'[s] = "info_complete" => state[s] = "info_complete"
        /\ state[s] = "cancelled" => state'[s] = "cancelled"
        /\ state[s] = "booked" => state'[s] \in {"booked", "cancelled"}
    BY <1>1, <2>1, GoesOn
  <2>. QED
    BY <2>2, <2>3, <2>4, <2>5
<1>2. TypeOK /\ TypeOK' /\ [Next]_vars =>
        [edits' = edits =>
            \A c \in Camps : \A b \in Waiting(c) \cap Waiting(c)' :
                \A s \in Siblings(b) \cap Siblings(b)' :
                    s \in CountedSiblings(b)' <=>
                        \/ state'[s] = "booked"
                        \/ s \in CountedSiblings(b) /\ state'[s] # "cancelled"]_vars
  BY <1>1
<1>. QED
  BY <1>2, TypeCorrect, PTL DEF Spec, SiblingsCountOn

-----------------------------------------------------------------------------
(* Whoever joins late. *)

\* Without an edit by staff, an entry becomes active only by joining.
LEMMA OnlyJoinActivates ==
  ASSUME TypeOK, [Next]_vars, edits' = edits, NEW b \in Bookings,
         entry[b] # "active", entry'[b] = "active"
  PROVE  Join(b)
<1>0. edits \in Nat /\ entry \in [Bookings -> {"none", "active", "inactive"}]
  BY DEF TypeOK
<1>1. ASSUME NEW z \in Bookings, Join(z) PROVE Join(b)
  <2>1. z = b
    BY <1>0, <1>1 DEF Join
  <2>. QED
    BY <1>1, <2>1
<1>2. ASSUME NEW z \in Bookings, Withdraw(z) \/ Release(z) PROVE FALSE
  BY <1>0, <1>2 DEF Withdraw, Release
<1>3. CASE entry' = entry
  BY <1>3
<1>4. CASE edits' = edits + 1
  BY <1>0, <1>4
<1>. QED
  BY <1>1, <1>2, <1>3, <1>4 DEF Next, vars, queue, Allocate, CloseInitialPeriod

\* A booking that joins when the initial period is over is placed behind everybody
\* who waits for the camp.
LEMMA JoinsBehind ==
  ASSUME TypeOK, TypeOK', NEW b \in Bookings, Join(b), period = "over",
         NEW d \in Waiting(CampOf[b])
  PROVE  /\ d \in Waiting(CampOf[b])' /\ b \in Waiting(CampOf[b])' /\ b # d
         /\ QueuePosition(d)' < QueuePosition(b)'
<1>0. /\ d \in Bookings /\ b # d /\ d \in Entered
      /\ entry \in [Bookings -> {"none", "active", "inactive"}]
      /\ sooner \in [Bookings -> SUBSET Late]
  BY DEF Waiting, OnCamp, Join, TypeOK, LateInOrder, Entered
<1>1. entry' = [entry EXCEPT ![b] = "active"] /\ state' = state /\ state[b] = "info_complete"
  BY DEF Join
<1>2. d \in Waiting(CampOf[b])' /\ b \in Waiting(CampOf[b])'
  BY <1>0, <1>1 DEF Waiting, OnCamp
<1>3. ComesAfter(b, Late \ {b})
  BY DEF Join, Enqueue
<1>4. b \notin early' /\ (d \in early' \/ d \in sooner'[b])
  BY <1>0, <1>3 DEF ComesAfter, Late
<1>5. QueuePosition(d)' < QueuePosition(b)' <=>
         b \notin early' /\ (d \in early' \/ d \in sooner'[b])
  BY <1>0, <1>2, PartsAfter DEF AsTheyEntered, Camps
<1>. QED
  BY <1>0, <1>2, <1>4, <1>5

\* Whoever joins after the initial period comes behind everybody of the same standing
\* who waits, for any number of bookings and camps.
THEOREM JoinsComeBelow == Spec => LateJoinsBelow
<1>1. ASSUME TypeOK, TypeOK', [Next]_vars, period = "over", edits' = edits,
             NEW b \in Bookings, entry[b] # "active", entry'[b] = "active",
             NEW d \in Waiting(CampOf[b]), SameStanding(b, d)
      PROVE  Before(d, b)'
  <2>1. Join(b)
    BY <1>1, OnlyJoinActivates
  <2>2. QueuePosition(d)' < QueuePosition(b)' /\ d \in Bookings
    BY <1>1, <2>1, JoinsBehind DEF Waiting, OnCamp
  <2>3. state' = state /\ officerChild' = officerChild /\ firstTimer' = firstTimer
    BY <2>1 DEF Join, marks
  <2>4. OtherPlaceBooked(b)' <=> OtherPlaceBooked(d)'
    BY <1>1, <2>2, <2>3 DEF OtherPlaceBooked, SameStanding, PlaceElsewhere, Booked, OnCamp
  <2>5. /\ ZeroIf(b \in officerChild)' = ZeroIf(d \in officerChild)'
        /\ ZeroIf(b \in firstTimer)' = ZeroIf(d \in firstTimer)'
        /\ ZeroIf(~OtherPlaceBooked(b))' = ZeroIf(~OtherPlaceBooked(d))'
    BY <1>1, <2>3, <2>4 DEF SameStanding, ZeroIf
  <2>. DEFINE k == RankingKey(d)'
              l == RankingKey(b)'
  <2>6. /\ k \in Keys /\ l \in Keys
        /\ k[1] = l[1] /\ k[2] = l[2] /\ k[3] = l[3] /\ k[4] < l[4]
    BY <1>1, <2>2, <2>5, PartsAfter DEF KeyIs
  <2>7. Smaller(k, l)
    <3>. HIDE DEF k, l
    <3>. QED
      BY <2>6, PartDecides
  <2>. QED
    BY <2>7 DEF Before, Smaller
<1>2. TypeOK /\ TypeOK' /\ [Next]_vars =>
        [period = "over" /\ edits' = edits =>
            \A b \in Bookings : entry[b] # "active" /\ entry'[b] = "active" =>
                \A d \in Waiting(CampOf[b]) : SameStanding(b, d) => Before(d, b)']_vars
  BY <1>1
<1>. QED
  BY <1>2, TypeCorrect, PTL DEF Spec, LateJoinsBelow

-----------------------------------------------------------------------------
(* Strangers. *)

\* What a step leaves to b if it touches nobody whom b's place in the order depends on.
LEMMA StrangersDoNotCount ==
  ASSUME TypeOK, TypeOK', past' = past, NEW b \in Bookings,
         \A z \in Bookings : Concerns(z, b) => ~Touched(z)
  PROVE  /\ ZeroIf(b \in officerChild)' = ZeroIf(b \in officerChild)
         /\ ZeroIf(b \in firstTimer)' = ZeroIf(b \in firstTimer)
         /\ ZeroIf(~OtherPlaceBooked(b))' = ZeroIf(~OtherPlaceBooked(b))
         /\ CountedSiblings(b)' = CountedSiblings(b)
<1>1. \A z \in Bookings : Concerns(z, b) =>
        /\ state'[z] = state[z] /\ entry'[z] = entry[z]
        /\ z \in officerChild' <=> z \in officerChild
        /\ z \in firstTimer' <=> z \in firstTimer
  BY DEF Touched
<1>2. Concerns(b, b)
  BY DEF Concerns
<1>3. OtherPlaceBooked(b)' <=> OtherPlaceBooked(b)
  <2>1. \A z \in Bookings : CamperOf[z] = CamperOf[b] => state'[z] = state[z]
    BY <1>1 DEF Concerns
  <2>. QED
    BY <2>1 DEF OtherPlaceBooked, Booked, OnCamp
<1>4. ASSUME NEW z \in Bookings
      PROVE  z \in CountedSiblings(b)' <=> z \in CountedSiblings(b)
  <2>1. CASE FamilyOf[z] = FamilyOf[b] /\ CampOf[z] = CampOf[b]
    <3>1. /\ state'[z] = state[z] /\ entry'[z] = entry[z]
          /\ z \in officerChild' <=> z \in officerChild
          /\ z \in firstTimer' <=> z \in firstTimer
      BY <1>1, <2>1 DEF Concerns
    <3>2. HasClaim(z)' <=> HasClaim(z)
      BY <3>1 DEF HasClaim
    <3>. QED
      BY <3>1, <3>2 DEF CountedSiblings, Siblings, HighProbability, Booked, Waiting, OnCamp
  <2>2. CASE ~(FamilyOf[z] = FamilyOf[b] /\ CampOf[z] = CampOf[b])
    BY <2>2 DEF CountedSiblings, Siblings, OnCamp
  <2>. QED
    BY <2>1, <2>2
<1>5. CountedSiblings(b)' = CountedSiblings(b)
  <2>1. CountedSiblings(b) \subseteq Bookings /\ CountedSiblings(b)' \subseteq Bookings
    BY DEF CountedSiblings, Siblings, OnCamp
  <2>. QED
    BY <1>4, <2>1
<1>. QED
  BY <1>1, <1>2, <1>3, <1>5 DEF ZeroIf

\* Who comes first of two who wait depends on them, their siblings on the camp, their
\* other places and staff, whatever happens to any number of others.
THEOREM StrangersKeepOrder == Spec => OrderKept
<1>1. ASSUME TypeOK, TypeOK', [Next]_vars, NEW c \in Camps,
             NEW b \in Waiting(c) \cap Waiting(c)', NEW d \in Waiting(c) \cap Waiting(c)', b # d,
             \A z \in Bookings : Concerns(z, b) \/ Concerns(z, d) => ~Touched(z),
             edits' = edits \/ queue' = queue
      PROVE  Before(b, d)' <=> Before(b, d)
  <2>0. /\ b \in Bookings /\ d \in Bookings /\ entry[b] = "active" /\ entry[d] = "active"
        /\ b \in Waiting(c) /\ d \in Waiting(c) /\ b \in Waiting(c)' /\ d \in Waiting(c)'
    BY <1>1 DEF Waiting, OnCamp
  <2>1. past' = past
    BY <1>1, PastStays
  <2>. DEFINE k == RankingKey(b)
              l == RankingKey(d)
              m == RankingKey(b)'
              n == RankingKey(d)'
  <2>2. k \in Keys /\ l \in Keys /\ m \in Keys /\ n \in Keys
    BY <1>1, <2>0, KeyParts, PartsAfter DEF KeyIs
  <2>3. (b \in early)' = (b \in early) /\ (d \in early)' = (d \in early)
        /\ (b \in sooner[d])' = (b \in sooner[d])
    <3>1. CASE edits' = edits
      BY <1>1, <2>0, <3>1, QueueOfOthers
    <3>2. CASE queue' = queue
      BY <3>2 DEF queue
    <3>. QED
      BY <1>1, <3>1, <3>2
  <2>4. (k[4] < l[4] <=> m[4] < n[4]) /\ (k[4] = l[4] <=> m[4] = n[4])
    <3>1. k[4] = QueuePosition(b) /\ l[4] = QueuePosition(d)
      BY <1>1, <2>0, KeyParts DEF KeyIs
    <3>2. m[4] = QueuePosition(b)' /\ n[4] = QueuePosition(d)'
      BY <1>1, <2>0, PartsAfter DEF KeyIs
    <3>3. /\ k[4] < l[4] <=> d \notin early /\ (b \in early \/ b \in sooner[d])
          /\ k[4] = l[4] <=> b \in early /\ d \in early
      BY <1>1, <2>0, <3>1, PositionsCompare DEF AsTheyEntered
    <3>4. /\ m[4] < n[4] <=> (d \notin early /\ (b \in early \/ b \in sooner[d]))'
          /\ m[4] = n[4] <=> (b \in early /\ d \in early)'
      BY <1>1, <2>0, <3>2, PartsAfter DEF AsTheyEntered
    <3>. QED
      BY <2>3, <3>3, <3>4
  <2>5. ASSUME NEW i \in 1..8, i # 4 PROVE k[i] = m[i] /\ l[i] = n[i]
    <3>1. k[i] = m[i]
      <4>1. \A z \in Bookings : Concerns(z, b) => ~Touched(z)
        BY <1>1
      <4>2. KeyIs(b) /\ KeyIs(b)'
        BY <1>1, <2>0, KeyParts, PartsAfter
      <4>. QED
        BY <1>1, <2>0, <2>1, <2>5, <4>1, <4>2, StrangersDoNotCount DEF KeyIs
    <3>2. l[i] = n[i]
      <4>1. \A z \in Bookings : Concerns(z, d) => ~Touched(z)
        BY <1>1
      <4>2. KeyIs(d) /\ KeyIs(d)'
        BY <1>1, <2>0, KeyParts, PartsAfter
      <4>. QED
        BY <1>1, <2>0, <2>1, <2>5, <4>1, <4>2, StrangersDoNotCount DEF KeyIs
    <3>. QED
      BY <3>1, <3>2
  <2>6. Smaller(k, l) <=> Smaller(m, n)
    <3>. HIDE DEF k, l, m, n
    <3>1. \A i \in 1..8 : (k[i] < l[i] <=> m[i] < n[i]) /\ (k[i] = l[i] <=> m[i] = n[i])
      BY <2>4, <2>5
    <3>. QED
      BY <2>2, <3>1, ComparedAlike
  <2>. QED
    BY <2>6 DEF Before, Smaller
<1>2. TypeOK /\ TypeOK' /\ [Next]_vars =>
        [edits' = edits \/ queue' = queue =>
            \A c \in Camps : \A b, d \in Waiting(c) \cap Waiting(c)' :
                b # d /\ (\A z \in {z \in Bookings : Touched(z)} :
                            ~Concerns(z, b) /\ ~Concerns(z, d))
                => (Before(b, d)' <=> Before(b, d))]_vars
  BY <1>1
<1>. QED
  BY <1>2, TypeCorrect, PTL DEF Spec, OrderKept

-----------------------------------------------------------------------------
(* Who is given a place. *)

\* Those who are accepted, of those who wait.
BestFirst(c, A) == A \subseteq Waiting(c) /\ AcceptedInTurn(Ranking(c), A, SexOf, LeftOn(c))

\* Without an edit by staff, places are given by allocation only.
LEMMA OnlyAllocationGives ==
  ASSUME TypeOK, [Next]_vars, edits' = edits, NEW b \in Bookings,
         state[b] = "info_complete", state'[b] = "booked"
  PROVE  \E A \in SUBSET Waiting(CampOf[b]) :
            /\ BestFirst(CampOf[b], A)
            /\ \A d \in Bookings : d \in A => state'[d] = "booked"
            /\ b \in A
<1>0. edits \in Nat /\ state \in [Bookings -> {"info_complete", "booked", "cancelled"}]
  BY DEF TypeOK
<1>1. ASSUME NEW c \in Camps, NEW A \in SUBSET Waiting(c), BestFirst(c, A),
             state' = [x \in Bookings |-> IF x \in A THEN "booked" ELSE state[x]]
      PROVE  b \in A /\ c = CampOf[b]
  BY <1>1 DEF Waiting, OnCamp
<1>2. ASSUME NEW z \in Bookings, Release(z) PROVE FALSE
  BY <1>0, <1>2 DEF Release
<1>3. CASE state' = state
  BY <1>3
<1>4. CASE edits' = edits + 1
  BY <1>0, <1>4
<1>5. CASE \E c \in Camps : Allocate(c)
  BY <1>1, <1>5 DEF Allocate, BestFirst
<1>. QED
  BY <1>2, <1>3, <1>4, <1>5 DEF Next, vars, Join, Withdraw, CloseInitialPeriod

Ahead(A, b) == {a \in A : Before(a, b)}
Fits(c, A, b) ==
  /\ Cardinality(Ahead(A, b)) < LeftOn(c).total
  /\ CountSex(Ahead(A, b), SexOf, SexOf[b]) < LeftOn(c)[SexOf[b]]

LEMMA TakesThoseThatFit ==
  ASSUME NEW c, NEW A
  PROVE  BestFirst(c, A) <=>
            A \subseteq Waiting(c) /\ \A b \in Waiting(c) : b \in A <=> Fits(c, A, b)
<1>1. DOMAIN Ranking(c) = Waiting(c)
  BY DEF Ranking
<1>2. \A b \in Waiting(c) : Ranking(c)[b] = {a \in Waiting(c) : Before(a, b)}
  <2>. DEFINE key == [b \in Waiting(c) |-> RankingKey(b)]
  <2>1. \A a \in Waiting(c) : key[a] = RankingKey(a)
    OBVIOUS
  <2>2. \A b \in Waiting(c) : Ranking(c)[b] = {a \in Waiting(c) : Smaller(key[a], key[b])}
    BY DEF Ranking
  <2>. HIDE DEF key
  <2>. QED
    BY <2>1, <2>2 DEF Before
<1>3. ASSUME A \subseteq Waiting(c), NEW b \in Waiting(c) PROVE A \cap Ranking(c)[b] = Ahead(A, b)
  BY <1>2, <1>3 DEF Ahead
<1>. QED
  BY <1>1, <1>3 DEF BestFirst, AcceptedInTurn, Fits

\* A part of some bookings is no larger, of either sex.
LEMMA CountsGrow ==
  ASSUME NEW T \in SUBSET Bookings, NEW S \in SUBSET T, NEW sex
  PROVE  /\ Cardinality(S) <= Cardinality(T)
         /\ CountSex(S, SexOf, sex) <= CountSex(T, SexOf, sex)
         /\ Cardinality(S) \in Nat /\ Cardinality(T) \in Nat
         /\ CountSex(S, SexOf, sex) \in Nat /\ CountSex(T, SexOf, sex) \in Nat
<1>1. OfSex(S, SexOf, sex) \subseteq OfSex(T, SexOf, sex) /\ OfSex(T, SexOf, sex) \subseteq Bookings
  BY DEF OfSex
<1>2. IsFiniteSet(T) /\ IsFiniteSet(OfSex(T, SexOf, sex))
  BY <1>1, FS_Subset
<1>. QED
  BY <1>1, <1>2, FS_Subset, FS_CardinalityType DEF CountSex

\* The places left are numbers.
LEMMA LeftIsNat ==
  ASSUME NEW c \in Camps
  PROVE  LeftOn(c).total \in Nat /\ \A sex \in Sexes : LeftOn(c)[sex] \in Nat
<1>. DEFINE booked == PlacesBooked(Booked \cap OnCamp(c), SexOf)
<1>1. Booked \cap OnCamp(c) \subseteq Bookings
  BY DEF OnCamp
<1>2. \A sex \in Sexes : CountSex(Booked \cap OnCamp(c), SexOf, sex) \in Nat
  BY <1>1, FS_Subset, FS_CardinalityType DEF CountSex, OfSex
<1>3. MaxPlaces[c].total \in Nat /\ MaxPlaces[c].male \in Nat /\ MaxPlaces[c].female \in Nat
  BY DEF PlacesType
<1>4. booked.total \in Nat /\ booked.male \in Nat /\ booked.female \in Nat
  BY <1>2 DEF PlacesBooked, Sexes
<1>5. \A n \in Int : AtLeastZero(n) \in Nat
  BY DEF AtLeastZero
<1>. HIDE DEF booked
<1>6. /\ PlacesLeft(MaxPlaces[c], booked).total \in Nat
      /\ PlacesLeft(MaxPlaces[c], booked).male \in Nat
      /\ PlacesLeft(MaxPlaces[c], booked).female \in Nat
  BY <1>3, <1>4, <1>5 DEF PlacesLeft
<1>. QED
  BY <1>6 DEF booked, LeftOn, Sexes

\* If a booking was accepted, so was every booking of the same sex that comes before it.
LEMMA AcceptedInOrder ==
  ASSUME TypeOK, NEW c \in Camps, NEW A, BestFirst(c, A), NEW b \in A,
         NEW d \in Waiting(c), Before(d, b), SexOf[d] = SexOf[b]
  PROVE  d \in A
<1>1. /\ A \subseteq Waiting(c) /\ Waiting(c) \subseteq Bookings
      /\ \A x \in Waiting(c) : x \in A <=> Fits(c, A, x)
  BY TakesThoseThatFit DEF Waiting, OnCamp
<1>2. Ahead(A, d) \subseteq Ahead(A, b)
  <2>1. ASSUME NEW a \in A, Before(a, d) PROVE Before(a, b)
    <3>1. RankingKey(a) \in Keys /\ RankingKey(b) \in Keys /\ RankingKey(d) \in Keys
      BY <1>1, KeyParts DEF KeyIs
    <3>. QED
      BY <2>1, <3>1, SmallerTransitive DEF Before
  <2>. QED
    BY <2>1 DEF Ahead
<1>3. SexOf[b] \in Sexes /\ SexOf[d] = SexOf[b]
  BY <1>1
<1>4. /\ Cardinality(Ahead(A, d)) <= Cardinality(Ahead(A, b))
      /\ CountSex(Ahead(A, d), SexOf, SexOf[b]) <= CountSex(Ahead(A, b), SexOf, SexOf[b])
      /\ Cardinality(Ahead(A, b)) \in Nat /\ Cardinality(Ahead(A, d)) \in Nat
      /\ CountSex(Ahead(A, b), SexOf, SexOf[b]) \in Nat
      /\ CountSex(Ahead(A, d), SexOf, SexOf[b]) \in Nat
  <2>1. Ahead(A, b) \subseteq Bookings
    BY <1>1 DEF Ahead
  <2>. QED
    BY <1>2, <2>1, CountsGrow
<1>5. LeftOn(c).total \in Nat /\ LeftOn(c)[SexOf[b]] \in Nat
  BY <1>3, LeftIsNat
<1>. QED
  BY <1>1, <1>3, <1>4, <1>5 DEF Fits

\* Of two campers without a mark, one who has no place on another camp comes before one
\* who has.
LEMMA WithoutPlaceComesBefore ==
  ASSUME TypeOK, NEW b \in Bookings, NEW d \in Bookings, PlaceElsewhere(b), ~PlaceElsewhere(d),
         b \notin officerChild, b \notin firstTimer
  PROVE  Before(d, b)
<1>. DEFINE k == RankingKey(d)
            l == RankingKey(b)
<1>1. OtherPlaceBooked(b) /\ ~OtherPlaceBooked(d)
  BY DEF OtherPlaceBooked, PlaceElsewhere, Booked, OnCamp
<1>2. /\ k \in Keys /\ l \in Keys
      /\ k[1] \in {0, 1} /\ k[2] \in {0, 1} /\ k[3] = 0
      /\ l[1] = 1 /\ l[2] = 1 /\ l[3] = 1
  BY <1>1, KeyParts DEF KeyIs, ZeroIf
<1>3. SUFFICES Smaller(k, l)
  BY DEF Before
<1>. HIDE DEF k, l
<1>4. CASE k[1] = 0
  BY <1>2, <1>4, PartDecides
<1>5. CASE k[1] = 1 /\ k[2] = 0
  BY <1>2, <1>5, PartDecides
<1>6. CASE k[1] = 1 /\ k[2] = 1
  BY <1>2, <1>6, PartDecides
<1>. QED
  BY <1>2, <1>4, <1>5, <1>6

\* Nobody without a mark is given a second place while somebody of the same sex waits in
\* vain for a first one, for any limits and any ranking.
THEOREM FirstPlacesComeFirst == Spec => FirstPlaceFirst
<1>1. ASSUME TypeOK, [Next]_vars, edits' = edits, NEW c \in Camps,
             NEW b \in Waiting(c), NEW d \in Waiting(c),
             state'[b] = "booked", state'[d] # "booked",
             PlaceElsewhere(b), ~PlaceElsewhere(d), SexOf[b] = SexOf[d]
      PROVE  b \in (officerChild \cup firstTimer)
  <2>. SUFFICES ASSUME b \notin officerChild, b \notin firstTimer PROVE FALSE
    OBVIOUS
  <2>1. b \in Bookings /\ d \in Bookings /\ CampOf[b] = c /\ state[b] = "info_complete"
    BY DEF Waiting, OnCamp
  <2>2. PICK A \in SUBSET Waiting(c) :
            /\ BestFirst(c, A)
            /\ \A x \in Bookings : x \in A => state'[x] = "booked"
            /\ b \in A
    BY <1>1, <2>1, OnlyAllocationGives
  <2>3. Before(d, b)
    BY <1>1, <2>1, WithoutPlaceComesBefore
  <2>. QED
    BY <1>1, <2>1, <2>2, <2>3, AcceptedInOrder
<1>2. TypeOK /\ [Next]_vars =>
        [state' # state /\ edits' = edits =>
            \A c \in Camps : \A b, d \in Waiting(c) :
                /\ state'[b] = "booked" /\ state'[d] # "booked"
                /\ PlaceElsewhere(b) /\ ~PlaceElsewhere(d) /\ SexOf[b] = SexOf[d]
                => b \in (officerChild \cup firstTimer)]_vars
  BY <1>1
<1>. QED
  BY <1>2, TypeCorrect, PTL DEF Spec, FirstPlaceFirst

-----------------------------------------------------------------------------
(* Allocation is never in doubt. *)

LEMMA LeastNumber ==
  ASSUME NEW T \in SUBSET Nat, T # {}
  PROVE  \E n \in T : \A k \in T : n <= k
<1>1. PICK n \in T : \A k \in T : <<k, n>> \notin OpToRel(<, Nat)
  BY NatLessThanWellFounded, WFMin
<1>2. \A k \in T : ~(k < n)
  BY <1>1 DEF OpToRel
<1>. QED
  BY <1>2

\* A finite set has a member that none comes before: the one with the fewest before it.
LEMMA FirstOfSet ==
  ASSUME NEW S, IsFiniteSet(S), S # {}, NEW R,
         \A a \in S : <<a, a>> \notin R,
         \A a, b, c \in S : <<a, b>> \in R /\ <<b, c>> \in R => <<a, c>> \in R
  PROVE  \E m \in S : \A a \in S : <<a, m>> \notin R
<1>. DEFINE Below(c) == {a \in S : <<a, c>> \in R}
            below(c) == Cardinality(Below(c))
            N == {below(c) : c \in S}
<1>1. \A c \in S : IsFiniteSet(Below(c)) /\ below(c) \in Nat
  <2>1. \A c \in S : IsFiniteSet(Below(c))
    BY FS_Subset
  <2>. QED
    BY <2>1, FS_CardinalityType
<1>3. PICK m \in S : \A d \in S : below(m) <= below(d)
  <2>. HIDE DEF Below, below
  <2>1. N \in SUBSET Nat /\ N # {} /\ \A d \in S : below(d) \in N
    BY <1>1
  <2>2. PICK n \in N : \A k \in N : n <= k
    BY <2>1, LeastNumber
  <2>. QED
    BY <2>1, <2>2
<1>4. ASSUME NEW a \in S, <<a, m>> \in R PROVE FALSE
  <2>1. Below(a) \subseteq Below(m) /\ a \in Below(m) /\ a \notin Below(a)
    BY <1>4
  <2>2. IsFiniteSet(Below(m)) /\ Cardinality(Below(a)) \in Nat /\ Cardinality(Below(m)) \in Nat
    BY <1>1
  <2>3. Cardinality(Below(m)) <= Cardinality(Below(a))
    BY <1>3
  <2>. HIDE DEF N, Below
  <2>4. Cardinality(Below(a)) < Cardinality(Below(m))
    BY <2>1, <2>2, MissesOne
  <2>. QED
    BY <2>2, <2>3, <2>4
<1>. QED
  BY <1>4

\* Keys with different lottery numbers are never even.
LEMMA SmallerTotal ==
  ASSUME NEW k \in Keys, NEW l \in Keys, k[8] # l[8]
  PROVE  Smaller(k, l) \/ Smaller(l, k)
<1>. DEFINE D == {i \in 1..8 : k[i] # l[i]}
<1>1. PICK i \in D : \A j \in D : i <= j
  <2>1. D \in SUBSET Nat /\ D # {}
    OBVIOUS
  <2>. HIDE DEF D
  <2>. QED
    BY <2>1, LeastNumber
<1>2. i \in 1..8 /\ k[i] # l[i] /\ \A j \in 1..8 : j < i => k[j] = l[j]
  BY <1>1
<1>3. k[i] \in Int /\ l[i] \in Int
  BY <1>2 DEF Keys
<1>4. k[i] < l[i] \/ l[i] < k[i]
  BY <1>2, <1>3
<1>. QED
  BY <1>2, <1>4, PartDecides

\* The ranking is a strict and total order.
LEMMA BeforeIsOrder ==
  ASSUME TypeOK
  PROVE  /\ \A a, b \in Bookings : Before(a, b) => ~Before(b, a)
         /\ \A a, b, c \in Bookings : Before(a, b) /\ Before(b, c) => Before(a, c)
         /\ \A a, b \in Bookings : a # b => Before(a, b) \/ Before(b, a)
<1>1. \A a \in Bookings : RankingKey(a) \in Keys /\ RankingKey(a)[8] = Tiebreaker[a]
  BY KeyParts DEF KeyIs
<1>2. ASSUME NEW a \in Bookings, NEW b \in Bookings
      PROVE  /\ Before(a, b) => ~Before(b, a)
             /\ a # b => Before(a, b) \/ Before(b, a)
  BY <1>1, SmallerIsStrict, SmallerTotal DEF Before
<1>3. ASSUME NEW a \in Bookings, NEW b \in Bookings, NEW c \in Bookings,
             Before(a, b), Before(b, c)
      PROVE  Before(a, c)
  BY <1>1, <1>3, SmallerTransitive DEF Before
<1>. QED
  BY <1>2, <1>3

\* Of some bookings one is the best, and one the worst.
LEMMA BestAndWorst ==
  ASSUME TypeOK, NEW S \in SUBSET Bookings, S # {}
  PROVE  /\ \E m \in S : \A a \in S \ {m} : Before(m, a)
         /\ \E m \in S : \A a \in S \ {m} : Before(a, m)
<1>0. IsFiniteSet(S)
  BY FS_Subset
<1>. DEFINE R == {p \in S \X S : Before(p[1], p[2])}
            Q == {p \in S \X S : Before(p[2], p[1])}
<1>1. \A a, b \in S : (<<a, b>> \in R <=> Before(a, b)) /\ (<<a, b>> \in Q <=> Before(b, a))
  OBVIOUS
<1>. HIDE DEF R, Q
<1>2. \E m \in S : \A a \in S : <<a, m>> \notin R
  <2>1. /\ \A a \in S : <<a, a>> \notin R
        /\ \A a, b, c \in S : <<a, b>> \in R /\ <<b, c>> \in R => <<a, c>> \in R
    BY <1>1, BeforeIsOrder
  <2>. QED
    BY <1>0, <2>1, FirstOfSet
<1>3. \E m \in S : \A a \in S : <<a, m>> \notin Q
  <2>1. /\ \A a \in S : <<a, a>> \notin Q
        /\ \A a, b, c \in S : <<a, b>> \in Q /\ <<b, c>> \in Q => <<a, c>> \in Q
    BY <1>1, BeforeIsOrder
  <2>. QED
    BY <1>0, <2>1, FirstOfSet
<1>. QED
  BY <1>1, <1>2, <1>3, BeforeIsOrder

\* The best of those who are treated differently would have to be treated alike.
LEMMA AllocationUnique ==
  ASSUME TypeOK, NEW c \in Camps, NEW A, NEW B, BestFirst(c, A), BestFirst(c, B)
  PROVE  A = B
<1>1. /\ A \subseteq Waiting(c) /\ B \subseteq Waiting(c) /\ Waiting(c) \subseteq Bookings
      /\ \A b \in Waiting(c) : (b \in A <=> Fits(c, A, b)) /\ (b \in B <=> Fits(c, B, b))
  BY TakesThoseThatFit DEF Waiting, OnCamp
<1>2. SUFFICES ASSUME A # B PROVE FALSE
  OBVIOUS
<1>. DEFINE S == (A \ B) \cup (B \ A)
<1>3. PICK m \in S : \A a \in S \ {m} : Before(m, a)
  <2>1. S \in SUBSET Bookings /\ S # {}
    BY <1>1, <1>2
  <2>. QED
    BY <2>1, BestAndWorst
<1>4. Ahead(A, m) = Ahead(B, m)
  <2>1. ASSUME NEW a \in A \cup B, Before(a, m) PROVE a \in A /\ a \in B
    BY <1>1, <1>3, <2>1, BeforeIsOrder
  <2>. QED
    BY <2>1 DEF Ahead
<1>5. Fits(c, A, m) <=> Fits(c, B, m)
  BY <1>4 DEF Fits
<1>. QED
  BY <1>1, <1>3, <1>5

\* What the loop has accepted from the best of those who wait.
Processed(c, D, A) ==
  /\ D \subseteq Waiting(c) /\ A \subseteq D
  /\ \A b \in D : \A a \in Waiting(c) : Before(a, b) => a \in D
  /\ \A b \in D : b \in A <=> Fits(c, A, b)

\* One more booking.
LEMMA ProcessesNext ==
  ASSUME TypeOK, NEW c \in Camps, NEW D, NEW A, Processed(c, D, A), D # Waiting(c)
  PROVE  \E x \in Waiting(c) \ D : \E B : Processed(c, D \cup {x}, B)
<1>1. /\ D \subseteq Waiting(c) /\ A \subseteq D /\ Waiting(c) \subseteq Bookings
      /\ \A b \in D : \A a \in Waiting(c) : Before(a, b) => a \in D
      /\ \A b \in D : b \in A <=> Fits(c, A, b)
  BY DEF Processed, Waiting, OnCamp
<1>2. PICK x \in Waiting(c) \ D : \A a \in (Waiting(c) \ D) \ {x} : Before(x, a)
  <2>1. Waiting(c) \ D \in SUBSET Bookings /\ Waiting(c) \ D # {}
    BY <1>1
  <2>. QED
    BY <2>1, BestAndWorst
<1>. DEFINE B == IF Fits(c, A, x) THEN A \cup {x} ELSE A
<1>3. ASSUME NEW b \in D \cup {x} PROVE Ahead(B, b) = Ahead(A, b)
  <2>1. ~Before(x, b)
    BY <1>1, <1>2, <1>3, BeforeIsOrder
  <2>. QED
    BY <2>1 DEF Ahead
<1>4. ASSUME NEW b \in D \cup {x} PROVE b \in B <=> Fits(c, B, b)
  <2>1. Fits(c, B, b) <=> Fits(c, A, b)
    BY <1>3 DEF Fits
  <2>2. CASE b = x
    BY <1>1, <1>2, <2>1, <2>2
  <2>3. CASE b # x
    BY <1>1, <2>1, <2>3, <1>4
  <2>. QED
    BY <2>2, <2>3
<1>5. ASSUME NEW b \in D \cup {x}, NEW a \in Waiting(c), Before(a, b) PROVE a \in D \cup {x}
  BY <1>1, <1>2, <1>5, BeforeIsOrder
<1>6. B \subseteq D \cup {x}
  BY <1>1
<1>. HIDE DEF B
<1>7. Processed(c, D \cup {x}, B)
  BY <1>1, <1>2, <1>4, <1>5, <1>6 DEF Processed
<1>. QED
  BY <1>7

\* The loop comes to an end: what it cannot go beyond is everybody.
LEMMA AllocationExists ==
  ASSUME TypeOK, NEW c \in Camps
  PROVE  \E A : BestFirst(c, A)
<1>. DEFINE Stages == {D \in SUBSET Waiting(c) : \E A : Processed(c, D, A)}
            R == {p \in Stages \X Stages : p[2] \subseteq p[1] /\ p[1] # p[2]}
<1>1. IsFiniteSet(Waiting(c))
  BY FS_Subset DEF Waiting, OnCamp
<1>2. IsFiniteSet(Stages)
  BY <1>1, FS_SUBSET, FS_Subset
<1>3. {} \in Stages
  <2>1. Processed(c, {}, {})
    BY DEF Processed
  <2>. QED
    BY <2>1
<1>4. \A C, D \in Stages : <<C, D>> \in R <=> D \subseteq C /\ C # D
  OBVIOUS
<1>5. PICK D \in Stages : \A C \in Stages : <<C, D>> \notin R
  <2>1. /\ \A C \in Stages : <<C, C>> \notin R
        /\ \A C, D, E \in Stages : <<C, D>> \in R /\ <<D, E>> \in R => <<C, E>> \in R
    BY <1>4
  <2>2. Stages # {}
    BY <1>3
  <2>. HIDE DEF Stages, R
  <2>. QED
    BY <1>2, <2>1, <2>2, FirstOfSet
<1>6. PICK A : Processed(c, D, A)
  OBVIOUS
<1>7. CASE D # Waiting(c)
  <2>1. PICK x \in Waiting(c) \ D : \E B : Processed(c, D \cup {x}, B)
    BY <1>6, <1>7, ProcessesNext
  <2>2. D \cup {x} \in Stages /\ x \notin D
    BY <2>1
  <2>. HIDE DEF Stages, R
  <2>. DEFINE C == D \cup {x}
  <2>a. D \subseteq C /\ C # D
    BY <2>2
  <2>3. <<C, D>> \in R
    <3>. HIDE DEF C
    <3>1. C \in Stages
      BY <2>2 DEF C
    <3>. QED
      BY <1>4, <2>a, <3>1
  <2>. QED
    BY <1>5, <2>2, <2>3
<1>8. CASE D = Waiting(c)
  BY <1>6, <1>8, TakesThoseThatFit DEF Processed
<1>. QED
  BY <1>7, <1>8

\* The last one accepted found a place, so that all of them fit; whoever was passed over
\* found those ahead in all the places.
LEMMA BestFirstIsCutoff ==
  ASSUME TypeOK, NEW c \in Camps, NEW A, BestFirst(c, A)
  PROVE  IsCutoff(Waiting(c), A, SexOf, LeftOn(c))
<1>1. /\ A \subseteq Waiting(c) /\ A \subseteq Bookings /\ Waiting(c) \subseteq Bookings
      /\ \A b \in Waiting(c) : b \in A <=> Fits(c, A, b)
  BY TakesThoseThatFit DEF Waiting, OnCamp
<1>2. LeftOn(c).total \in Nat /\ \A sex \in Sexes : LeftOn(c)[sex] \in Nat
  BY LeftIsNat
<1>3. \A b \in Bookings : Ahead(A, b) \in SUBSET A
  BY DEF Ahead
<1>4. Cardinality(A) <= LeftOn(c).total
  <2>1. CASE A = {}
    BY <1>2, <2>1, FS_EmptySet
  <2>2. CASE A # {}
    <3>1. PICK m \in A : \A a \in A \ {m} : Before(a, m)
      BY <1>1, <2>2, BestAndWorst
    <3>2. A \ {m} \subseteq Ahead(A, m) /\ m \in Bookings
      BY <1>1, <3>1 DEF Ahead
    <3>3. /\ IsFiniteSet(A) /\ Cardinality(A) \in Nat
          /\ Cardinality(A \ {m}) = Cardinality(A) - 1
      BY <1>1, FS_Subset, FS_RemoveElement, FS_CardinalityType
    <3>4. Cardinality(A \ {m}) <= Cardinality(Ahead(A, m)) /\ Cardinality(Ahead(A, m)) \in Nat
      <4>1. Ahead(A, m) \in SUBSET Bookings /\ A \ {m} \in SUBSET Ahead(A, m)
        BY <1>1, <1>3, <3>2
      <4>. QED
        BY <4>1, CountsGrow
    <3>5. Cardinality(Ahead(A, m)) < LeftOn(c).total
      BY <1>1, <3>1 DEF Fits
    <3>. QED
      BY <1>2, <3>3, <3>4, <3>5
  <2>. QED
    BY <2>1, <2>2
<1>5. ASSUME NEW sex \in Sexes PROVE CountSex(A, SexOf, sex) <= LeftOn(c)[sex]
  <2>. DEFINE S == OfSex(A, SexOf, sex)
  <2>0. S \subseteq A /\ \A a \in S : SexOf[a] = sex
    BY DEF OfSex
  <2>1. CASE S = {}
    BY <1>2, <2>1, FS_EmptySet DEF CountSex
  <2>2. CASE S # {}
    <3>1. PICK m \in S : \A a \in S \ {m} : Before(a, m)
      <4>1. S \in SUBSET Bookings
        BY <1>1, <2>0
      <4>. HIDE DEF S
      <4>. QED
        BY <2>2, <4>1, BestAndWorst
    <3>2. S \ {m} \subseteq OfSex(Ahead(A, m), SexOf, sex) /\ m \in A /\ SexOf[m] = sex
      BY <3>1 DEF Ahead, OfSex
    <3>3. /\ IsFiniteSet(S) /\ Cardinality(S) \in Nat
          /\ Cardinality(S \ {m}) = Cardinality(S) - 1
      <4>1. IsFiniteSet(S)
        BY <1>1, <2>0, FS_Subset
      <4>. HIDE DEF S
      <4>. QED
        BY <4>1, FS_RemoveElement, FS_CardinalityType
    <3>4. /\ Cardinality(S \ {m}) <= CountSex(Ahead(A, m), SexOf, sex)
          /\ CountSex(Ahead(A, m), SexOf, sex) \in Nat
      <4>1. IsFiniteSet(OfSex(Ahead(A, m), SexOf, sex))
        BY <1>1, FS_Subset DEF OfSex, Ahead
      <4>. HIDE DEF S
      <4>. QED
        BY <3>2, <4>1, FS_Subset, FS_CardinalityType DEF CountSex
    <3>5. CountSex(Ahead(A, m), SexOf, sex) < LeftOn(c)[sex]
      BY <1>1, <3>2 DEF Fits
    <3>6. CountSex(A, SexOf, sex) = Cardinality(S) /\ LeftOn(c)[sex] \in Nat
      BY <1>2 DEF CountSex
    <3>. HIDE DEF S
    <3>. QED
      BY <3>3, <3>4, <3>5, <3>6
  <2>. QED
    BY <2>1, <2>2
<1>6. ASSUME NEW b \in Waiting(c) \ A
      PROVE  \/ Cardinality(A) >= LeftOn(c).total
             \/ CountSex(A, SexOf, SexOf[b]) >= LeftOn(c)[SexOf[b]]
  <2>1. ~Fits(c, A, b) /\ b \in Bookings /\ SexOf[b] \in Sexes
    BY <1>1
  <2>2. /\ Cardinality(Ahead(A, b)) <= Cardinality(A)
        /\ CountSex(Ahead(A, b), SexOf, SexOf[b]) <= CountSex(A, SexOf, SexOf[b])
        /\ Cardinality(Ahead(A, b)) \in Nat /\ Cardinality(A) \in Nat
        /\ CountSex(Ahead(A, b), SexOf, SexOf[b]) \in Nat
        /\ CountSex(A, SexOf, SexOf[b]) \in Nat
    BY <1>1, <1>3, <2>1, CountsGrow
  <2>3. LeftOn(c)[SexOf[b]] \in Nat
    BY <1>2, <2>1
  <2>. QED
    BY <1>2, <2>1, <2>2, <2>3 DEF Fits
<1>. QED
  BY <1>1, <1>4, <1>5, <1>6 DEF IsCutoff

\* In every state there is one allocation for each camp, and it is one that BookingQueue
\* allows: the leaders never see a ranking without an outcome, or with two.
THEOREM RankingDecides == Spec => []AllocationDecided
<1>1. ASSUME TypeOK, NEW c \in Camps
      PROVE  \E A \in SUBSET Waiting(c) :
                /\ BestFirst(c, A)
                /\ \A B \in SUBSET Waiting(c) : BestFirst(c, B) => B = A
                /\ IsCutoff(Waiting(c), A, SexOf, LeftOn(c))
  <2>1. PICK A : BestFirst(c, A)
    BY <1>1, AllocationExists
  <2>2. A \in SUBSET Waiting(c)
    BY <2>1, TakesThoseThatFit
  <2>3. \A B \in SUBSET Waiting(c) : BestFirst(c, B) => B = A
    BY <1>1, <2>1, AllocationUnique
  <2>4. IsCutoff(Waiting(c), A, SexOf, LeftOn(c))
    BY <1>1, <2>1, BestFirstIsCutoff
  <2>. QED
    BY <2>1, <2>2, <2>3, <2>4
<1>2. TypeOK => AllocationDecided
  BY <1>1 DEF AllocationDecided, BestFirst
<1>. QED
  BY <1>2, TypeCorrect, PTL

=============================================================================
