---------------------- MODULE OfficerApplications_proofs ----------------------
(***************************************************************************)
(* What module OfficerApplications keeps for any camps and any calendar.   *)
(***************************************************************************)
EXTENDS OfficerApplications, FiniteSetTheorems, WellFoundedInduction, TLAPS

USE OfficerApplicationsAssumption

-----------------------------------------------------------------------------
(* The calendar. *)

\* A set of numbers with an element has a least one.
LEMMA LeastNumber ==
  ASSUME NEW T \in SUBSET Nat, T # {}
  PROVE  \E n \in T : \A k \in T : n <= k
<1>1. PICK n \in T : \A k \in T : <<k, n>> \notin OpToRel(<, Nat)
  BY NatLessThanWellFounded, WFMin
<1>2. \A k \in T : ~(k < n)
  BY <1>1 DEF OpToRel
<1>. QED
  BY <1>2

\* A function to the integers takes a greatest value on a finite set: where the fewest
\* values lie above it.
LEMMA Greatest ==
  ASSUME NEW S, IsFiniteSet(S), S # {}, NEW f \in [S -> Int]
  PROVE  \E c \in S : \A d \in S : f[d] <= f[c]
<1>. DEFINE Above(c) == {d \in S : f[d] > f[c]}
            N == {Cardinality(Above(c)) : c \in S}
<1>1. \A c \in S : IsFiniteSet(Above(c)) /\ Cardinality(Above(c)) \in Nat
  <2>1. \A c \in S : IsFiniteSet(Above(c))
    BY FS_Subset
  <2>. QED
    BY <2>1, FS_CardinalityType
<1>2. N \in SUBSET Nat /\ N # {}
  BY <1>1
<1>3. PICK c \in S : \A d \in S : Cardinality(Above(c)) <= Cardinality(Above(d))
  <2>1. PICK n \in N : \A k \in N : n <= k
    BY <1>2, LeastNumber
  <2>2. PICK c \in S : n = Cardinality(Above(c))
    BY <2>1
  <2>3. \A d \in S : Cardinality(Above(d)) \in N
    OBVIOUS
  <2>. HIDE DEF N, Above
  <2>. QED
    BY <2>1, <2>2, <2>3
<1>4. ASSUME NEW d \in S, f[d] > f[c] PROVE FALSE
  <2>0. \A e \in S : f[e] \in Int
    OBVIOUS
  <2>1. Above(d) \subseteq Above(c) /\ d \in Above(c) /\ d \notin Above(d)
    BY <1>4, <2>0
  <2>2. IsFiniteSet(Above(c)) /\ Cardinality(Above(c)) \in Nat /\ Cardinality(Above(d)) \in Nat
    BY <1>1
  <2>3. Cardinality(Above(c)) <= Cardinality(Above(d))
    BY <1>3
  <2>. HIDE DEF N, Above
  <2>4. Cardinality(Above(d)) <= Cardinality(Above(c)) /\ Cardinality(Above(d)) # Cardinality(Above(c))
    BY <2>1, <2>2, FS_Subset
  <2>. QED
    BY <2>2, <2>3, <2>4
<1>. QED
  <2>1. \A d \in S : f[d] \in Int
    OBVIOUS
  <2>. QED
    BY <1>4, <2>1

LEMMA MaxIs ==
  ASSUME NEW S \in SUBSET Int, NEW m \in S, \A x \in S : m >= x
  PROVE  Max(S) = m
<1>1. Max(S) \in S /\ \A x \in S : Max(S) >= x
  BY DEF Max
<1>. DEFINE n == Max(S)
<1>2. n \in S /\ n >= m /\ m >= n
  BY <1>1
<1>. HIDE DEF n
<1>3. n \in Int /\ m \in Int
  BY <1>2
<1>4. n = m
  BY <1>2, <1>3
<1>. QED
  BY <1>4 DEF n

LEMMA MinIs ==
  ASSUME NEW S \in SUBSET Int, NEW m \in S, \A x \in S : m <= x
  PROVE  Min(S) = m
<1>1. Min(S) \in S /\ \A x \in S : Min(S) <= x
  BY DEF Min
<1>. DEFINE n == Min(S)
<1>2. n \in S /\ n <= m /\ m <= n
  BY <1>1
<1>. HIDE DEF n
<1>3. n \in Int /\ m \in Int
  BY <1>2
<1>4. n = m
  BY <1>2, <1>3
<1>. QED
  BY <1>4 DEF n

\* Of camps that are known there is one that ends last, and one that starts first.
LEMMA LastCamp ==
  ASSUME NEW cs \in SUBSET Camps, cs # {}
  PROVE  \E c \in cs : c.end = LastEnd(cs) /\ \A d \in cs : d.end <= c.end
<1>. DEFINE f == [c \in cs |-> c.end]
            Ends == {d.end : d \in cs}
<1>1. f \in [cs -> Int] /\ IsFiniteSet(cs)
  BY FS_Subset
<1>2. PICK c \in cs : \A d \in cs : f[d] <= f[c]
  BY <1>1, Greatest
<1>3. \A d \in cs : d.end <= c.end
  BY <1>2
<1>4. c.end \in Ends /\ \A x \in Ends : c.end >= x
  BY <1>3
<1>5. Ends \subseteq Int
  OBVIOUS
<1>6. Max(Ends) = c.end
  <2>. HIDE DEF Ends, f
  <2>. QED
    BY <1>4, <1>5, MaxIs
<1>. QED
  BY <1>3, <1>6 DEF LastEnd

LEMMA FirstCamp ==
  ASSUME NEW cs \in SUBSET Camps, cs # {}
  PROVE  \E c \in cs : c.start = FirstStart(cs) /\ \A d \in cs : c.start <= d.start
<1>. DEFINE f == [c \in cs |-> - c.start]
            Starts == {d.start : d \in cs}
<1>1. f \in [cs -> Int] /\ IsFiniteSet(cs)
  BY FS_Subset
<1>2. PICK c \in cs : \A d \in cs : f[d] <= f[c]
  BY <1>1, Greatest
<1>3. \A d \in cs : c.start <= d.start
  BY <1>2
<1>4. c.start \in Starts /\ \A x \in Starts : c.start <= x
  BY <1>3
<1>5. Starts \subseteq Int
  OBVIOUS
<1>6. Min(Starts) = c.start
  <2>. HIDE DEF Starts, f
  <2>. QED
    BY <1>4, <1>5, MinIs
<1>. QED
  BY <1>3, <1>6 DEF FirstStart

\* The year of the site follows from the camp that ends last.
LEMMA ThisYearIs ==
  ASSUME camps \in SUBSET Camps, camps # {}
  PROVE  \E c \in camps : /\ \A d \in camps : d.end <= c.end
                          /\ ThisYear = IF c.end + Grace <= day THEN c.year + 1 ELSE c.year
<1>1. \E d \in camps : d.end = LastEnd(camps) /\ \A e \in camps : e.end <= d.end
  BY LastCamp
<1>. DEFINE last == CHOOSE d \in camps : d.end = LastEnd(camps)
<1>2. last \in camps /\ last.end = LastEnd(camps)
  BY <1>1
<1>3. \A e \in camps : e.end <= last.end
  BY <1>1, <1>2
<1>4. ThisYear = IF last.end + Grace <= day THEN last.year + 1 ELSE last.year
  BY DEF ThisYear
<1>. HIDE DEF last
<1>. QED
  BY <1>2, <1>3, <1>4

\* The year of the site is a year.
LEMMA ThisYearTyped ==
  ASSUME camps \in SUBSET Camps, camps # {}
  PROVE  ThisYear \in Int
  BY ThisYearIs

-----------------------------------------------------------------------------
(* Types. *)

\* A form that is there is a form, and a finished one has been saved.
LEMMA FormTyped ==
  ASSUME TypeOK, NEW a \in Forms
  PROVE  /\ Exists(a) => apps[a] \in Form
         /\ Finished(a) => Exists(a) /\ Saved(a)
         /\ NoForm \notin Form
<1>1. NoForm \notin Form
  BY DEF NoForm, Form, Days, Never
<1>2. apps[a] \in Form \/ apps[a] = NoForm
  BY DEF TypeOK
<1>3. Exists(a) => apps[a] \in Form
  BY <1>2 DEF Exists
<1>4. ASSUME Finished(a)
      PROVE  Exists(a) /\ Saved(a)
  <2>1. NoForm.finished = FALSE
    BY DEF NoForm
  <2>2. Exists(a)
    BY <1>4, <2>1 DEF Finished, Exists
  <2>3. apps[a] \in [saved : Days, finished : BOOLEAN] \/ apps[a] \in [saved : {Never}, finished : {FALSE}]
    BY <1>3, <2>2 DEF Form
  <2>4. apps[a] \in [saved : Days, finished : BOOLEAN]
    BY <1>4, <2>3 DEF Finished
  <2>. QED
    BY <2>2, <2>4 DEF Saved
<1>. QED
  BY <1>1, <1>3, <1>4

\* Saving a form leaves forms.
LEMMA SaveTyped ==
  ASSUME TypeOK, NEW a \in Forms, NEW finished \in BOOLEAN, NEW leader, NEW own,
         Save(a, finished, leader, own)
  PROVE  TypeOK'
<1>. USE DEF TypeOK
<1>. DEFINE s == IF Finished(a) THEN apps[a].saved ELSE day
            cleared == IF finished /\ own THEN ClearedOut(a, s) ELSE {}
<1>1. s \in Days
  BY FormTyped DEF Saved
<1>2. [saved |-> s, finished |-> finished] \in Form
  BY <1>1 DEF Form
<1>3. apps' = [b \in Forms |-> IF b = a THEN [saved |-> s, finished |-> finished]
                               ELSE IF b \in cleared THEN NoForm ELSE apps[b]]
  BY DEF Save
<1>. HIDE DEF s, cleared
<1>4. apps' \in [Forms -> Form \cup {NoForm}]
  BY <1>2, <1>3
<1>. QED
  BY <1>4 DEF Save

\* Every step keeps the types.
LEMMA TypeInductive ==
  ASSUME TypeOK, [Next]_vars
  PROVE  TypeOK'
<1>. USE DEF TypeOK
<1>1. CASE Tomorrow
  BY <1>1 DEF Tomorrow, Days
<1>2. CASE RenewYear
  BY <1>2, ThisYearTyped DEF RenewYear
<1>3. CASE New
  <2>1. [saved |-> Never, finished |-> FALSE] \in Form
    BY DEF Form
  <2>. QED
    BY <1>3, <2>1 DEF New
<1>4. ASSUME NEW c \in Camps, AddCamp(c) PROVE TypeOK'
  BY <1>4 DEF AddCamp
<1>5. ASSUME NEW a \in Forms, NEW finished \in BOOLEAN,
             OfficerSaves(a, finished) \/ LeaderSaves(a, finished)
      PROVE  TypeOK'
  BY <1>5, SaveTyped DEF OfficerSaves, LeaderSaves
<1>6. CASE UNCHANGED vars
  BY <1>6 DEF vars
<1>. QED
  BY <1>1, <1>2, <1>3, <1>4, <1>5, <1>6 DEF Next

\* Type correctness, for any camps that are entered in any order: among others, the
\* year of the site is always one.
THEOREM TypeCorrect == Spec => []TypeOK
<1>1. Init => TypeOK
  <2>1. FirstDay \in Days
    BY DEF Days
  <2>. QED
    BY <2>1, ThisYearTyped DEF Init, TypeOK
<1>. QED
  BY <1>1, TypeInductive, PTL DEF Spec

-----------------------------------------------------------------------------
(* What becomes of forms. *)

\* Saving the form a changes a submitted form for those who manage forms only, and
\* throws drafts away only that are older than it.
LEMMA SaveLosesNothing ==
  ASSUME TypeOK, NEW b \in Forms, NEW finished \in BOOLEAN, NEW leader \in BOOLEAN, NEW own,
         Save(b, finished, leader, own),
         NEW a \in Existing, Saved(a), apps'[a] # apps[a]
  PROVE  IF Finished(a)
         THEN a = b /\ apps'[a].saved = apps[a].saved /\ leader
         ELSE \/ apps'[a].saved = day
              \/ apps'[b] # NoForm /\ apps'[b].finished /\ apps'[b].saved > apps[a].saved
<1>. DEFINE s == IF Finished(b) THEN apps[b].saved ELSE day
            cleared == IF finished /\ own THEN ClearedOut(b, s) ELSE {}
<1>0. a \in Forms
  BY DEF Existing
<1>1. apps' = [c \in Forms |-> IF c = b THEN [saved |-> s, finished |-> finished]
                               ELSE IF c \in cleared THEN NoForm ELSE apps[c]]
  BY DEF Save
<1>2. apps'[b].saved = s /\ apps'[b].finished = finished
  BY <1>1
<1>3. CASE a = b
  BY <1>2, <1>3 DEF Save, Accepts
<1>4. CASE a # b
  <2>1. a \in ClearedOut(b, s) /\ finished
    BY <1>0, <1>1, <1>4
  <2>2. ~Finished(a) /\ apps[a].saved < s
    BY <2>1 DEF ClearedOut
  <2>3. apps[a].saved \in Int /\ s \in Days /\ s \in Int
    BY <1>0, FormTyped DEF TypeOK, Saved, Days
  <2>4. apps'[b] # NoForm
    BY <1>2, <2>3 DEF NoForm, Never, Days
  <2>. HIDE DEF s
  <2>. QED
    BY <1>2, <2>1, <2>2, <2>3, <2>4
<1>. QED
  BY <1>3, <1>4

\* A submitted form stays what and when it was, unless somebody who manages forms opens
\* it again, and a draft is thrown away only for a form saved after it (clean,
\* clear_out_old_unfinished).
THEOREM NothingGetsLost == Spec => NothingLost
<1>1. TypeOK /\ [Next]_vars =>
        [\A a \in Existing : Saved(a) /\ apps'[a] # apps[a] =>
            IF Finished(a)
            THEN apps'[a].saved = apps[a].saved
                 /\ \E f \in BOOLEAN : LeaderSaves(a, f) \/ (OfficerLeads /\ OfficerSaves(a, f))
            ELSE \/ apps'[a].saved = day
                 \/ \E b \in Forms :
                        apps'[b] # NoForm /\ apps'[b].finished /\ apps'[b].saved > apps[a].saved]_vars
  <2>. SUFFICES ASSUME TypeOK, [Next]_vars, NEW a \in Existing, Saved(a), apps'[a] # apps[a]
                PROVE  IF Finished(a)
                       THEN apps'[a].saved = apps[a].saved
                            /\ \E f \in BOOLEAN : LeaderSaves(a, f) \/ (OfficerLeads /\ OfficerSaves(a, f))
                       ELSE \/ apps'[a].saved = day
                            \/ \E b \in Forms : apps'[b] # NoForm /\ apps'[b].finished
                                                /\ apps'[b].saved > apps[a].saved
    OBVIOUS
  <2>1. PICK b \in Forms, f \in BOOLEAN : OfficerSaves(b, f) \/ LeaderSaves(b, f)
    BY DEF Next, vars, Tomorrow, RenewYear, New, AddCamp, Existing, TypeOK
  <2>2. CASE OfficerSaves(b, f)
    BY <2>2, SaveLosesNothing DEF OfficerSaves
  <2>3. CASE LeaderSaves(b, f)
    BY <2>3, SaveLosesNothing DEF LeaderSaves
  <2>. QED
    BY <2>1, <2>2, <2>3
<1>2. Init => TypeOK
  <2>1. FirstDay \in Days
    BY DEF Days
  <2>. QED
    BY <2>1, ThisYearTyped DEF Init, TypeOK
<1>. QED
  BY <1>1, <1>2, TypeInductive, PTL DEF Spec, NothingLost

-----------------------------------------------------------------------------
(* Second forms. Forms are told apart by their dates only, and the check at *)
(* a save looks at the dates of the other forms as they are then.           *)

\* The numbers in camps, for the provers.
LEMMA CampTyped ==
  ASSUME NEW c \in Camps
  PROVE  c.year \in Int /\ c.start \in Int /\ c.end \in Int /\ c.start <= c.end
  OBVIOUS

\* What leaders look for in the year of the site, the check of a form looks for too.
LEMMA CountedIsThisYears ==
  ASSUME TypeOK, NEW a \in Forms, CountsFor(a, site)
  PROVE  a \in Existing /\ IsThisYears(a)
<1>1. Saved(a) /\ Finished(a) /\ apps[a].saved \in Int
  BY DEF CountsFor, Saved, Days
<1>2. CampsOf(site) # {} /\ CampsOf(site) \in SUBSET Camps
  BY DEF CountsFor, CampsOf, TypeOK
<1>3. FirstStart(CampsOf(site)) \in Int
  BY <1>2, FirstCamp, CampTyped
<1>4. apps[a].saved >= FirstStart(CampsOf(site)) - Year
  BY <1>1, <1>3 DEF CountsFor
<1>5. a \in Existing
  BY <1>1, FormTyped DEF Existing
<1>. QED
  BY <1>1, <1>2, <1>4, <1>5 DEF CountsFor, IsThisYears

\* The forms that are saved after a step were so before it, but for the one it saves.
LEMMA SavedBefore ==
  ASSUME TypeOK, [Next]_vars, NEW a \in Forms, Saved(a)', apps'[a] # apps[a]
  PROVE  \E finished \in BOOLEAN, leader \in BOOLEAN, own \in BOOLEAN :
            /\ Save(a, finished, leader, own)
            /\ apps'[a] = [saved |-> IF Finished(a) THEN apps[a].saved ELSE day, finished |-> finished]
<1>1. CASE New
  <2>1. PICK b \in Forms : apps' = [apps EXCEPT ![b] = [saved |-> Never, finished |-> FALSE]]
    BY <1>1 DEF New
  <2>2. apps'[a].saved = Never
    BY <2>1 DEF TypeOK
  <2>. QED
    BY <2>2 DEF Saved, Never, Days
<1>2. ASSUME NEW b \in Forms, NEW finished \in BOOLEAN, NEW leader \in BOOLEAN, NEW own \in BOOLEAN,
             Save(b, finished, leader, own)
      PROVE  a = b /\ apps'[a] = [saved |-> IF Finished(a) THEN apps[a].saved ELSE day,
                                  finished |-> finished]
  <2>. DEFINE s == IF Finished(b) THEN apps[b].saved ELSE day
              cleared == IF finished /\ own THEN ClearedOut(b, s) ELSE {}
  <2>1. apps' = [c \in Forms |-> IF c = b THEN [saved |-> s, finished |-> finished]
                                 ELSE IF c \in cleared THEN NoForm ELSE apps[c]]
    BY <1>2 DEF Save
  <2>2. NoForm.saved \notin Days
    BY DEF NoForm, Never, Days
  <2>. HIDE DEF cleared
  <2>3. a = b
    BY <2>1, <2>2 DEF Saved
  <2>. QED
    BY <2>1, <2>3
<1>3. CASE \E b \in Forms, finished \in BOOLEAN : OfficerSaves(b, finished) \/ LeaderSaves(b, finished)
  BY <1>2, <1>3 DEF OfficerSaves, LeaderSaves
<1>4. apps' = apps \/ New \/ \E b \in Forms, finished \in BOOLEAN :
                              OfficerSaves(b, finished) \/ LeaderSaves(b, finished)
  BY DEF Next, vars, Tomorrow, RenewYear, AddCamp
<1>. QED
  BY <1>1, <1>3, <1>4

\* Of two forms that count after a step, each did before it.
LEMMA CountedBefore ==
  ASSUME TypeOK, [Next]_vars, camps' = camps, site' = site,
         NEW a \in Forms, NEW b \in Forms, a # b, CountsFor(a, site)', CountsFor(b, site)'
  PROVE  CountsFor(a, site)
<1>1. \A c \in Forms : CountsFor(c, site)' /\ apps'[c] = apps[c] => CountsFor(c, site)
  BY DEF CountsFor, CampsOf, Saved, Finished
<1>. SUFFICES ASSUME apps'[a] # apps[a] PROVE CountsFor(a, site)
  BY <1>1
<1>2. Saved(a)' /\ Saved(b)'
  BY DEF CountsFor
<1>3. PICK finished \in BOOLEAN, leader \in BOOLEAN, own \in BOOLEAN :
            /\ Save(a, finished, leader, own)
            /\ apps'[a] = [saved |-> IF Finished(a) THEN apps[a].saved ELSE day, finished |-> finished]
  BY <1>2, SavedBefore
<1>4. CASE Finished(a)
  <2>1. apps'[a].saved = apps[a].saved /\ Saved(a)
    BY <1>3, <1>4, FormTyped
  <2>. QED
    BY <1>4, <2>1 DEF CountsFor, CampsOf
<1>5. CASE ~Finished(a)
  <2>1. ~\E c \in Existing \ {a} : IsThisYears(c)
    BY <1>3, <1>5 DEF Save, Accepts
  <2>2. apps'[b] = apps[b]
    <3>1. \A c \in Forms \ {a} : apps'[c] = NoForm \/ apps'[c] = apps[c]
      BY <1>3 DEF Save
    <3>2. NoForm.saved \notin Days
      BY DEF NoForm, Never, Days
    <3>. QED
      BY <1>2, <3>1, <3>2 DEF Saved
  <2>3. CountsFor(b, site)
    BY <1>1, <2>2
  <2>. QED
    BY <2>1, <2>3, CountedIsThisYears
<1>. QED
  BY <1>4, <1>5

\* Neither the officer nor a leader makes a second form count for the camps of the year
\* the site is on, whatever camps there are and in whichever order they were entered
\* (clean, applications_for_camps).
THEOREM NoSaveMakesASecondForm == Spec => NoSecondForm
<1>1. TypeOK /\ [Next]_vars =>
        [UNCHANGED <<camps, site>> => \A a, b \in Forms :
            a # b /\ CountsFor(a, site)' /\ CountsFor(b, site)' =>
                CountsFor(a, site) /\ CountsFor(b, site)]_vars
  BY CountedBefore
<1>. QED
  BY <1>1, TypeCorrect, PTL DEF Spec, NoSecondForm

-----------------------------------------------------------------------------
(* Who is shut out. *)

\* No form was saved in days to come.
Sooner == \A a \in Existing : Saved(a) => apps[a].saved <= day

\* Every step keeps it: a form is saved today, or keeps its day.
LEMMA SoonerInductive ==
  ASSUME TypeOK, Sooner, [Next]_vars
  PROVE  Sooner'
<1>1. day \in Int /\ day' \in Int /\ day <= day'
  <2>1. day \in Int
    BY DEF TypeOK, Days
  <2>2. Tomorrow \/ day' = day
    BY DEF Next, vars, RenewYear, New, AddCamp, OfficerSaves, LeaderSaves, Save
  <2>. QED
    BY <2>1, <2>2 DEF Tomorrow
<1>. SUFFICES ASSUME NEW a \in Existing', Saved(a)' PROVE apps'[a].saved <= day'
  BY DEF Sooner
<1>2. a \in Forms /\ apps'[a].saved \in Int
  BY DEF Existing, Saved, Days
<1>3. CASE apps'[a] = apps[a]
  BY <1>1, <1>2, <1>3 DEF Sooner, Existing, Exists, Saved
<1>4. CASE apps'[a] # apps[a]
  <2>0. PICK finished \in BOOLEAN :
            apps'[a] = [saved |-> IF Finished(a) THEN apps[a].saved ELSE day, finished |-> finished]
    BY <1>2, <1>4, SavedBefore
  <2>1. apps'[a].saved = IF Finished(a) THEN apps[a].saved ELSE day
    BY <2>0
  <2>2. Finished(a) => apps[a].saved <= day
    BY <1>2, FormTyped DEF Sooner, Existing
  <2>. QED
    BY <1>1, <1>2, <2>1, <2>2
<1>. QED
  BY <1>3, <1>4

\* Among drafts there is one that was saved last, which "Continue" opens.
LEMMA LastDraft ==
  ASSUME TypeOK, Unfinished # {}
  PROVE  ToContinue # {}
<1>. DEFINE f == [a \in Unfinished |-> apps[a].saved]
<1>1. f \in [Unfinished -> Int]
  BY DEF Unfinished, Saved, Days
<1>2. IsFiniteSet(Unfinished)
  <2>1. Unfinished \subseteq Forms /\ IsFiniteSet(Forms)
    BY FS_Interval DEF Unfinished, Existing, Forms
  <2>. QED
    BY <2>1, FS_Subset
<1>3. PICK c \in Unfinished : \A d \in Unfinished : f[d] <= f[c]
  BY <1>1, <1>2, Greatest
<1>. QED
  BY <1>3 DEF ToContinue

\* An officer whose form no leader can see can still hand one in, but for a form that was
\* saved a year before the first camp to the day, or for two drafts each in the way of
\* the other; and that with camps entered in whichever order (applications, clean).
THEOREM OnlyFormsShutOut == Spec => []ShutOutByFormsOnly
<1>1. TypeOK /\ Sooner => ShutOutByFormsOnly
  <2>. SUFFICES ASSUME TypeOK, Sooner, ShutOut,
                       ~\E a \in Existing : apps[a].saved = FirstStart(CampsOf(site)) - Year
                PROVE  \E a, b \in Existing :
                          a # b /\ ~Finished(a) /\ ~Finished(b) /\ IsThisYears(a) /\ IsThisYears(b)
    BY DEF ShutOutByFormsOnly
  <2>. DEFINE F == FirstStart(CampsOf(site))
  <2>1. PICK f \in CampsOf(site) : f.start >= day
    BY DEF ShutOut, FutureCamps
  <2>2. camps \subseteq Camps /\ site \in Int /\ day \in Int /\ f \in Camps /\ f.year = site
    BY <2>1 DEF TypeOK, Days, CampsOf
  <2>3. F \in Int
    BY <2>1, <2>2, FirstCamp, CampTyped DEF CampsOf
  <2>. HIDE DEF F
  <2>4. ASSUME NEW a \in Existing, IsThisYears(a)
        PROVE  /\ a \in Forms /\ Saved(a) /\ apps[a].saved \in Int /\ apps[a].saved >= F - Year
               /\ AfterSeason(apps[a].saved, CampsOf(site - 1)) /\ apps[a].saved <= day
    BY <2>1, <2>4 DEF IsThisYears, Existing, Saved, Days, Sooner, F
  <2>5. ASSUME NEW a \in Existing, IsThisYears(a) PROVE ~Finished(a)
    <3>. SUFFICES ASSUME Finished(a) PROVE FALSE
      OBVIOUS
    <3>1. ~CountsFor(a, site)
      BY DEF ShutOut
    <3>2. apps[a].saved <= f.start
      BY <2>1, <2>2, <2>4, <2>5, CampTyped
    <3>3. apps[a].saved # F - Year
      BY DEF F
    <3>. QED
      BY <2>1, <2>3, <2>4, <2>5, <3>1, <3>2, <3>3 DEF CountsFor, F
  <2>6. PICK a \in Existing : IsThisYears(a)
    BY DEF ShutOut, HasThisYears
  <2>7. a \in Unfinished
    BY <2>4, <2>5, <2>6 DEF Unfinished
  <2>8. PICK t \in ToContinue : TRUE
    BY <2>7, LastDraft
  <2>9. t \in Existing /\ ~Finished(t) /\ Saved(t) /\ apps[t].saved >= apps[a].saved
        /\ apps[t].saved \in Int
    BY <2>7, <2>8 DEF ToContinue, Unfinished, Saved, Days
  <2>10. IsThisYears(t)
    <3>1. apps[t].saved >= F - Year
      BY <2>3, <2>4, <2>6, <2>9
    <3>2. AfterSeason(apps[t].saved, CampsOf(site - 1))
      <4>1. CASE CampsOf(site - 1) # {}
        <5>1. PICK p \in CampsOf(site - 1) : p.end = LastEnd(CampsOf(site - 1))
          BY <2>2, <4>1, LastCamp DEF CampsOf
        <5>2. p.end \in Int /\ apps[a].saved > p.end
          BY <2>2, <2>4, <2>6, <4>1, <5>1, CampTyped DEF AfterSeason, CampsOf
        <5>3. apps[t].saved > p.end
          BY <2>4, <2>6, <2>9, <5>2
        <5>. QED
          BY <5>1, <5>3 DEF AfterSeason
      <4>. QED
        BY <4>1 DEF AfterSeason
    <3>. QED
      BY <2>1, <2>9, <3>1, <3>2 DEF IsThisYears, F
  <2>11. PICK b \in Existing \ {t} : IsThisYears(b)
    <3>1. ~HasCompleted
      BY <2>5 DEF HasCompleted
    <3>2. ~Accepts(t, FALSE)
      BY <2>8, <3>1 DEF ShutOut
    <3>3. FutureCamps # {}
      BY <2>1 DEF FutureCamps, CampsOf
    <3>. QED
      BY <2>9, <3>2, <3>3 DEF Accepts
  <2>. QED
    BY <2>5, <2>9, <2>10, <2>11
<1>2. Init => Sooner
  BY DEF Init, Sooner, Existing, Exists
<1>. QED
  BY <1>1, <1>2, SoonerInductive, TypeCorrect, PTL DEF Spec

=============================================================================
