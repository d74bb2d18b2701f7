------------------------- MODULE BookingRaces_proofs -------------------------
(***************************************************************************)
(* However many requests overlap, and wherever they die: the rows keep     *)
(* their types, only booked places carry a deadline, it takes two requests *)
(* to break the limit, and a place that is given is owed a mail until its  *)
(* holder is told or the request is cut short.                             *)
(***************************************************************************)
EXTENDS BookingRaces, FiniteSetTheorems, TLAPS

USE BookingRacesAssumption

\* What an idle worker holds is well typed.
LEMMA IdleTyped == Idle \in Job
  BY DEF Idle, Job, NoRow, NoEntry, Row, Entry, Label

\* A worker that takes up a well-typed job leaves the others as they are.
LEMMA BecomeTyped ==
    ASSUME job \in [Workers -> Job], NEW w \in Workers, NEW j \in Job, Become(w, j)
    PROVE  /\ job' \in [Workers -> Job]
           /\ job'[w] = j
           /\ \A v \in Workers : v # w => job'[v] = job[v]
  BY DEF Become

\* The same when the job is over.
LEMMA FinishTyped ==
    ASSUME job \in [Workers -> Job], NEW w \in Workers, Finish(w)
    PROVE  /\ job' \in [Workers -> Job]
           /\ job'[w] = Idle
           /\ \A v \in Workers : v # w => job'[v] = job[v]
  BY IdleTyped, BecomeTyped DEF Finish

\* A request that is cut short leaves types alone.
LEMMA CutShortTyped ==
    ASSUME TypeOK, NEW w \in Workers, CutShort(w)
    PROVE  job' \in [Workers -> Job] /\ word' \in [Bookings -> Word]
  <1>1. job' \in [Workers -> Job]
    BY FinishTyped DEF CutShort, TypeOK
  <1>2. word' \in [Bookings -> Word]
    BY DEF CutShort, TypeOK, Word
  <1> QED
    BY <1>1, <1>2

\* Rows copied into objects are rows.
LEMMA ObjectsTyped ==
    ASSUME row \in [Bookings -> Row], NEW S
    PROVE  Objects(S) \in [Bookings -> Row]
  BY DEF Objects, NoRow, Row

\* The expiry job goes through the rows it has read.
LEMMA StartExpireTyped ==
    ASSUME NEW R \in [Bookings -> Row], NEW x \in Bookings, NEW S \in SUBSET Bookings
    PROVE  [Idle EXCEPT !.at = "cancel", !.rows = R, !.now = {x}, !.todo = S] \in Job
  BY IdleTyped DEF Job, Label

\* And takes up the next of them.
LEMMA NextExpireTyped ==
    ASSUME NEW j \in Job, NEW x \in Bookings, NEW S \in SUBSET Bookings
    PROVE  [j EXCEPT !.at = "cancel", !.now = {x}, !.todo = S] \in Job
  BY DEF Job, Label

\* Saving a row keeps the table a table, also when there is no such booking.
LEMMA SaveRowTyped ==
    ASSUME row \in [Bookings -> Row], NEW b, NEW r, b \in Bookings => r \in Row, SaveRow(b, r)
    PROVE  /\ row' \in [Bookings -> Row]
           /\ \A x \in Bookings : row'[x] = IF x = b THEN r ELSE row[x]
  BY DEF SaveRow

\* The same of queue entries.
LEMMA SaveEntryTyped ==
    ASSUME entry \in [Bookings -> Entry], NEW b, NEW e,
           b \in Bookings => e \in Entry, SaveEntry(b, e)
    PROVE  entry' \in [Bookings -> Entry]
  BY DEF SaveEntry

\* The number of places left is a number.
LEMMA LeftTyped == Left \in Nat
  <1>1. IsFiniteSet(Booked)
    BY FS_Subset DEF Booked
  <1>2. Cardinality(Booked) \in Nat
    BY <1>1, FS_CardinalityType
  <1> QED
    BY <1>2 DEF Left

-----------------------------------------------------------------------------
(* Types. *)

\* Writing log rows keeps the types.
LEMMA LogActionsTyped ==
    ASSUME TypeOK, NEW w \in Workers, NEW from, NEW to \in Label, NEW S,
           LogActions(w, from, to, S)
    PROVE  TypeOK'
  <1> USE DEF TypeOK
  <1>1. [job[w] EXCEPT !.at = to, !.entries = Idle.entries] \in Job
    BY IdleTyped DEF Job
  <1>2. \/ CutShort(w)
        \/ Become(w, [job[w] EXCEPT !.at = to, !.entries = Idle.entries]) /\ UNCHANGED word
    BY DEF LogActions
  <1>3. job' \in [Workers -> Job] /\ word' \in [Bookings -> Word]
    BY <1>1, <1>2, CutShortTyped, BecomeTyped
  <1> QED
    BY <1>3 DEF LogActions

\* The statements of an allocation keep the types.
LEMMA AllocatingTyped ==
    ASSUME TypeOK, NEW w \in Workers, Allocating(w)
    PROVE  TypeOK'
  <1> USE DEF TypeOK
  <1> DEFINE j == job[w]
  <1>0. j \in Job
    OBVIOUS
  <1>1. CASE CountPlaces(w)
    <2>1. [Idle EXCEPT !.at = "rank", !.left = Left] \in Job
      BY IdleTyped, LeftTyped DEF Job, Label
    <2> QED
      BY <1>1, <2>1, BecomeTyped DEF CountPlaces
  <1>2. CASE RankQueue(w)
    <2>1. PICK A \in SUBSET Waiting : Become(w, [j EXCEPT
             !.at = "allocating", !.left = 0,
             !.rows = Objects(A),
             !.entries = [b \in Bookings |-> IF b \in A THEN entry[b] ELSE NoEntry],
             !.todo = A,
             !.mails = A,
             !.declined = {b \in Waiting \ A : ~WaitingListMode(entry[b])}])
      BY <1>2 DEF RankQueue
    <2>2. Objects(A) \in [Bookings -> Row]
      BY ObjectsTyped
    <2>3. [b \in Bookings |-> IF b \in A THEN entry[b] ELSE NoEntry] \in [Bookings -> Entry]
      BY DEF Entry, NoEntry
    <2>4. [j EXCEPT
             !.at = "allocating", !.left = 0,
             !.rows = Objects(A),
             !.entries = [b \in Bookings |-> IF b \in A THEN entry[b] ELSE NoEntry],
             !.todo = A,
             !.mails = A,
             !.declined = {b \in Waiting \ A : ~WaitingListMode(entry[b])}] \in Job
      BY <1>0, <2>2, <2>3 DEF Job, Label, Waiting
    <2> QED
      BY <1>2, <2>1, <2>4, BecomeTyped DEF RankQueue
  <1>3. CASE SaveBooked(w)
    <2>1. PICK b \in j.todo :
            LET booked == [j.rows[b] EXCEPT !.state = "booked",
                                            !.expires = @ \/ WaitingListMode(j.entries[b])]
            IN /\ SaveRow(b, booked)
               /\ Become(w, [j EXCEPT !.rows[b] = booked, !.todo = @ \ {b}])
      BY <1>3 DEF SaveBooked
    <2> DEFINE booked == [j.rows[b] EXCEPT !.state = "booked",
                                           !.expires = @ \/ WaitingListMode(j.entries[b])]
    <2>2. /\ b \in Bookings
          /\ j.rows[b] \in Row
          /\ j.entries[b] \in Entry
      BY <1>0, <2>1 DEF Job
    <2>3. booked \in Row
      BY <2>2 DEF Row, Entry, WaitingListMode
    <2>4. [j EXCEPT !.rows[b] = booked, !.todo = @ \ {b}] \in Job
      BY <1>0, <2>2, <2>3 DEF Job
    <2>5. row' \in [Bookings -> Row]
      BY <2>1, <2>3, SaveRowTyped
    <2>6. job' \in [Workers -> Job]
      BY <2>1, <2>4, BecomeTyped
    <2> QED
      BY <1>3, <2>5, <2>6 DEF SaveBooked
  <1>4. CASE MailAllocated(w)
    <2>1. PICK b \in j.mails :
            /\ word' = [word EXCEPT ![b] = IF j.rows[b].expires THEN "offer" ELSE "confirmed"]
            /\ Become(w, [j EXCEPT !.mails = @ \ {b}])
      BY <1>4 DEF MailAllocated
    <2>2. [j EXCEPT !.mails = @ \ {b}] \in Job
      BY <1>0 DEF Job
    <2>3. word' \in [Bookings -> Word]
      BY <2>1 DEF Word
    <2> QED
      BY <1>4, <2>1, <2>2, <2>3, BecomeTyped DEF MailAllocated
  <1>5. CASE MailDeclined(w)
    <2>1. PICK b \in j.declined :
            /\ declines[b] < MaxDeclined
            /\ declines' = [declines EXCEPT ![b] = @ + 1]
            /\ Become(w, [j EXCEPT !.at = "mark", !.declined = @ \ {b}, !.now = {b}])
      BY <1>5 DEF MailDeclined
    <2>2. b \in Bookings
      BY <1>0, <2>1 DEF Job
    <2>3. [j EXCEPT !.at = "mark", !.declined = @ \ {b}, !.now = {b}] \in Job
      BY <1>0, <2>2 DEF Job, Label
    <2>4. declines' \in [Bookings -> 0..MaxDeclined]
      BY <2>1, <2>2
    <2> QED
      BY <1>5, <2>1, <2>3, <2>4, BecomeTyped DEF MailDeclined
  <1>6. CASE MarkDeclined(w)
    <2>1. [j EXCEPT !.at = "declining", !.now = {}] \in Job
      BY <1>0 DEF Job, Label
    <2>2. entry' \in [Bookings -> Entry]
      BY <1>6 DEF MarkDeclined, Entry
    <2> QED
      BY <1>6, <2>1, <2>2, BecomeTyped DEF MarkDeclined
  <1>7. CASE FinishAllocating(w)
    BY <1>7, FinishTyped DEF FinishAllocating
  <1>8. CASE LogAllocated(w) \/ LogDeclined(w)
    BY <1>8, LogActionsTyped DEF LogAllocated, LogDeclined, Label
  <1> QED
    BY <1>1, <1>2, <1>3, <1>4, <1>5, <1>6, <1>7, <1>8 DEF Allocating

\* Asking for the queue entry keeps the types.
LEMMA FetchEntryTyped ==
    ASSUME TypeOK, NEW w \in Workers, NEW from, NEW to \in Label, FetchEntry(w, from, to)
    PROVE  TypeOK'
  <1> USE DEF TypeOK
  <1> DEFINE j == job[w]
             b == Subject(w)
  <1>1. j \in Job
    OBVIOUS
  <1> HIDE DEF b
  <1>2. [j EXCEPT !.at = to, !.entries[b] = entry[b]] \in Job
    BY <1>1 DEF Job
  <1> QED
    BY <1>2, BecomeTyped DEF FetchEntry, b

\* So does taking the booking out of the queue.
LEMMA LeaveQueueTyped ==
    ASSUME TypeOK, NEW w \in Workers, NEW from, NEW to \in Label, LeaveQueue(w, from, to)
    PROVE  TypeOK'
  <1> USE DEF TypeOK
  <1> DEFINE j == job[w]
             b == Subject(w)
             e == [j.entries[b] EXCEPT !.active = FALSE]
  <1>1. j \in Job
    OBVIOUS
  <1> HIDE DEF b
  <1>a. b \in Bookings => j.entries[b] \in Entry
    BY <1>1 DEF Job
  <1>2. b \in Bookings => e \in Entry
    BY <1>a DEF Entry
  <1>3. UNCHANGED entry \/ SaveEntry(b, e)
    BY DEF LeaveQueue, b
  <1>4. entry' \in [Bookings -> Entry]
    BY <1>2, <1>3, SaveEntryTyped
  <1>5. [j EXCEPT !.at = to] \in Job
    BY <1>1 DEF Job
  <1>6. Finish(w) \/ Become(w, [j EXCEPT !.at = to])
    BY DEF LeaveQueue
  <1>7. job' \in [Workers -> Job]
    BY <1>5, <1>6, FinishTyped, BecomeTyped
  <1> QED
    BY <1>4, <1>7 DEF LeaveQueue

\* So do the requests of account holders.
LEMMA HoldingTyped ==
    ASSUME TypeOK, NEW w \in Workers, Holding(w)
    PROVE  TypeOK'
  <1> USE DEF TypeOK
  <1> DEFINE j == job[w]
             b == Subject(w)
  <1>0. j \in Job
    OBVIOUS
  <1>a. b \in Bookings => j.rows[b] \in Row /\ j.entries[b] \in Entry
    BY <1>0 DEF Job
  <1> HIDE DEF b
  <1>1. CASE OpenRequest(w)
    <2>1. PICK kind \in KindsOf[w], x \in Bookings :
            /\ Admitted(kind, x)
            /\ Become(w, [Idle EXCEPT !.at = IF kind = "reject" THEN "cancel" ELSE kind,
                                      !.rows = Objects({x}), !.now = {x}])
      BY <1>1 DEF OpenRequest
    <2>2. (IF kind = "reject" THEN "cancel" ELSE kind) \in Label
      BY <2>1 DEF Admitted, Label
    <2>3. Objects({x}) \in [Bookings -> Row]
      BY ObjectsTyped
    <2>4. [Idle EXCEPT !.at = IF kind = "reject" THEN "cancel" ELSE kind,
                       !.rows = Objects({x}), !.now = {x}] \in Job
      BY <2>2, <2>3, IdleTyped DEF Job
    <2> QED
      BY <1>1, <2>1, <2>4, BecomeTyped DEF OpenRequest
  <1>2. CASE SaveUnbooked(w)
    <2>1. b \in Bookings => [j.rows[b] EXCEPT !.state = "cancelled_half_refund"] \in Row
      BY <1>a DEF Row
    <2>2. row' \in [Bookings -> Row]
      BY <1>2, <2>1, SaveRowTyped DEF SaveUnbooked, b
    <2> QED
      BY <1>2, <2>2, FinishTyped DEF SaveUnbooked, Word
  <1>3. CASE SaveForm(w)
    BY <1>3, <1>a, SaveRowTyped, FinishTyped DEF SaveForm, b
  <1>4. CASE MoveShelf(w)
    <2>1. b \in Bookings => [j.rows[b] EXCEPT !.shelved = ~@] \in Row
      BY <1>a DEF Row
    <2>2. row' \in [Bookings -> Row]
      BY <1>4, <2>1, SaveRowTyped DEF MoveShelf, b
    <2> QED
      BY <1>4, <2>2, FinishTyped DEF MoveShelf
  <1>5. CASE DeleteRow(w)
    <2>1. NoRow \in Row /\ NoEntry \in Entry
      BY DEF NoRow, Row, NoEntry, Entry
    <2>2. row' \in [Bookings -> Row]
      BY <1>5, <2>1, SaveRowTyped DEF DeleteRow
    <2>3. entry' \in [Bookings -> Entry]
      BY <1>5, <2>1 DEF DeleteRow
    <2>4. 0 \in 0..MaxDeclined
      OBVIOUS
    <2>5. declines' = [declines EXCEPT ![b] = 0]
      BY <1>5 DEF DeleteRow, b
    <2>6. declines' \in [Bookings -> 0..MaxDeclined]
      BY <2>4, <2>5
    <2>7. word' = [word EXCEPT ![b] = "none"]
      BY <1>5 DEF DeleteRow, b
    <2>8. word' \in [Bookings -> Word]
      BY <2>7 DEF Word
    <2> QED
      BY <1>5, <2>2, <2>3, <2>6, <2>8, FinishTyped DEF DeleteRow
  <1>6. CASE FetchEntry(w, "apply", "ask") \/ FetchEntry(w, "withdraw", "leave")
    BY <1>6, FetchEntryTyped DEF Label
  <1>7. CASE AskForPlaces(w)
    <2>1. [j EXCEPT !.at = "enqueue", !.full = (Left = 0)] \in Job
      BY <1>0 DEF Job, Label
    <2> QED
      BY <1>7, <2>1, BecomeTyped DEF AskForPlaces
  <1>8. CASE Enqueue(w)
    <2> DEFINE e == [j.entries[b] EXCEPT !.exists = TRUE, !.active = TRUE,
                                         !.waitingList = @ \/ j.full]
    <2>1. b \in Bookings => e \in Entry
      BY <1>0, <1>a DEF Entry, Job
    <2>2. UNCHANGED entry \/ SaveEntry(b, e)
      BY <1>8 DEF Enqueue, b
    <2>3. entry' \in [Bookings -> Entry]
      BY <2>1, <2>2, SaveEntryTyped
    <2> QED
      BY <1>8, <2>3, FinishTyped DEF Enqueue
  <1>9. CASE LeaveQueue(w, "leave", "stow")
    BY <1>9, LeaveQueueTyped DEF Label
  <1>10. CASE Stow(w)
    <2>1. b \in Bookings => [j.rows[b] EXCEPT !.shelved = TRUE] \in Row
      BY <1>a DEF Row
    <2>2. row' \in [Bookings -> Row]
      BY <1>10, <2>1, SaveRowTyped DEF Stow, b
    <2> QED
      BY <1>10, <2>2, FinishTyped DEF Stow
  <1>11. CASE SaveAccepted(w)
    <2>1. b \in Bookings => [j.rows[b] EXCEPT !.expires = FALSE] \in Row
      BY <1>a DEF Row
    <2>2. row' \in [Bookings -> Row]
      BY <1>11, <2>1, SaveRowTyped DEF SaveAccepted, b
    <2> QED
      BY <1>11, <2>2, FinishTyped DEF SaveAccepted, Word
  <1> QED
    BY <1>1, <1>2, <1>3, <1>4, <1>5, <1>6, <1>7, <1>8, <1>9, <1>10, <1>11 DEF Holding, Label

\* And the release of places.
LEMMA CancellingTyped ==
    ASSUME TypeOK, NEW w \in Workers, Cancelling(w)
    PROVE  TypeOK'
  <1> USE DEF TypeOK
  <1> DEFINE j == job[w]
             b == Subject(w)
  <1>0. j \in Job
    OBVIOUS
  <1>a. b \in Bookings => j.rows[b] \in Row
    BY <1>0 DEF Job
  <1> HIDE DEF b
  <1>1. CASE OpenExpire(w)
    <2>1. PICK S \in SUBSET Bookings : \E x \in S :
            Become(w, [Idle EXCEPT !.at = "cancel", !.rows = Objects(S), !.now = {x}, !.todo = S \ {x}])
      BY <1>1 DEF OpenExpire
    <2> PICK x \in S :
            Become(w, [Idle EXCEPT !.at = "cancel", !.rows = Objects(S), !.now = {x}, !.todo = S \ {x}])
      BY <2>1
    <2>2. Objects(S) \in [Bookings -> Row]
      BY ObjectsTyped
    <2>3. [Idle EXCEPT !.at = "cancel", !.rows = Objects(S), !.now = {x}, !.todo = S \ {x}] \in Job
      BY <2>2, StartExpireTyped
    <2> QED
      BY <1>1, <2>3, BecomeTyped DEF OpenExpire
  <1>2. CASE SaveCancelled(w)
    <2> DEFINE cancelled == [j.rows[b] EXCEPT !.state = "cancelled_full_refund", !.expires = FALSE]
    <2>1. b \in Bookings => cancelled \in Row
      BY <1>a DEF Row
    <2>2. SaveRow(b, cancelled)
      BY <1>2 DEF SaveCancelled, b
    <2>3. row' \in [Bookings -> Row]
      BY <2>1, <2>2, SaveRowTyped
    <2>4. Become(w, [j EXCEPT !.at = "put_away", !.rows[b] = cancelled])
      BY <1>2 DEF SaveCancelled, b
    <2>5. [j EXCEPT !.at = "put_away", !.rows[b] = cancelled] \in Job
      BY <1>0, <2>1 DEF Job, Label
    <2> QED
      BY <1>2, <2>3, <2>4, <2>5, BecomeTyped DEF SaveCancelled
  <1>3. CASE PutAway(w)
    <2>1. b \in Bookings => [j.rows[b] EXCEPT !.shelved = TRUE] \in Row
      BY <1>a DEF Row
    <2>2. row' \in [Bookings -> Row]
      BY <1>3, <2>1, SaveRowTyped DEF PutAway, b
    <2>3. [j EXCEPT !.at = "lookup"] \in Job
      BY <1>0 DEF Job, Label
    <2> QED
      BY <1>3, <2>2, <2>3, BecomeTyped DEF PutAway
  <1>4. CASE FetchEntry(w, "lookup", "drop")
    BY <1>4, FetchEntryTyped DEF Label
  <1>5. CASE LeaveQueue(w, "drop", "tell")
    BY <1>5, LeaveQueueTyped DEF Label
  <1>6. CASE TellReleased(w)
    <2>1. word' \in [Bookings -> Word]
      BY <1>6 DEF TellReleased, Word
    <2>2. Finish(w) \/ \E x \in j.todo :
            Become(w, [j EXCEPT !.at = "cancel", !.now = {x}, !.todo = @ \ {x}])
      BY <1>6 DEF TellReleased
    <2>3. \A x \in j.todo : [j EXCEPT !.at = "cancel", !.now = {x}, !.todo = @ \ {x}] \in Job
      <3>1. j.todo \in SUBSET Bookings
        BY <1>0 DEF Job
      <3> HIDE DEF j
      <3> QED
        BY <1>0, <3>1, NextExpireTyped
    <2>4. job' \in [Workers -> Job]
      BY <2>2, <2>3, FinishTyped, BecomeTyped
    <2> QED
      BY <1>6, <2>1, <2>4 DEF TellReleased
  <1> QED
    BY <1>1, <1>2, <1>3, <1>4, <1>5, <1>6 DEF Cancelling

\* Every statement of every request writes values of the columns' types,
\* however many workers there are.
THEOREM TypeCorrect == Spec => []TypeOK
  <1>1. Init => TypeOK
    <2>1. NewRow \in Row /\ NoEntry \in Entry
      BY DEF NewRow, NoRow, Row, NoEntry, Entry
    <2> QED
      BY <2>1, IdleTyped DEF Init, TypeOK, Word
  <1>2. TypeOK /\ [Next]_vars => TypeOK'
    <2> SUFFICES ASSUME TypeOK, [Next]_vars PROVE TypeOK'
      OBVIOUS
    <2>1. CASE UNCHANGED vars
      BY <2>1 DEF vars, TypeOK
    <2>2. ASSUME NEW w \in Workers, Die(w) PROVE TypeOK'
      BY <2>2, CutShortTyped DEF Die, TypeOK
    <2> QED
      BY <2>1, <2>2, AllocatingTyped, HoldingTyped, CancellingTyped DEF Next, Work
  <1> QED
    BY <1>1, <1>2, PTL DEF Spec

-----------------------------------------------------------------------------
(* Rows are whole. A request writes back what it read earlier, so the       *)
(* objects in its hands have to be whole as well.                           *)

WholeRow(r) == r.expires => r.state \in {"booked", "cancelled_half_refund"}

WholeJob(j) == \A b \in Bookings : WholeRow(j.rows[b])

Whole ==
    /\ TypeOK
    /\ \A b \in Bookings : WholeRow(row[b])
    /\ \A w \in Workers : WholeJob(job[w])

\* A whole row may be saved.
LEMMA SaveRowWhole ==
    ASSUME TypeOK, \A x \in Bookings : WholeRow(row[x]),
           NEW b, NEW r, b \in Bookings => r \in Row /\ WholeRow(r), SaveRow(b, r)
    PROVE  \A x \in Bookings : WholeRow(row'[x])
  BY SaveRowTyped DEF TypeOK

\* A worker may take up a job with whole rows in its hands.
LEMMA BecomeWhole ==
    ASSUME TypeOK, \A v \in Workers : WholeJob(job[v]),
           NEW w \in Workers, NEW j, WholeJob(j), Become(w, j)
    PROVE  \A v \in Workers : WholeJob(job'[v])
  BY DEF Become, TypeOK

\* It may always stop.
LEMMA FinishWhole ==
    ASSUME TypeOK, \A v \in Workers : WholeJob(job[v]), NEW w \in Workers, Finish(w)
    PROVE  \A v \in Workers : WholeJob(job'[v])
  <1>1. WholeJob(Idle)
    BY DEF Idle, WholeJob, WholeRow, NoRow
  <1> QED
    BY <1>1, BecomeWhole DEF Finish

\* Copies of whole rows are whole.
LEMMA ObjectsWhole ==
    ASSUME \A x \in Bookings : WholeRow(row[x]), NEW S
    PROVE  \A x \in Bookings : WholeRow(Objects(S)[x])
  BY DEF Objects, WholeRow, NoRow

\* An allocation gives deadlines to booked places only.
LEMMA AllocatingWhole ==
    ASSUME Whole, NEW w \in Workers, Allocating(w)
    PROVE  (\A b \in Bookings : WholeRow(row'[b])) /\ (\A v \in Workers : WholeJob(job'[v]))
  <1> DEFINE j == job[w]
  <1> USE DEF Whole
  <1>0. j \in Job /\ WholeJob(j)
    BY DEF TypeOK
  <1>1. CASE CountPlaces(w)
    <2>1. WholeJob([Idle EXCEPT !.at = "rank", !.left = Left])
      BY DEF Idle, WholeJob, WholeRow, NoRow
    <2> QED
      BY <1>1, <2>1, BecomeWhole DEF CountPlaces
  <1>2. CASE RankQueue(w)
    <2>1. PICK A \in SUBSET Waiting : Become(w, [j EXCEPT
             !.at = "allocating", !.left = 0,
             !.rows = Objects(A),
             !.entries = [b \in Bookings |-> IF b \in A THEN entry[b] ELSE NoEntry],
             !.todo = A,
             !.mails = A,
             !.declined = {b \in Waiting \ A : ~WaitingListMode(entry[b])}])
      BY <1>2 DEF RankQueue
    <2> DEFINE k == [j EXCEPT
             !.at = "allocating", !.left = 0,
             !.rows = Objects(A),
             !.entries = [b \in Bookings |-> IF b \in A THEN entry[b] ELSE NoEntry],
             !.todo = A,
             !.mails = A,
             !.declined = {b \in Waiting \ A : ~WaitingListMode(entry[b])}]
    <2>2. k.at = "allocating" /\ k.rows = Objects(A)
      BY <1>0 DEF Job
    <2>3. WholeJob(k)
      BY <2>2, ObjectsWhole DEF WholeJob
    <2> QED
      BY <1>2, <2>1, <2>3, BecomeWhole DEF RankQueue
  <1>3. CASE SaveBooked(w)
    <2>1. PICK b \in j.todo :
            LET booked == [j.rows[b] EXCEPT !.state = "booked",
                                            !.expires = @ \/ WaitingListMode(j.entries[b])]
            IN /\ SaveRow(b, booked)
               /\ Become(w, [j EXCEPT !.rows[b] = booked, !.todo = @ \ {b}])
      BY <1>3 DEF SaveBooked
    <2> DEFINE booked == [j.rows[b] EXCEPT !.state = "booked",
                                           !.expires = @ \/ WaitingListMode(j.entries[b])]
    <2>2. /\ b \in Bookings
          /\ j.rows[b] \in Row
          /\ j.entries[b] \in Entry
      BY <1>0, <2>1 DEF Job
    <2>3. booked \in Row /\ WholeRow(booked)
      BY <2>2 DEF Row, Entry, WaitingListMode, WholeRow
    <2>4. WholeJob([j EXCEPT !.rows[b] = booked, !.todo = @ \ {b}])
      BY <1>0, <2>3 DEF Job, WholeJob
    <2> QED
      BY <1>3, <2>1, <2>3, <2>4, SaveRowWhole, BecomeWhole DEF SaveBooked
  <1>4. CASE MailAllocated(w)
    <2>1. PICK b \in j.mails : Become(w, [j EXCEPT !.mails = @ \ {b}])
      BY <1>4 DEF MailAllocated
    <2>2. WholeJob([j EXCEPT !.mails = @ \ {b}])
      BY <1>0 DEF Job, WholeJob
    <2> QED
      BY <1>4, <2>1, <2>2, BecomeWhole DEF MailAllocated
  <1>5. CASE MailDeclined(w)
    <2>1. PICK b \in j.declined :
            Become(w, [j EXCEPT !.at = "mark", !.declined = @ \ {b}, !.now = {b}])
      BY <1>5 DEF MailDeclined
    <2>2. WholeJob([j EXCEPT !.at = "mark", !.declined = @ \ {b}, !.now = {b}])
      BY <1>0 DEF Job, WholeJob
    <2> QED
      BY <1>5, <2>1, <2>2, BecomeWhole DEF MailDeclined
  <1>6. CASE MarkDeclined(w)
    <2>1. WholeJob([j EXCEPT !.at = "declining", !.now = {}])
      BY <1>0 DEF Job, WholeJob
    <2> QED
      BY <1>6, <2>1, BecomeWhole DEF MarkDeclined
  <1>7. CASE FinishAllocating(w)
    BY <1>7, FinishWhole DEF FinishAllocating
  <1>8. CASE LogAllocated(w) \/ LogDeclined(w)
    <2>1. \A to : WholeJob([j EXCEPT !.at = to, !.entries = Idle.entries])
      BY <1>0 DEF Job, WholeJob
    <2>2. \/ Finish(w)
          \/ \E to : Become(w, [j EXCEPT !.at = to, !.entries = Idle.entries])
      BY <1>8 DEF LogAllocated, LogDeclined, LogActions, CutShort
    <2>3. UNCHANGED row
      BY <1>8 DEF LogAllocated, LogDeclined, LogActions
    <2> QED
      BY <2>1, <2>2, <2>3, FinishWhole, BecomeWhole
  <1> QED
    BY <1>1, <1>2, <1>3, <1>4, <1>5, <1>6, <1>7, <1>8 DEF Allocating

\* Fetching an entry touches no row.
LEMMA FetchEntryWhole ==
    ASSUME Whole, NEW w \in Workers, NEW from, NEW to, FetchEntry(w, from, to)
    PROVE  (\A b \in Bookings : WholeRow(row'[b])) /\ (\A v \in Workers : WholeJob(job'[v]))
  <1> DEFINE j == job[w]
             b == Subject(w)
  <1> USE DEF Whole
  <1>1. j \in Job /\ WholeJob(j)
    BY DEF TypeOK
  <1> HIDE DEF b
  <1>2. WholeJob([j EXCEPT !.at = to, !.entries[b] = entry[b]])
    BY <1>1 DEF Job, WholeJob
  <1> QED
    BY <1>2, BecomeWhole DEF FetchEntry, b

\* Leaving the queue touches none either.
LEMMA LeaveQueueWhole ==
    ASSUME Whole, NEW w \in Workers, NEW from, NEW to, LeaveQueue(w, from, to)
    PROVE  (\A b \in Bookings : WholeRow(row'[b])) /\ (\A v \in Workers : WholeJob(job'[v]))
  <1> DEFINE j == job[w]
  <1> USE DEF Whole
  <1>1. j \in Job /\ WholeJob(j)
    BY DEF TypeOK
  <1>2. WholeJob([j EXCEPT !.at = to])
    BY <1>1 DEF Job, WholeJob
  <1>3. Finish(w) \/ Become(w, [j EXCEPT !.at = to])
    BY DEF LeaveQueue
  <1>4. UNCHANGED row
    BY DEF LeaveQueue
  <1> QED
    BY <1>2, <1>3, <1>4, FinishWhole, BecomeWhole

\* The requests of account holders save whole rows.
LEMMA HoldingWhole ==
    ASSUME Whole, NEW w \in Workers, Holding(w)
    PROVE  (\A b \in Bookings : WholeRow(row'[b])) /\ (\A v \in Workers : WholeJob(job'[v]))
  <1> USE DEF Whole
  <1> DEFINE j == job[w]
             b == Subject(w)
  <1>0. j \in Job /\ WholeJob(j)
    BY DEF TypeOK
  <1>a. b \in Bookings => j.rows[b] \in Row /\ WholeRow(j.rows[b])
    BY <1>0 DEF Job, WholeJob
  <1> HIDE DEF b
  <1>1. CASE OpenRequest(w)
    <2>1. PICK kind \in KindsOf[w], x \in Bookings :
            Become(w, [Idle EXCEPT !.at = IF kind = "reject" THEN "cancel" ELSE kind,
                                   !.rows = Objects({x}), !.now = {x}])
      BY <1>1 DEF OpenRequest
    <2> DEFINE k == [Idle EXCEPT !.at = IF kind = "reject" THEN "cancel" ELSE kind,
                                 !.rows = Objects({x}), !.now = {x}]
    <2>2. k.rows = Objects({x})
      BY <2>1 DEF Idle
    <2>3. WholeJob(k)
      BY <2>2, ObjectsWhole DEF WholeJob
    <2> QED
      BY <1>1, <2>1, <2>3, BecomeWhole DEF OpenRequest
  <1>2. CASE SaveUnbooked(w)
    <2> DEFINE r == [j.rows[b] EXCEPT !.state = "cancelled_half_refund"]
    <2>1. b \in Bookings => r \in Row /\ WholeRow(r)
      BY <1>a DEF Row, WholeRow
    <2>2. SaveRow(b, r)
      BY <1>2 DEF SaveUnbooked, b
    <2> HIDE DEF r
    <2> QED
      BY <1>2, <2>1, <2>2, SaveRowWhole, FinishWhole DEF SaveUnbooked
  <1>3. CASE SaveForm(w)
    BY <1>3, <1>a, SaveRowWhole, FinishWhole DEF SaveForm, b
  <1>4. CASE MoveShelf(w)
    <2> DEFINE r == [j.rows[b] EXCEPT !.shelved = ~@]
    <2>1. b \in Bookings => r \in Row /\ WholeRow(r)
      BY <1>a DEF Row, WholeRow
    <2>2. SaveRow(b, r)
      BY <1>4 DEF MoveShelf, b
    <2> HIDE DEF r
    <2> QED
      BY <1>4, <2>1, <2>2, SaveRowWhole, FinishWhole DEF MoveShelf
  <1>5. CASE DeleteRow(w)
    <2>1. NoRow \in Row /\ WholeRow(NoRow)
      BY DEF NoRow, Row, WholeRow
    <2> QED
      BY <1>5, <2>1, SaveRowWhole, FinishWhole DEF DeleteRow
  <1>6. CASE FetchEntry(w, "apply", "ask") \/ FetchEntry(w, "withdraw", "leave")
    BY <1>6, FetchEntryWhole
  <1>7. CASE AskForPlaces(w)
    <2>1. WholeJob([j EXCEPT !.at = "enqueue", !.full = (Left = 0)])
      BY <1>0 DEF Job, WholeJob
    <2> QED
      BY <1>7, <2>1, BecomeWhole DEF AskForPlaces
  <1>8. CASE Enqueue(w)
    BY <1>8, FinishWhole DEF Enqueue
  <1>9. CASE LeaveQueue(w, "leave", "stow")
    BY <1>9, LeaveQueueWhole
  <1>10. CASE Stow(w)
    <2> DEFINE r == [j.rows[b] EXCEPT !.shelved = TRUE]
    <2>1. b \in Bookings => r \in Row /\ WholeRow(r)
      BY <1>a DEF Row, WholeRow
    <2>2. SaveRow(b, r)
      BY <1>10 DEF Stow, b
    <2> HIDE DEF r
    <2> QED
      BY <1>10, <2>1, <2>2, SaveRowWhole, FinishWhole DEF Stow
  <1>11. CASE SaveAccepted(w)
    <2> DEFINE r == [j.rows[b] EXCEPT !.expires = FALSE]
    <2>1. b \in Bookings => r \in Row /\ WholeRow(r)
      BY <1>a DEF Row, WholeRow
    <2>2. SaveRow(b, r)
      BY <1>11 DEF SaveAccepted, b
    <2> HIDE DEF r
    <2> QED
      BY <1>11, <2>1, <2>2, SaveRowWhole, FinishWhole DEF SaveAccepted
  <1> QED
    BY <1>1, <1>2, <1>3, <1>4, <1>5, <1>6, <1>7, <1>8, <1>9, <1>10, <1>11 DEF Holding

\* A released place loses its deadline along with its state.
LEMMA CancellingWhole ==
    ASSUME Whole, NEW w \in Workers, Cancelling(w)
    PROVE  (\A b \in Bookings : WholeRow(row'[b])) /\ (\A v \in Workers : WholeJob(job'[v]))
  <1> USE DEF Whole
  <1> DEFINE j == job[w]
             b == Subject(w)
  <1>0. j \in Job /\ WholeJob(j)
    BY DEF TypeOK
  <1>a. b \in Bookings => j.rows[b] \in Row /\ WholeRow(j.rows[b])
    BY <1>0 DEF Job, WholeJob
  <1> HIDE DEF b
  <1>1. CASE OpenExpire(w)
    <2>1. PICK S, x : Become(w, [Idle EXCEPT !.at = "cancel", !.rows = Objects(S),
                                            !.now = {x}, !.todo = S \ {x}])
      BY <1>1 DEF OpenExpire
    <2> DEFINE k == [Idle EXCEPT !.at = "cancel", !.rows = Objects(S), !.now = {x}, !.todo = S \ {x}]
    <2>2. k.rows = Objects(S)
      BY DEF Idle
    <2>3. WholeJob(k)
      BY <2>2, ObjectsWhole DEF WholeJob
    <2> QED
      BY <1>1, <2>1, <2>3, BecomeWhole DEF OpenExpire
  <1>2. CASE SaveCancelled(w)
    <2> DEFINE r == [j.rows[b] EXCEPT !.state = "cancelled_full_refund", !.expires = FALSE]
    <2>1. b \in Bookings => r \in Row /\ WholeRow(r)
      BY <1>a DEF Row, WholeRow
    <2>2. SaveRow(b, r) /\ Become(w, [j EXCEPT !.at = "put_away", !.rows[b] = r])
      BY <1>2 DEF SaveCancelled, b
    <2> HIDE DEF r
    <2>3. WholeJob([j EXCEPT !.at = "put_away", !.rows[b] = r])
      BY <1>0, <2>1 DEF Job, WholeJob
    <2> QED
      BY <2>1, <2>2, <2>3, SaveRowWhole, BecomeWhole
  <1>3. CASE PutAway(w)
    <2> DEFINE r == [j.rows[b] EXCEPT !.shelved = TRUE]
    <2>1. b \in Bookings => r \in Row /\ WholeRow(r)
      BY <1>a DEF Row, WholeRow
    <2>2. SaveRow(b, r) /\ Become(w, [j EXCEPT !.at = "lookup"])
      BY <1>3 DEF PutAway, b
    <2> HIDE DEF r
    <2>3. WholeJob([j EXCEPT !.at = "lookup"])
      BY <1>0 DEF Job, WholeJob
    <2> QED
      BY <2>1, <2>2, <2>3, SaveRowWhole, BecomeWhole
  <1>4. CASE FetchEntry(w, "lookup", "drop")
    BY <1>4, FetchEntryWhole
  <1>5. CASE LeaveQueue(w, "drop", "tell")
    BY <1>5, LeaveQueueWhole
  <1>6. CASE TellReleased(w)
    <2>1. \A x : WholeJob([j EXCEPT !.at = "cancel", !.now = {x}, !.todo = @ \ {x}])
      BY <1>0 DEF Job, WholeJob
    <2>2. Finish(w) \/ \E x :
            Become(w, [j EXCEPT !.at = "cancel", !.now = {x}, !.todo = @ \ {x}])
      BY <1>6 DEF TellReleased
    <2>3. UNCHANGED row
      BY <1>6 DEF TellReleased
    <2> QED
      BY <2>1, <2>2, <2>3, FinishWhole, BecomeWhole
  <1> QED
    BY <1>1, <1>2, <1>3, <1>4, <1>5, <1>6 DEF Cancelling

\* A place that was given back, or never given, carries no deadline, however
\* requests of any number of workers overlap and die.
THEOREM OnlyBookedPlacesExpire == Spec => []OnlyBookedExpires
  <1>1. Init => Whole
    <2>1. Init => TypeOK
      <3>1. NewRow \in Row /\ NoEntry \in Entry
        BY DEF NewRow, NoRow, Row, NoEntry, Entry
      <3> QED
        BY <3>1, IdleTyped DEF Init, TypeOK, Word
    <2>2. WholeRow(NewRow) /\ WholeJob(Idle)
      BY DEF NewRow, NoRow, WholeRow, WholeJob, Idle
    <2> QED
      BY <2>1, <2>2 DEF Init, Whole
  <1>2. Whole /\ [Next]_vars => Whole'
    <2> SUFFICES ASSUME Whole, [Next]_vars PROVE Whole'
      OBVIOUS
    <2>1. CASE UNCHANGED vars
      BY <2>1 DEF vars, Whole, TypeOK
    <2>2. ASSUME NEW w \in Workers, Work(w) PROVE Whole'
      <3>1. TypeOK'
        BY <2>2, AllocatingTyped, HoldingTyped, CancellingTyped, CutShortTyped
        DEF Whole, Work, Die, TypeOK
      <3>2. (\A b \in Bookings : WholeRow(row'[b])) /\ (\A v \in Workers : WholeJob(job'[v]))
        <4>1. CASE Die(w)
          BY <4>1, FinishWhole DEF Die, CutShort, Whole
        <4> QED
          BY <2>2, <4>1, AllocatingWhole, HoldingWhole, CancellingWhole DEF Work
      <3> QED
        BY <3>1, <3>2 DEF Whole, WholeRow, WholeJob
    <2> QED
      BY <2>1, <2>2 DEF Next
  <1>3. Whole => OnlyBookedExpires
    BY DEF Whole, WholeRow, OnlyBookedExpires
  <1> QED
    BY <1>1, <1>2, <1>3, PTL DEF Spec

-----------------------------------------------------------------------------
(* What a single step does to the places and to the mails that are owed.    *)
(* The requests of others enter at one point only: a job holds the rows as  *)
(* they were, so what is proved of the objects in its hands must hold       *)
(* however stale they are.                                                  *)

\* No stale object makes a place booked but one that was read as booked, and only
\* an allocation owes mails, about every place that it has still to save.
KeptJob(j) ==
    /\ j.at \in {"edit", "shelve"} => \A b \in Bookings : j.rows[b].state # "booked"
    /\ j.at = "put_away" =>
        \A b \in Bookings : b = (CHOOSE x \in Bookings : x \in j.now) => j.rows[b].state # "booked"
    /\ j.at \notin {"allocating", "mailing"} => j.mails = {}
    /\ j.at = "allocating" => j.todo \subseteq j.mails

Kept == TypeOK /\ \A w \in Workers : KeptJob(job[w])

\* Words that tell a holder of the place, or that the telling was cut short.
Tells == {"offer", "confirmed", "unsent"}

\* A step books nothing that was not booked.
BooksNone == \A b \in Bookings : row'[b].state = "booked" => row[b].state = "booked"

\* What the steps of an allocation do, and any other step that may book a place.
Quiet(w) ==
    /\ BooksNone
    /\ job'[w].at \notin {"rank", "allocating"}
    /\ \A b \in ToTell(w) : b \in ToTell(w)' \/ word'[b] \in Tells

Counts(w) ==
    /\ row' = row /\ job[w].mails = {}
    /\ job'[w].at = "rank" /\ job'[w].left = Left

Ranks(w) ==
    /\ row' = row /\ job[w].mails = {}
    /\ job[w].at = "rank" /\ job'[w].at = "allocating"
    /\ \E A \in SUBSET Waiting : Cardinality(A) <= job[w].left /\ job'[w].todo = A

Gives(w) ==
    /\ job[w].at = "allocating" /\ job'[w].at = "allocating"
    /\ job'[w].mails = job[w].mails
    /\ \E b \in job[w].todo : Booked' = Booked \cup {b} /\ job'[w].todo = job[w].todo \ {b}

WritesBack(w) ==
    /\ job[w].at \in {"accept", "stow"} /\ job[w].mails = {} /\ job'[w].at = "idle"
    /\ \A b \in Booked' \ Booked : b = Subject(w)
    /\ job[w].at = "accept" => \A b \in Bookings : b = Subject(w) => word'[b] = "confirmed"

Step(w) == Quiet(w) \/ Counts(w) \/ Ranks(w) \/ Gives(w) \/ WritesBack(w)

\* The job a worker takes up.
LEMMA TakesUp ==
    ASSUME TypeOK, NEW w \in Workers, NEW j, Become(w, j)
    PROVE  job'[w] = j /\ \A v \in Workers : v # w => job'[v] = job[v]
  BY DEF Become, TypeOK

\* Sets of bookings have a size, and parts of them are not larger.
LEMMA Sizes ==
    ASSUME NEW S \in SUBSET Bookings, NEW T \in SUBSET S
    PROVE  /\ IsFiniteSet(S) /\ IsFiniteSet(T)
           /\ Cardinality(S) \in Nat /\ Cardinality(T) \in Nat /\ Cardinality(T) <= Cardinality(S)
  <1>1. IsFiniteSet(S)
    BY FS_Subset
  <1> QED
    BY <1>1, FS_Subset, FS_CardinalityType

\* A saved row that is not booked, or was booked already, books nothing.
LEMMA SaveBooksNone ==
    ASSUME TypeOK, NEW b, NEW r, SaveRow(b, r),
           b \in Bookings => (r.state = "booked" => row[b].state = "booked")
    PROVE  BooksNone
  BY DEF SaveRow, TypeOK, BooksNone

\* A worker that owes no mail takes up a job without any.
LEMMA QuietStep ==
    ASSUME Kept, NEW w \in Workers, BooksNone, job[w].mails = {},
           NEW k, Become(w, k), k.at \notin {"rank", "allocating"}, KeptJob(k)
    PROVE  KeptJob(job'[w]) /\ Quiet(w)
  <1>1. job'[w] = k
    BY TakesUp DEF Kept
  <1>2. ToTell(w) = {}
    BY DEF ToTell
  <1> QED
    BY <1>1, <1>2 DEF Quiet

\* An idle worker owes nothing.
LEMMA IdleKept == KeptJob(Idle) /\ Idle.at = "idle" /\ Idle.mails = {}
  BY DEF KeptJob, Idle

\* A request that is over.
LEMMA FinishQuiet ==
    ASSUME Kept, NEW w \in Workers, BooksNone, job[w].mails = {}, Finish(w)
    PROVE  KeptJob(job'[w]) /\ Quiet(w)
  <1>1. Become(w, Idle)
    BY DEF Finish
  <1> QED
    BY <1>1, IdleKept, QuietStep

\* A request that is cut short owes nothing any more, but what it owed is unsent.
LEMMA CutShortQuiet ==
    ASSUME Kept, NEW w \in Workers, CutShort(w), row' = row
    PROVE  KeptJob(job'[w]) /\ Quiet(w)
  <1>1. job'[w] = Idle
    BY TakesUp DEF CutShort, Finish, Kept
  <1>2. ToTell(w) \subseteq Bookings
    BY DEF ToTell, Kept, TypeOK, Job
  <1>3. \A b \in ToTell(w) : word'[b] = "unsent"
    BY <1>2 DEF CutShort, ToTell
  <1> QED
    BY <1>1, <1>3, IdleKept DEF Quiet, BooksNone, Tells

\* The statements of an allocation.
LEMMA AllocatingSteps ==
    ASSUME Kept, NEW w \in Workers, Allocating(w)
    PROVE  KeptJob(job'[w]) /\ Step(w)
  <1> USE DEF Kept
  <1> DEFINE j == job[w]
  <1>0. j \in Job /\ KeptJob(j)
    BY DEF TypeOK
  <1>1. CASE CountPlaces(w)
    <2>1. row' = row /\ j.mails = {}
      BY <1>0, <1>1 DEF CountPlaces, KeptJob
    <2>2. job'[w] = [Idle EXCEPT !.at = "rank", !.left = Left]
      BY <1>1, TakesUp DEF CountPlaces
    <2>3. job'[w].at = "rank" /\ job'[w].left = Left /\ job'[w].mails = {}
      BY <2>2 DEF Idle
    <2> QED
      BY <2>1, <2>3 DEF Step, Counts, KeptJob
  <1>2. CASE RankQueue(w)
    <2>1. PICK A \in SUBSET Waiting :
            /\ Cardinality(A) = IF Cardinality(Waiting) < j.left THEN Cardinality(Waiting) ELSE j.left
            /\ Become(w, [j EXCEPT
                 !.at = "allocating", !.left = 0,
                 !.rows = Objects(A),
                 !.entries = [b \in Bookings |-> IF b \in A THEN entry[b] ELSE NoEntry],
                 !.todo = A,
                 !.mails = A,
                 !.declined = {b \in Waiting \ A : ~WaitingListMode(entry[b])}])
      BY <1>2 DEF RankQueue
    <2>2. row' = row /\ j.at = "rank" /\ j.mails = {}
      BY <1>0, <1>2 DEF RankQueue, KeptJob
    <2>3. job'[w].at = "allocating" /\ job'[w].todo = A /\ job'[w].mails = A
      <3> DEFINE k == [j EXCEPT
                 !.at = "allocating", !.left = 0,
                 !.rows = Objects(A),
                 !.entries = [b \in Bookings |-> IF b \in A THEN entry[b] ELSE NoEntry],
                 !.todo = A,
                 !.mails = A,
                 !.declined = {b \in Waiting \ A : ~WaitingListMode(entry[b])}]
      <3>1. k.at = "allocating" /\ k.todo = A /\ k.mails = A
        BY <1>0 DEF Job
      <3>2. job'[w] = k
        BY <2>1, TakesUp
      <3> QED
        BY <3>1, <3>2
    <2>4. Waiting \in SUBSET Bookings
      BY DEF Waiting
    <2>5. Cardinality(A) \in Nat /\ Cardinality(Waiting) \in Nat /\ j.left \in Nat
      BY <1>0, <2>4, Sizes DEF Job
    <2>6. Cardinality(A) <= j.left
      BY <2>1, <2>5
    <2> QED
      BY <2>2, <2>3, <2>6 DEF Step, Ranks, KeptJob
  <1>3. CASE SaveBooked(w)
    <2>1. PICK b, booked :
            /\ b \in j.todo
            /\ booked = [j.rows[b] EXCEPT !.state = "booked",
                                          !.expires = @ \/ WaitingListMode(j.entries[b])]
            /\ SaveRow(b, booked)
            /\ Become(w, [j EXCEPT !.rows[b] = booked, !.todo = @ \ {b}])
      BY <1>3 DEF SaveBooked
    <2>2. j.at = "allocating" /\ b \in Bookings /\ j.rows[b] \in Row
      BY <1>0, <1>3, <2>1 DEF SaveBooked, Job
    <2>3. booked.state = "booked"
      BY <2>1, <2>2 DEF Row
    <2>4. \A x \in Bookings : row'[x] = IF x = b THEN booked ELSE row[x]
      BY <2>1 DEF SaveRow, TypeOK
    <2>5. Booked' = Booked \cup {b}
      BY <2>2, <2>3, <2>4 DEF Booked
    <2>6. job'[w].at = "allocating" /\ job'[w].todo = j.todo \ {b} /\ job'[w].mails = j.mails
      <3>1. PICK R : job'[w] = [j EXCEPT !.rows = R, !.todo = @ \ {b}]
        <4>1. job'[w] = [j EXCEPT !.rows[b] = booked, !.todo = @ \ {b}]
          BY <2>1, TakesUp
        <4> QED
          BY <4>1
      <3> HIDE DEF j
      <3> QED
        BY <1>0, <2>2, <3>1 DEF Job
    <2>7. KeptJob(job'[w])
      BY <1>0, <2>2, <2>6 DEF KeptJob
    <2> QED
      BY <2>1, <2>2, <2>5, <2>6, <2>7 DEF Step, Gives
  <1>4. CASE MailAllocated(w)
    <2>1. PICK b \in j.mails :
            /\ word' = [word EXCEPT ![b] = IF j.rows[b].expires THEN "offer" ELSE "confirmed"]
            /\ Become(w, [j EXCEPT !.mails = @ \ {b}])
      BY <1>4 DEF MailAllocated
    <2>2. j.at = "mailing" /\ row' = row /\ b \in Bookings
      BY <1>0, <1>4 DEF MailAllocated, Job
    <2>3. job'[w] = [j EXCEPT !.mails = @ \ {b}]
      BY <2>1, TakesUp
    <2>4. job'[w].at = "mailing" /\ job'[w].mails = j.mails \ {b} /\ job'[w].todo = j.todo
      BY <1>0, <2>2, <2>3 DEF Job
    <2>5. word'[b] \in Tells
      BY <2>1, <2>2 DEF Tells, TypeOK
    <2>6. \A x \in ToTell(w) : x \in ToTell(w)' \/ word'[x] \in Tells
      BY <2>4, <2>5 DEF ToTell
    <2> QED
      BY <2>2, <2>4, <2>6 DEF Step, Quiet, BooksNone, KeptJob
  <1>5. CASE LogAllocated(w)
    <2>1. CASE CutShort(w)
      BY <1>5, <2>1, CutShortQuiet DEF LogAllocated, LogActions, Step
    <2>2. CASE Become(w, [j EXCEPT !.at = "mailing", !.entries = Idle.entries])
      <3>1. row' = row
        BY <1>5 DEF LogAllocated, LogActions
      <3>2. job'[w].at = "mailing" /\ job'[w].mails = j.mails /\ job'[w].todo = j.todo
        <4> DEFINE k == [j EXCEPT !.at = "mailing", !.entries = Idle.entries]
        <4>1. k.at = "mailing" /\ k.mails = j.mails /\ k.todo = j.todo
          BY <1>0 DEF Job
        <4>2. job'[w] = k
          BY <2>2, TakesUp
        <4> QED
          BY <4>1, <4>2
      <3> QED
        BY <3>1, <3>2 DEF Step, Quiet, BooksNone, ToTell, KeptJob
    <2> QED
      BY <1>5, <2>1, <2>2 DEF LogAllocated, LogActions
  \* The rest is about declined bookings, and no mail about a place is left.
  <1>6. CASE LogDeclined(w)
    <2>1. j.mails = {} /\ BooksNone
      BY <1>6 DEF LogDeclined, LogActions, BooksNone
    <2>2. CASE CutShort(w)
      BY <1>6, <2>2, CutShortQuiet DEF LogDeclined, LogActions, Step
    <2>3. CASE Become(w, [j EXCEPT !.at = "declining", !.entries = Idle.entries])
      <3> DEFINE k == [j EXCEPT !.at = "declining", !.entries = Idle.entries]
      <3>1. k.at = "declining" /\ k.mails = {}
        BY <1>0, <2>1 DEF Job
      <3> HIDE DEF k
      <3> QED
        BY <2>1, <2>3, <3>1, QuietStep DEF k, KeptJob, Step
    <2> QED
      BY <1>6, <2>2, <2>3 DEF LogDeclined, LogActions
  <1>7. CASE MailDeclined(w)
    <2>1. j.mails = {} /\ BooksNone
      BY <1>0, <1>7 DEF MailDeclined, BooksNone, KeptJob
    <2>2. PICK b : Become(w, [j EXCEPT !.at = "mark", !.declined = @ \ {b}, !.now = {b}])
      BY <1>7 DEF MailDeclined
    <2> DEFINE k == [j EXCEPT !.at = "mark", !.declined = @ \ {b}, !.now = {b}]
    <2>3. k.at = "mark" /\ k.mails = {}
      BY <1>0, <2>1 DEF Job
    <2> HIDE DEF k
    <2> QED
      BY <2>1, <2>2, <2>3, QuietStep DEF k, KeptJob, Step
  <1>8. CASE MarkDeclined(w)
    <2>1. j.mails = {} /\ BooksNone
      BY <1>0, <1>8 DEF MarkDeclined, BooksNone, KeptJob
    <2> DEFINE k == [j EXCEPT !.at = "declining", !.now = {}]
    <2>2. Become(w, k)
      BY <1>8 DEF MarkDeclined
    <2>3. k.at = "declining" /\ k.mails = {}
      BY <1>0, <2>1 DEF Job
    <2> HIDE DEF k
    <2> QED
      BY <2>1, <2>2, <2>3, QuietStep DEF KeptJob, Step
  <1>9. CASE FinishAllocating(w)
    BY <1>0, <1>9, FinishQuiet DEF FinishAllocating, BooksNone, KeptJob, Step
  <1> QED
    BY <1>1, <1>2, <1>3, <1>4, <1>5, <1>6, <1>7, <1>8, <1>9 DEF Allocating

\* A statement that reads, or writes an entry only.
LEMMA EntriesSteps ==
    ASSUME Kept, NEW w \in Workers, NEW from, NEW to,
           FetchEntry(w, from, to) \/ LeaveQueue(w, from, to),
           from \notin {"allocating", "mailing"},
           to \in {"ask", "leave", "stow", "drop", "tell"}
    PROVE  KeptJob(job'[w]) /\ Step(w)
  <1> DEFINE j == job[w]
             b == Subject(w)
             f == [j EXCEPT !.at = to, !.entries[b] = entry[b]]
             l == [j EXCEPT !.at = to]
  <1>0. j \in Job /\ KeptJob(j)
    BY DEF Kept, TypeOK
  <1>1. BooksNone /\ j.mails = {}
    BY <1>0 DEF FetchEntry, LeaveQueue, BooksNone, KeptJob
  <1>2. Finish(w) \/ Become(w, f) \/ Become(w, l)
    BY DEF FetchEntry, LeaveQueue
  <1> HIDE DEF b
  <1>3. f.at = to /\ f.mails = {} /\ l.at = to /\ l.mails = {}
    BY <1>0, <1>1 DEF Job
  <1> HIDE DEF f, l
  <1>4. KeptJob(f) /\ KeptJob(l)
    BY <1>3 DEF KeptJob
  <1> QED
    BY <1>1, <1>2, <1>3, <1>4, FinishQuiet, QuietStep DEF Step

\* Requests of an account holder, or of staff. Forms and the shelf write back
\* rows that were not booked; an acceptance and a withdrawal write back whatever
\* they read.
LEMMA HoldingSteps ==
    ASSUME Kept, NEW w \in Workers, Holding(w)
    PROVE  KeptJob(job'[w]) /\ Step(w)
  <1> USE DEF Kept
  <1> DEFINE j == job[w]
             b == Subject(w)
  <1>0. j \in Job /\ KeptJob(j) /\ \A x \in Bookings : j.rows[x] \in Row
    BY DEF TypeOK, Job
  <1>z. j.at \notin {"allocating", "mailing"} => j.mails = {}
    BY <1>0 DEF KeptJob
  <1> HIDE DEF b
  <1>a. ASSUME NEW r, SaveRow(b, r), Finish(w), j.mails = {}, b \in Bookings => r.state # "booked"
        PROVE  KeptJob(job'[w]) /\ Step(w)
    BY <1>a, SaveBooksNone, FinishQuiet DEF Step
  <1>b. ASSUME NEW r, SaveRow(b, r), Finish(w), j.mails = {}, j.at \in {"accept", "stow"},
               j.at = "accept" => word' = [word EXCEPT ![b] = "confirmed"]
        PROVE  KeptJob(job'[w]) /\ Step(w)
    <2>1. job'[w] = Idle
      BY <1>b, TakesUp DEF Finish
    <2>2. \A x \in Bookings : x # b => row'[x] = row[x]
      BY <1>b DEF SaveRow, TypeOK
    <2>3. \A x \in Booked' \ Booked : x = Subject(w)
      BY <2>2 DEF Booked, b
    <2>4. j.at = "accept" => \A x \in Bookings : x = Subject(w) => word'[x] = "confirmed"
      BY <1>b DEF TypeOK, b
    <2> QED
      BY <1>b, <2>1, <2>3, <2>4, IdleKept DEF Step, WritesBack
  <1>1. CASE OpenRequest(w)
    <2>1. PICK kind \in KindsOf[w], x \in Bookings :
            /\ Admitted(kind, x) /\ row' = row /\ j.at = "idle"
            /\ Become(w, [Idle EXCEPT !.at = IF kind = "reject" THEN "cancel" ELSE kind,
                                      !.rows = Objects({x}), !.now = {x}])
      BY <1>1 DEF OpenRequest
    <2> DEFINE k == [Idle EXCEPT !.at = IF kind = "reject" THEN "cancel" ELSE kind,
                                 !.rows = Objects({x}), !.now = {x}]
    <2>2. /\ k.at = IF kind = "reject" THEN "cancel" ELSE kind
          /\ k.rows = Objects({x}) /\ k.mails = {}
      BY DEF Idle
    <2> HIDE DEF k
    <2>3. kind \in {"edit", "shelve", "delete", "apply", "withdraw", "accept", "reject", "unbook"}
      BY <2>1 DEF Admitted
    <2>4. k.at \in {"edit", "shelve"} => \A y \in Bookings : k.rows[y].state # "booked"
      BY <2>1, <2>2 DEF Admitted, Listed, Objects, NoRow
    <2>5. k.at \notin {"put_away", "rank", "allocating", "mailing"}
      BY <2>2, <2>3
    <2>6. KeptJob(k)
      BY <2>2, <2>4, <2>5 DEF KeptJob
    <2> QED
      BY <1>z, <2>1, <2>5, <2>6, QuietStep DEF k, Step, BooksNone
  <1>2. CASE SaveUnbooked(w)
    <2> DEFINE r == [j.rows[b] EXCEPT !.state = "cancelled_half_refund"]
    <2>1. SaveRow(b, r) /\ Finish(w) /\ j.mails = {}
      BY <1>z, <1>2 DEF SaveUnbooked, b
    <2>2. b \in Bookings => r.state # "booked"
      BY <1>0 DEF Row
    <2> HIDE DEF r
    <2> QED
      BY <1>a, <2>1, <2>2
  <1>3. CASE SaveForm(w)
    BY <1>0, <1>z, <1>3, <1>a DEF SaveForm, KeptJob, b
  <1>4. CASE MoveShelf(w)
    <2> DEFINE r == [j.rows[b] EXCEPT !.shelved = ~@]
    <2>1. SaveRow(b, r) /\ Finish(w) /\ j.at = "shelve" /\ j.mails = {}
      BY <1>z, <1>4 DEF MoveShelf, b
    <2>2. b \in Bookings => r.state # "booked"
      BY <1>0, <2>1 DEF Row, KeptJob
    <2> HIDE DEF r
    <2> QED
      BY <1>a, <2>1, <2>2
  <1>5. CASE DeleteRow(w)
    <2>1. SaveRow(b, NoRow) /\ Finish(w) /\ j.mails = {}
      BY <1>z, <1>5 DEF DeleteRow, b
    <2>2. NoRow.state # "booked"
      BY DEF NoRow
    <2> QED
      BY <1>a, <2>1, <2>2
  <1>6. CASE FetchEntry(w, "apply", "ask") \/ FetchEntry(w, "withdraw", "leave")
             \/ LeaveQueue(w, "leave", "stow")
    BY <1>6, EntriesSteps
  <1>7. CASE AskForPlaces(w)
    <2> DEFINE k == [j EXCEPT !.at = "enqueue", !.full = (Left = 0)]
    <2>1. BooksNone /\ Become(w, k) /\ j.mails = {}
      BY <1>z, <1>7 DEF AskForPlaces, BooksNone
    <2>2. k.at = "enqueue" /\ k.mails = {}
      BY <1>0, <2>1 DEF Job
    <2> HIDE DEF k
    <2> QED
      BY <2>1, <2>2, QuietStep DEF KeptJob, Step
  <1>8. CASE Enqueue(w)
    BY <1>z, <1>8, FinishQuiet DEF Enqueue, BooksNone, Step
  <1>9. CASE Stow(w)
    BY <1>z, <1>9, <1>b DEF Stow, b
  <1>10. CASE SaveAccepted(w)
    BY <1>z, <1>10, <1>b DEF SaveAccepted, b
  <1> QED
    BY <1>1, <1>2, <1>3, <1>4, <1>5, <1>6, <1>7, <1>8, <1>9, <1>10 DEF Holding

\* The release of places.
LEMMA CancellingSteps ==
    ASSUME Kept, NEW w \in Workers, Cancelling(w)
    PROVE  KeptJob(job'[w]) /\ Step(w)
  <1> USE DEF Kept
  <1> DEFINE j == job[w]
             b == Subject(w)
  <1>0. j \in Job /\ KeptJob(j) /\ \A x \in Bookings : j.rows[x] \in Row
    BY DEF TypeOK, Job
  <1>z. j.at \notin {"allocating", "mailing"} => j.mails = {}
    BY <1>0 DEF KeptJob
  <1> HIDE DEF b
  <1>1. CASE OpenExpire(w)
    <2>1. PICK S, x : Become(w, [Idle EXCEPT !.at = "cancel", !.rows = Objects(S),
                                            !.now = {x}, !.todo = S \ {x}])
      BY <1>1 DEF OpenExpire
    <2> DEFINE k == [Idle EXCEPT !.at = "cancel", !.rows = Objects(S), !.now = {x}, !.todo = S \ {x}]
    <2>2. k.at = "cancel" /\ k.mails = {}
      BY DEF Idle
    <2> HIDE DEF k
    <2>3. BooksNone /\ j.mails = {}
      BY <1>z, <1>1 DEF OpenExpire, BooksNone
    <2> QED
      BY <2>1, <2>2, <2>3, QuietStep DEF k, KeptJob, Step
  <1>2. CASE SaveCancelled(w)
    <2> DEFINE r == [j.rows[b] EXCEPT !.state = "cancelled_full_refund", !.expires = FALSE]
               k == [j EXCEPT !.at = "put_away", !.rows[b] = r]
    <2>1. SaveRow(b, r) /\ Become(w, k) /\ j.mails = {}
      BY <1>z, <1>2 DEF SaveCancelled, b
    <2>2. b \in Bookings => r.state # "booked"
      BY <1>0 DEF Row
    <2> HIDE DEF r
    <2>3. k.at = "put_away" /\ k.mails = {} /\ k.now = j.now /\ (b \in Bookings => k.rows[b] = r)
      BY <1>0, <2>1 DEF Job
    <2> HIDE DEF k
    <2>4. b = CHOOSE x \in Bookings : x \in k.now
      BY <2>3 DEF Subject, b
    <2>5. KeptJob(k)
      BY <2>2, <2>3, <2>4 DEF KeptJob
    <2> QED
      BY <2>1, <2>2, <2>3, <2>5, SaveBooksNone, QuietStep DEF Step
  <1>3. CASE PutAway(w)
    <2> DEFINE r == [j.rows[b] EXCEPT !.shelved = TRUE]
               k == [j EXCEPT !.at = "lookup"]
    <2>1. SaveRow(b, r) /\ Become(w, k) /\ j.at = "put_away" /\ j.mails = {}
      BY <1>z, <1>3 DEF PutAway, b
    <2>2. b \in Bookings => j.rows[b].state # "booked"
      BY <1>0, <2>1 DEF KeptJob, Subject, b
    <2>3. b \in Bookings => r.state # "booked"
      BY <1>0, <2>2 DEF Row
    <2>4. k.at = "lookup" /\ k.mails = {}
      BY <1>0, <2>1 DEF Job
    <2> HIDE DEF r, k
    <2> QED
      BY <2>1, <2>3, <2>4, SaveBooksNone, QuietStep DEF KeptJob, Step
  <1>4. CASE FetchEntry(w, "lookup", "drop") \/ LeaveQueue(w, "drop", "tell")
    BY <1>4, EntriesSteps
  <1>5. CASE TellReleased(w)
    <2>1. BooksNone /\ j.mails = {}
      BY <1>z, <1>5 DEF TellReleased, BooksNone
    <2>2. CASE Finish(w)
      BY <2>1, <2>2, FinishQuiet DEF Step
    <2>3. ASSUME NEW x, Become(w, [j EXCEPT !.at = "cancel", !.now = {x}, !.todo = @ \ {x}])
          PROVE  KeptJob(job'[w]) /\ Step(w)
      <3> DEFINE k == [j EXCEPT !.at = "cancel", !.now = {x}, !.todo = @ \ {x}]
      <3>1. k.at = "cancel" /\ k.mails = {}
        BY <1>0, <2>1 DEF Job
      <3> HIDE DEF k
      <3> QED
        BY <2>1, <2>3, <3>1, QuietStep DEF k, KeptJob, Step
    <2> QED
      BY <1>5, <2>2, <2>3 DEF TellReleased
  <1> QED
    BY <1>1, <1>2, <1>3, <1>4, <1>5 DEF Cancelling

\* Every step is one of them, and touches no other worker's job.
LEMMA WorkSteps ==
    ASSUME Kept, NEW w \in Workers, Work(w)
    PROVE  /\ KeptJob(job'[w]) /\ Step(w)
           /\ \A v \in Workers : v # w => job'[v] = job[v]
  <1>1. KeptJob(job'[w]) /\ Step(w)
    <2>1. CASE Die(w)
      BY <2>1, CutShortQuiet DEF Die, Step
    <2> QED
      BY <2>1, AllocatingSteps, HoldingSteps, CancellingSteps DEF Work
  <1>2. \E k : Become(w, k)
    BY DEF Work, Allocating, Holding, Cancelling, Die, CountPlaces, RankQueue, SaveBooked,
           LogAllocated, LogDeclined, LogActions, MailAllocated, MailDeclined, MarkDeclined,
           FinishAllocating, OpenRequest, SaveUnbooked, SaveForm, MoveShelf, DeleteRow,
           FetchEntry, AskForPlaces, Enqueue, LeaveQueue, Stow, SaveAccepted, OpenExpire,
           SaveCancelled, PutAway, TellReleased, CutShort, Finish
  <1> QED
    BY <1>1, <1>2, TakesUp DEF Kept

\* The invariant of single steps, whatever overlaps and dies.
LEMMA KeptInvariant == Spec => []Kept
  <1>1. Init => \A w \in Workers : KeptJob(job[w])
    BY IdleKept DEF Init
  <1>2. TypeOK /\ TypeOK' /\ (\A w \in Workers : KeptJob(job[w])) /\ [Next]_vars
            => (\A w \in Workers : KeptJob(job[w]))'
    <2> SUFFICES ASSUME Kept, [Next]_vars PROVE \A v \in Workers : KeptJob(job'[v])
      BY DEF Kept, KeptJob
    <2>1. CASE UNCHANGED vars
      BY <2>1 DEF vars, Kept
    <2>2. ASSUME NEW w \in Workers, Work(w) PROVE \A v \in Workers : KeptJob(job'[v])
      BY <2>2, WorkSteps DEF Kept
    <2> QED
      BY <2>1, <2>2 DEF Next
  <1> QED
    BY <1>1, <1>2, TypeCorrect, PTL DEF Spec, Kept

\* Who makes a place booked that was not, books it.
LEMMA BookedByOne ==
    ASSUME Kept, NEW w \in Workers, Work(w), NEW b \in Booked' \ Booked
    PROVE  /\ Books(w)
           /\ \/ job[w].at = "allocating" /\ b \in ToTell(w)'
              \/ job[w].at = "accept" /\ word'[b] = "confirmed"
              \/ job[w].at = "stow" /\ b = Subject(w)
  <1>1. b \in Bookings /\ row'[b].state = "booked" /\ row[b].state # "booked"
    BY DEF Booked
  <1>2. Gives(w) \/ WritesBack(w)
    BY <1>1, WorkSteps DEF Step, Quiet, BooksNone, Counts, Ranks
  <1>3. CASE Gives(w)
    <2>1. PICK x \in job[w].todo : Booked' = Booked \cup {x} /\ job'[w].todo = job[w].todo \ {x}
      BY <1>3 DEF Gives
    <2>2. b = x
      BY <2>1
    <2>3. b \in job[w].todo /\ b \notin job'[w].todo
      BY <2>1, <2>2
    <2>4. job[w].at = "allocating" /\ job[w].todo \subseteq job[w].mails /\ job'[w].mails = job[w].mails
      BY <1>3 DEF Gives, Kept, KeptJob
    <2> QED
      BY <2>3, <2>4 DEF Books, ToTell
  <1>4. CASE WritesBack(w)
    <2>1. b = Subject(w) /\ job'[w] # job[w] /\ job[w].at \in {"accept", "stow"}
      BY <1>4 DEF WritesBack
    <2>2. job[w].at = "accept" => word'[b] = "confirmed"
      BY <1>1, <1>4, <2>1 DEF WritesBack
    <2> QED
      BY <2>1, <2>2 DEF Books
  <1> QED
    BY <1>2, <1>3, <1>4

-----------------------------------------------------------------------------
(* The limit. *)

\* An allocation's own steps keep its room: it counts while the limit holds, and
\* chooses no more than it counted.
LEMMA OwnRoom ==
    ASSUME Kept, WithinLimit, NEW w \in Workers, Work(w), HasRoom(w)
    PROVE  HasRoom(w)'
  <1> DEFINE j == job[w]
  <1>0. Booked \in SUBSET Bookings /\ Cardinality(Booked) \in Nat
    BY Sizes DEF Booked
  <1>1. Step(w)
    BY WorkSteps
  <1>2. CASE Quiet(w) \/ WritesBack(w)
    BY <1>2 DEF Quiet, WritesBack, HasRoom
  <1>3. CASE Counts(w)
    <2>1. Booked' = Booked /\ job'[w].at = "rank" /\ job'[w].left = Left
      BY <1>3 DEF Counts, Booked
    <2>2. Cardinality(Booked) + Left <= MaxPlaces
      BY <1>0 DEF Left, WithinLimit
    <2> QED
      BY <2>1, <2>2 DEF HasRoom
  <1>4. CASE Ranks(w)
    <2>1. PICK A \in SUBSET Waiting : Cardinality(A) <= j.left /\ job'[w].todo = A
      BY <1>4 DEF Ranks
    <2>2. Booked' = Booked /\ j.at = "rank" /\ job'[w].at = "allocating"
      BY <1>4 DEF Ranks, Booked
    <2>3. A \in SUBSET Bookings /\ A \cap Booked = {}
      BY DEF Waiting, Booked
    <2>4. IsFiniteSet(A) /\ IsFiniteSet(Booked) /\ Cardinality(A) \in Nat
      BY <1>0, <2>3, Sizes
    <2>5. Cardinality(Booked \cup A) = Cardinality(Booked) + Cardinality(A)
      <3>1. Cardinality(Booked \cap A) = 0
        <4>1. Booked \cap A = {}
          BY <2>3
        <4> QED
          BY <4>1, FS_EmptySet
      <3>2. Cardinality(Booked \cup A)
              = Cardinality(Booked) + Cardinality(A) - Cardinality(Booked \cap A)
        BY <2>4, FS_Union
      <3> QED
        BY <1>0, <2>4, <3>1, <3>2
    <2>6. Cardinality(Booked) + j.left <= MaxPlaces /\ j.left \in Nat
      BY <2>2 DEF HasRoom, Kept, TypeOK, Job
    <2>7. Cardinality(Booked \cup A) <= MaxPlaces
      BY <1>0, <2>1, <2>4, <2>5, <2>6
    <2> QED
      BY <2>1, <2>2, <2>7 DEF HasRoom
  <1>5. CASE Gives(w)
    <2>1. PICK x \in j.todo : Booked' = Booked \cup {x} /\ job'[w].todo = j.todo \ {x}
      BY <1>5 DEF Gives
    <2>2. Booked' \cup job'[w].todo = Booked \cup j.todo
      BY <2>1
    <2> QED
      BY <1>5, <2>2 DEF Gives, HasRoom
  <1> QED
    BY <1>1, <1>2, <1>3, <1>4, <1>5 DEF Step

\* It loses it to somebody else who books.
LEMMA OthersRoom ==
    ASSUME Kept, NEW w \in Workers, NEW v \in Workers, job'[v] = job[v],
           HasRoom(v), ~HasRoom(v)'
    PROVE  Booked' \ Booked # {}
  <1> SUFFICES ASSUME Booked' \subseteq Booked PROVE FALSE
    OBVIOUS
  <1>1. Booked \in SUBSET Bookings /\ job[v].todo \in SUBSET Bookings /\ job[v].left \in Nat
    BY DEF Booked, Kept, TypeOK, Job
  <1>2. /\ Cardinality(Booked) \in Nat /\ Cardinality(Booked') \in Nat
        /\ Cardinality(Booked') <= Cardinality(Booked)
    BY <1>1, Sizes
  <1>3. /\ Cardinality(Booked' \cup job[v].todo) \in Nat /\ Cardinality(Booked \cup job[v].todo) \in Nat
        /\ Cardinality(Booked' \cup job[v].todo) <= Cardinality(Booked \cup job[v].todo)
    BY <1>1, Sizes
  <1>4. CASE job[v].at = "rank"
    <2>1. Cardinality(Booked) + job[v].left <= MaxPlaces
      BY <1>4 DEF HasRoom
    <2> QED
      BY <1>1, <1>2, <1>4, <2>1 DEF HasRoom
  <1>5. CASE job[v].at = "allocating"
    <2>1. Cardinality(Booked \cup job[v].todo) <= MaxPlaces
      BY <1>5 DEF HasRoom
    <2> QED
      BY <1>3, <1>5, <2>1 DEF HasRoom
  <1> QED
    BY <1>4, <1>5 DEF HasRoom

\* allocate_places_and_notify counts the places, then saves a place for each
\* booking it has chosen, in statements of their own; nothing keeps two of them
\* apart, nor one from a request that writes a booked row back. However many there
\* are: the room that was counted is lost to somebody else only, and the limit is
\* broken only by an allocation that has lost its room or by a row written back.
THEOREM OnlyOverlapsOverbook == Spec => OverbookingTakesTwo
  <1> DEFINE Loses == \A w \in Workers : HasRoom(w) /\ ~HasRoom(w)' =>
                        ~WithinLimit \/ \E v \in Workers \ {w} : Books(v)
             Breaks == WithinLimit /\ ~WithinLimit' =>
                        \E w \in Workers : Books(w) /\ (job[w].at = "allocating" => ~HasRoom(w))
  <1>1. ASSUME Kept, NEW w \in Workers, Work(w) PROVE Loses
    <2> SUFFICES ASSUME NEW v \in Workers, HasRoom(v), ~HasRoom(v)', WithinLimit
                 PROVE  \E u \in Workers \ {v} : Books(u)
      OBVIOUS
    <2>1. v # w
      BY <1>1, OwnRoom
    <2>2. job'[v] = job[v]
      BY <1>1, <2>1, WorkSteps
    <2>3. Booked' \ Booked # {}
      BY <1>1, <2>2, OthersRoom
    <2>4. Books(w)
      BY <1>1, <2>3, BookedByOne
    <2> QED
      BY <2>1, <2>4
  <1>2. ASSUME Kept, NEW w \in Workers, Work(w) PROVE Breaks
    <2> SUFFICES ASSUME WithinLimit, ~WithinLimit'
                 PROVE  Books(w) /\ (job[w].at = "allocating" => ~HasRoom(w))
      OBVIOUS
    <2>0. Booked \in SUBSET Bookings
      BY DEF Booked
    <2>1. Booked' \ Booked # {}
      <3> SUFFICES ASSUME Booked' \subseteq Booked PROVE FALSE
        OBVIOUS
      <3>1. /\ Cardinality(Booked) \in Nat /\ Cardinality(Booked') \in Nat
            /\ Cardinality(Booked') <= Cardinality(Booked)
        BY <2>0, Sizes
      <3> QED
        BY <3>1 DEF WithinLimit
    <2>2. Books(w)
      BY <1>2, <2>1, BookedByOne
    <2>3. ASSUME job[w].at = "allocating", HasRoom(w) PROVE FALSE
      <3>1. Gives(w)
        BY <1>2, <2>1, <2>3, WorkSteps
        DEF Step, Quiet, BooksNone, Booked, Counts, Ranks, WritesBack
      <3>2. Booked' \subseteq Booked \cup job[w].todo
        BY <3>1 DEF Gives
      <3>3. Cardinality(Booked \cup job[w].todo) <= MaxPlaces
        BY <2>3 DEF HasRoom
      <3>4. Booked \cup job[w].todo \in SUBSET Bookings
        BY <1>2, <2>0 DEF Kept, TypeOK, Job
      <3>5. /\ Cardinality(Booked') \in Nat /\ Cardinality(Booked \cup job[w].todo) \in Nat
            /\ Cardinality(Booked') <= Cardinality(Booked \cup job[w].todo)
        BY <3>2, <3>4, Sizes
      <3> QED
        BY <3>3, <3>5 DEF WithinLimit
    <2> QED
      BY <2>2, <2>3
  <1>3. Kept /\ [Next]_vars => [Loses /\ Breaks]_vars
    BY <1>1, <1>2 DEF Next
  <1> QED
    BY <1>3, KeptInvariant, PTL DEF Spec, OverbookingTakesTwo

-----------------------------------------------------------------------------
(* The mails. *)

\* A place is saved in one request and told of later in the same one; in between,
\* requests of others end and die. However they overlap: a place that is given is
\* owed a mail until the mail is sent or the request is cut short, and a row
\* that is written back as booked is confirmed along with it, except where it is
\* a withdrawal that writes it back.
THEOREM GivenPlacesAreOwedMails == Spec => OwedUntilTold
  <1> DEFINE Keeps == \A b \in Bookings :
                /\ b \in Booked' \ Booked =>
                    \/ word'[b] = "confirmed" \/ \E w \in Workers : b \in ToTell(w)'
                    \/ \E w \in Workers : job[w].at = "stow" /\ b = Subject(w) /\ Books(w)
                /\ \A w \in Workers : b \in ToTell(w) /\ b \notin ToTell(w)' =>
                    word'[b] \in {"offer", "confirmed", "unsent"}
  <1>1. ASSUME Kept, NEW w \in Workers, Work(w) PROVE Keeps
    <2>1. ASSUME NEW v \in Workers, NEW b, b \in ToTell(v), b \notin ToTell(v)'
          PROVE  word'[b] \in {"offer", "confirmed", "unsent"}
      <3>1. v = w
        BY <1>1, <2>1, WorkSteps DEF ToTell
      <3>2. Step(w) /\ job[w].mails # {}
        BY <1>1, <2>1, <3>1, WorkSteps DEF ToTell
      <3>3. Quiet(w) \/ Gives(w)
        BY <3>2 DEF Step, Counts, Ranks, WritesBack
      <3>4. CASE Quiet(w)
        BY <2>1, <3>1, <3>4 DEF Quiet, Tells
      <3>5. CASE Gives(w)
        BY <2>1, <3>1, <3>5 DEF Gives, ToTell
      <3> QED
        BY <3>3, <3>4, <3>5
    <2> QED
      BY <1>1, <2>1, BookedByOne
  <1>2. Kept /\ [Next]_vars => [Keeps]_vars
    BY <1>1 DEF Next
  <1> QED
    BY <1>2, KeptInvariant, PTL DEF Spec, OwedUntilTold

=============================================================================
