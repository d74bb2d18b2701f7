------------------------- MODULE IncomingMail_proofs -------------------------
(***************************************************************************)
(* What module IncomingMail keeps for any messages, lists and workers.     *)
(***************************************************************************)
EXTENDS IncomingMail, FiniteSetTheorems, TLAPS

USE IncomingMailAssumption

\* A worker on a task works on a message whose file is not old; once it has opened
\* the file, the file is still there under its name, and who handles the message
\* holds the lock of that very file.
Placed(w) ==
    /\ Working(w) => job[w].msg \in Messages \ old
    /\ job[w].at \in {"lock", "fetch", "route", "send"} =>
        job[w].inode # 0 /\ job[w].inode = file[job[w].msg]
    /\ HandlingNow(w) => lock[job[w].inode] = w
    /\ job[w].at = "send" => job[w].todo # <<>>

\* Nothing more happens to a message whose file is old.
Quiet == \A m \in old : tasks[m] = 0 /\ notices[m] = MaxNotices

FileInv ==
    /\ TypeOK
    /\ \A w \in Workers : Placed(w)
    /\ Quiet

-----------------------------------------------------------------------------
(* Types. *)

\* A worker that is done has a job of the right type.
LEMMA IdleTyped == Idle \in Job
  BY DEF Idle, Job, ReplyTos, Senders

\* The first of the addresses that are left, and the others.
LEMMA HeadTyped ==
  ASSUME NEW s \in Seq(Addresses), s # <<>>
  PROVE  Head(s) \in Addresses /\ Tail(s) \in Seq(Addresses)
  OBVIOUS

\* The groups that a mail to a list goes to are groups.
LEMMA GroupsTyped ==
  ASSUME NEW m, NEW a \in Addresses
  PROVE  MessagesToSend(m, a) \in SUBSET Groups
<1>1. ASSUME NEW g \in GroupsOf(a) PROVE g \in SUBSET Members[a]
  BY <1>1 DEF GroupsOf
<1>2. ASSUME NEW g \in GroupsOf(a) PROVE g \ NoAddress \in Groups
  <2>1. g \ NoAddress \in SUBSET Members[a]
    BY <1>1
  <2>. QED
    BY <2>1 DEF Groups
<1>. QED
  BY <1>2 DEF MessagesToSend

\* A worker that goes on with a job of the right type leaves the others alone.
LEMMA GoesTyped ==
  ASSUME job \in [Workers -> Job], NEW w \in Workers, NEW j \in Job, Goes(w, j)
  PROVE  /\ job' \in [Workers -> Job]
         /\ job'[w] = j
         /\ \A v \in Workers : v # w => job'[v] = job[v]
  BY DEF Goes

\* A worker that leaves gives back its own locks only.
LEMMA LeaveTyped ==
  ASSUME job \in [Workers -> Job], lock \in [1..inodes -> Workers \cup {Free}],
         NEW w \in Workers, Leave(w)
  PROVE  /\ job' \in [Workers -> Job]
         /\ job'[w] = Idle
         /\ \A v \in Workers : v # w => job'[v] = job[v]
         /\ lock' \in [1..inodes -> Workers \cup {Free}]
         /\ \A i \in 1..inodes, v \in Workers : v # w /\ lock[i] = v => lock'[i] = v
<1>1. Goes(w, Idle) /\ lock' = Lets(w)
  BY DEF Leave
<1>2. lock' \in [1..inodes -> Workers \cup {Free}]
  BY <1>1 DEF Lets
<1>3. \A i \in 1..inodes, v \in Workers : v # w /\ lock[i] = v => lock'[i] = v
  BY <1>1 DEF Lets
<1>. QED
  BY <1>1, <1>2, <1>3, IdleTyped, GoesTyped

-----------------------------------------------------------------------------
(* The file and its lock. *)

\* A step that takes no file and no lock away leaves a worker well placed that it
\* is not a step of.
LEMMA OthersPlaced ==
  ASSUME TypeOK, NEW v \in Workers, Placed(v), job'[v] = job[v], old' = old,
         \A m \in Messages : file[m] # 0 => file'[m] = file[m],
         \A i \in 1..inodes : lock[i] = v => lock'[i] = v
  PROVE  Placed(v)'
<1>1. job[v].at \in {"lock", "fetch", "route", "send"} =>
        job[v].msg \in Messages /\ job[v].inode \in 1..inodes
  BY DEF TypeOK, Placed, Working
<1>. QED
  BY <1>1 DEF Placed, Working, HandlingNow

\* What a step of worker w, which has an old task, has to show for itself.
LEMMA StepKeeps ==
  ASSUME FileInv, NEW w \in Workers, TypeOK', Placed(w)',
         \A v \in Workers : v # w => job'[v] = job[v],
         UNCHANGED <<old, notices>>,
         \A m \in Messages : file[m] # 0 => file'[m] = file[m],
         \A i \in 1..inodes, v \in Workers : v # w /\ lock[i] = v => lock'[i] = v,
         \A m \in old : tasks'[m] = tasks[m]
  PROVE  FileInv'
<1>1. \A v \in Workers : v # w => Placed(v)'
  BY OthersPlaced DEF FileInv
<1>. QED
  BY <1>1 DEF FileInv, Quiet

\* Notifications and time.
LEMMA EnvironmentKeeps ==
  ASSUME FileInv, NEW m \in Messages, Notify(m) \/ Ages(m)
  PROVE  FileInv'
<1>. USE DEF FileInv, TypeOK, Quiet
<1>1. CASE Notify(m)
  <2>1. TypeOK' /\ Quiet'
    <3>1. notices' \in [Messages -> 0..MaxNotices] /\ tasks' \in [Messages -> Nat]
      BY <1>1 DEF Notify
    <3>2. Quiet'
      BY <1>1 DEF Notify, files
    <3>. QED
      BY <1>1, <3>1, <3>2 DEF Notify, files, mailbox, history
  <2>2. \A w \in Workers : Placed(w)'
    BY <1>1 DEF Notify, files, Placed, Working, HandlingNow
  <2>. QED
    BY <2>1, <2>2
<1>2. CASE Ages(m)
  <2>1. TypeOK' /\ Quiet'
    <3>1. notices' \in [Messages -> 0..MaxNotices] /\ old' \subseteq Messages
      BY <1>2 DEF Ages
    <3>2. Quiet'
      BY <1>2 DEF Ages
    <3>. QED
      BY <1>2, <3>1, <3>2 DEF Ages, mailbox, history
  <2>2. ASSUME NEW w \in Workers PROVE Placed(w)'
    BY <1>2 DEF Ages, UnderWay, Placed, Working, HandlingNow
  <2>. QED
    BY <2>1, <2>2
<1>. QED
  BY <1>1, <1>2

\* Only files that nobody works with are tidied away.
LEMMA CleanUpKeeps ==
  ASSUME FileInv, CleanUp
  PROVE  FileInv'
<1>. USE DEF FileInv, TypeOK
<1>1. TypeOK' /\ Quiet'
  BY DEF CleanUp, Stale, mailbox, history, Quiet
<1>2. ASSUME NEW w \in Workers PROVE Placed(w)'
  BY DEF CleanUp, Stale, Placed, Working, HandlingNow
<1>. QED
  BY <1>1, <1>2

\* A worker takes a task, tests for the file and opens it.
LEMMA OpeningKeeps ==
  ASSUME FileInv, NEW w \in Workers,
         (\E m \in Messages : Take(w, m)) \/ Test(w) \/ Open(w)
  PROVE  FileInv'
<1>. USE DEF FileInv
<1>0. job \in [Workers -> Job] /\ job[w] \in Job /\ Idle \in Job
  BY IdleTyped DEF TypeOK
<1>1. ASSUME NEW m \in Messages, Take(w, m) PROVE FileInv'
  <2>. DEFINE j == [Idle EXCEPT !.at = "test", !.msg = m]
  <2>1. j \in Job /\ j.at = "test" /\ j.msg = m
    BY <1>0 DEF Job, Idle
  <2>2. job' \in [Workers -> Job] /\ job'[w] = j /\ \A v \in Workers : v # w => job'[v] = job[v]
    BY <1>0, <1>1, <2>1 DEF Take
  <2>. HIDE DEF j
  <2>3. m \notin old
    <3>1. tasks[m] > 0
      BY <1>1 DEF Take
    <3>. QED
      BY <3>1 DEF Quiet
  <2>4. TypeOK'
    <3>1. tasks[m] > 0 /\ tasks' = [tasks EXCEPT ![m] = @ - 1]
      BY <1>1 DEF Take
    <3>2. tasks \in [Messages -> Nat]
      BY DEF TypeOK
    <3>3. tasks' \in [Messages -> Nat]
      BY <3>1, <3>2
    <3>. QED
      BY <1>1, <2>2, <3>3 DEF Take, files, mailbox, history, TypeOK
  <2>5. Placed(w)'
    <3>1. old' = old
      BY <1>1 DEF Take, files
    <3>. QED
      BY <2>1, <2>2, <2>3, <3>1 DEF Placed, Working, HandlingNow
  <2>6. \A n \in old : tasks'[n] = tasks[n]
    BY <1>1, <2>3 DEF Take, TypeOK
  <2>. QED
    BY <1>1, <2>2, <2>4, <2>5, <2>6, StepKeeps DEF Take, files
<1>2. CASE Test(w)
  <2>. DEFINE m == job[w].msg
  <2>1. m \in Messages \ old
    BY <1>2 DEF Test, Placed, Working
  <2>2. PICK j \in Job : Goes(w, j) /\ (j = Idle \/ j = [job[w] EXCEPT !.at = "open"])
    BY <1>0, <1>2 DEF Test, Job
  <2>3. job' \in [Workers -> Job] /\ job'[w] = j /\ \A v \in Workers : v # w => job'[v] = job[v]
    BY <1>0, <2>2, GoesTyped
  <2>4. slipped' \in [Messages -> Nat]
    <3>. DEFINE n == IF UnderWay(m) = {w} THEN 0 ELSE 1
    <3>1. n \in Nat
      OBVIOUS
    <3>2. slipped' = slipped \/ slipped' = [slipped EXCEPT ![m] = @ + n]
      BY <1>2 DEF Test
    <3>. HIDE DEF n
    <3>3. slipped \in [Messages -> Nat]
      BY DEF TypeOK
    <3>. QED
      BY <2>1, <3>1, <3>2, <3>3
  <2>5. TypeOK'
    BY <1>2, <2>3, <2>4 DEF Test, files, mailbox, TypeOK
  <2>6. Placed(w)'
    BY <1>0, <1>2, <2>1, <2>2, <2>3 DEF Test, files, Placed, Working, HandlingNow, Idle, Job
  <2>. QED
    BY <1>2, <2>3, <2>5, <2>6, StepKeeps DEF Test, files
<1>3. CASE Open(w)
  <2>. DEFINE m == job[w].msg
  <2>1. m \in Messages \ old
    BY <1>3 DEF Open, Placed, Working
  <2>2. PICK i \in Nat : Goes(w, [job[w] EXCEPT !.at = "lock", !.inode = i]) /\ i = file'[m] /\ i # 0
    <3>1. CASE file[m] # 0 /\ UNCHANGED files /\ Goes(w, [job[w] EXCEPT !.at = "lock", !.inode = file[m]])
      <4>1. file'[m] = file[m] /\ file[m] \in Nat
        BY <2>1, <3>1 DEF files, TypeOK
      <4>. QED
        BY <3>1, <4>1
    <3>2. CASE /\ file' = [file EXCEPT ![m] = inodes + 1]
               /\ Goes(w, [job[w] EXCEPT !.at = "lock", !.inode = inodes + 1])
      <4>1. inodes \in Nat /\ file \in [Messages -> 0..inodes]
        BY DEF TypeOK
      <4>2. file'[m] = inodes + 1
        BY <2>1, <3>2, <4>1
      <4>3. inodes + 1 \in Nat /\ inodes + 1 # 0
        BY <4>1
      <4>. HIDE DEF m
      <4>. QED
        BY <3>2, <4>2, <4>3, Zenon
    <3>. QED
      BY <1>3, <3>1, <3>2 DEF Open
  <2>. DEFINE j == [job[w] EXCEPT !.at = "lock", !.inode = i]
  <2>3. j \in Job /\ j.at = "lock" /\ j.inode = i /\ j.msg = m
    BY <1>0 DEF Job
  <2>4. job' \in [Workers -> Job] /\ job'[w] = j /\ \A v \in Workers : v # w => job'[v] = job[v]
    BY <1>0, <2>2, <2>3, GoesTyped
  <2>. HIDE DEF j
  <2>5. /\ inodes' \in Nat /\ file' \in [Messages -> 0..inodes']
        /\ lock' \in [1..inodes' -> Workers \cup {Free}]
        /\ old' = old
    <3>1. CASE UNCHANGED files
      BY <3>1 DEF files, TypeOK
    <3>2. CASE /\ inodes' = inodes + 1 /\ file' = [file EXCEPT ![m] = inodes + 1]
               /\ lock' = [k \in 1..inodes + 1 |-> IF k \in DOMAIN lock THEN lock[k] ELSE Free]
               /\ UNCHANGED old
      <4>1. inodes \in Nat /\ file \in [Messages -> 0..inodes]
        BY DEF TypeOK
      <4>2. inodes' \in Nat /\ file' \in [Messages -> 0..inodes']
        <5>1. inodes + 1 \in Nat /\ inodes + 1 \in 0..(inodes + 1)
          BY <4>1
        <5>2. file \in [Messages -> 0..(inodes + 1)]
          BY <4>1
        <5>. QED
          BY <3>2, <5>1, <5>2
      <4>3. lock' \in [1..inodes' -> Workers \cup {Free}]
        BY <3>2 DEF TypeOK
      <4>. QED
        BY <3>2, <4>2, <4>3
    <3>. QED
      BY <1>3, <3>1, <3>2 DEF Open
  <2>6. \A k \in 1..inodes : lock'[k] = lock[k]
    BY <1>3 DEF Open, files, TypeOK
  <2>7. \A n \in Messages : file[n] # 0 => file'[n] = file[n]
    BY <1>3, <2>1 DEF Open, files, TypeOK
  <2>8. TypeOK'
    BY <1>3, <2>4, <2>5 DEF Open, mailbox, history, TypeOK
  <2>9. Placed(w)'
    BY <2>1, <2>2, <2>3, <2>4, <2>5 DEF Placed, Working, HandlingNow
  <2>. QED
    BY <1>3, <2>4, <2>5, <2>6, <2>7, <2>8, <2>9, StepKeeps DEF Open
<1>. QED
  BY <1>1, <1>2, <1>3

\* A worker locks the file, or gives up.
LEMMA LockKeeps ==
  ASSUME FileInv, NEW w \in Workers, Lock(w)
  PROVE  FileInv'
<1>. USE DEF FileInv
<1>. DEFINE i == job[w].inode
            m == job[w].msg
<1>0. job \in [Workers -> Job] /\ job[w] \in Job /\ Idle \in Job
  BY IdleTyped DEF TypeOK
<1>1. m \in Messages \ old /\ i # 0 /\ i = file[m] /\ i \in 1..inodes
  BY DEF Lock, Placed, Working, TypeOK
<1>2. CASE Goes(w, Idle) /\ UNCHANGED <<lock, begun>>
  <2>1. job' \in [Workers -> Job] /\ job'[w] = Idle /\ \A v \in Workers : v # w => job'[v] = job[v]
    BY <1>0, <1>2, GoesTyped
  <2>2. TypeOK'
    BY <1>2, <2>1 DEF Lock, mailbox, TypeOK
  <2>3. Placed(w)'
    BY <2>1 DEF Placed, Working, HandlingNow, Idle
  <2>. QED
    BY <1>2, <2>1, <2>2, <2>3, StepKeeps DEF Lock
<1>3. CASE /\ lock[i] = Free /\ lock' = [lock EXCEPT ![i] = w]
           /\ begun' = [begun EXCEPT ![m] = @ + 1]
           /\ Goes(w, [job[w] EXCEPT !.at = "fetch"])
  <2>. DEFINE j == [job[w] EXCEPT !.at = "fetch"]
  <2>1. j \in Job /\ j.at = "fetch" /\ j.inode = i /\ j.msg = m
    BY <1>0 DEF Job
  <2>2. job' \in [Workers -> Job] /\ job'[w] = j /\ \A v \in Workers : v # w => job'[v] = job[v]
    BY <1>0, <1>3, <2>1, GoesTyped
  <2>. HIDE DEF j
  <2>3. lock' \in [1..inodes -> Workers \cup {Free}] /\ lock'[i] = w
        /\ \A k \in 1..inodes : k # i => lock'[k] = lock[k]
    BY <1>1, <1>3 DEF TypeOK
  <2>4. begun' \in [Messages -> Nat]
    BY <1>1, <1>3 DEF TypeOK
  <2>5. TypeOK'
    BY <2>2, <2>3, <2>4 DEF Lock, mailbox, TypeOK
  <2>6. Placed(w)'
    BY <1>1, <2>1, <2>2, <2>3 DEF Lock, Placed, Working, HandlingNow
  <2>7. \A k \in 1..inodes, v \in Workers : v # w /\ lock[k] = v => lock'[k] = v
    BY <1>3, <2>3 DEF Free
  <2>. QED
    BY <2>2, <2>5, <2>6, <2>7, StepKeeps DEF Lock
<1>. QED
  BY <1>2, <1>3 DEF Lock

\* Going on with the message whose file one holds.
LEMMA GoingOnKeeps ==
  ASSUME FileInv, NEW w \in Workers, HandlingNow(w),
         NEW j \in Job, Goes(w, j), j.at \in {"route", "send"},
         j.msg = job[w].msg, j.inode = job[w].inode, j.at = "send" => j.todo # <<>>,
         UNCHANGED <<notices, tasks, files, begun, slipped, cutShort, done>>,
         copies' \subseteq Copy, refused' \subseteq Messages \X Addresses \X Groups,
         reports' \subseteq Messages \X Addresses \X Senders,
         troubles' \in 0..MaxTroubles
  PROVE  FileInv'
<1>. USE DEF FileInv, files
<1>1. job' \in [Workers -> Job] /\ job'[w] = j /\ \A v \in Workers : v # w => job'[v] = job[v]
  BY GoesTyped DEF TypeOK
<1>2. TypeOK'
  BY <1>1 DEF TypeOK
<1>3. Placed(w)'
  BY <1>1 DEF Placed, Working, HandlingNow
<1>. QED
  BY <1>1, <1>2, <1>3, StepKeeps

\* Ending a task, well or badly.
LEMMA LeavingKeeps ==
  ASSUME FileInv, NEW w \in Workers, Working(w), Leave(w),
         UNCHANGED <<notices, file, old, inodes, begun, slipped, copies, refused, reports>>,
         \/ UNCHANGED tasks
         \/ tasks' = [tasks EXCEPT ![job[w].msg] = @ + 1],
         done' \subseteq done \cup {job[w].msg}, cutShort' \subseteq cutShort \cup {job[w].msg},
         troubles' \in 0..MaxTroubles
  PROVE  FileInv'
<1>. USE DEF FileInv
<1>1. /\ job' \in [Workers -> Job] /\ job'[w] = Idle
      /\ \A v \in Workers : v # w => job'[v] = job[v]
      /\ lock' \in [1..inodes -> Workers \cup {Free}]
      /\ \A i \in 1..inodes, v \in Workers : v # w /\ lock[i] = v => lock'[i] = v
  BY LeaveTyped DEF TypeOK
<1>2. job[w].msg \in Messages \ old
  BY DEF Placed
<1>3. tasks' \in [Messages -> Nat] /\ \A m \in old : tasks'[m] = tasks[m]
  <2>1. tasks \in [Messages -> Nat] /\ old \subseteq Messages
    BY DEF TypeOK
  <2>. QED
    BY <1>2, <2>1
<1>4. TypeOK'
  BY <1>1, <1>2, <1>3 DEF TypeOK
<1>5. Placed(w)'
  BY <1>1 DEF Placed, Working, HandlingNow, Idle
<1>. QED
  BY <1>1, <1>3, <1>4, <1>5, StepKeeps

\* A worker fetches the message, looks up its addresses and sends copies, or its
\* task ends.
LEMMA HandlingKeeps ==
  ASSUME FileInv, NEW w \in Workers,
         \/ Fetch(w) \/ PassOver(w) \/ ForwardToList(w) \/ Send(w)
         \/ EndOfList(w) \/ RaiseLastError(w) \/ Finish(w) \/ Die(w)
  PROVE  FileInv'
<1>. DEFINE j == job[w]
<1>. USE DEF FileInv, mailbox, history
<1>0. j \in Job /\ j.todo \in Seq(Addresses) /\ troubles \in 0..MaxTroubles
      /\ copies \subseteq Copy /\ refused \subseteq Messages \X Addresses \X Groups
      /\ reports \subseteq Messages \X Addresses \X Senders
  BY DEF TypeOK, Job
<1>1. CASE Fetch(w)
  <2>1. j.msg \in Messages
    BY <1>1 DEF Fetch, Placed, Working
  <2>2. \E r \in ReplyTos : Goes(w, [j EXCEPT !.at = "route", !.todo = To[j.msg], !.replyTo = r])
    BY <1>1 DEF Fetch, ReplyTos
  <2>3. \A r \in ReplyTos : [j EXCEPT !.at = "route", !.todo = To[j.msg], !.replyTo = r] \in Job
    BY <1>0, <2>1 DEF Job
  <2>. QED
    <3>1. PICK r \in ReplyTos : Goes(w, [j EXCEPT !.at = "route", !.todo = To[j.msg], !.replyTo = r])
      BY <2>2
    <3>. DEFINE k == [j EXCEPT !.at = "route", !.todo = To[j.msg], !.replyTo = r]
    <3>2. k \in Job /\ k.at = "route" /\ k.msg = j.msg /\ k.inode = j.inode
      BY <1>0, <2>3 DEF Job
    <3>3. Goes(w, k)
      BY <3>1
    <3>. HIDE DEF k
    <3>. QED
      BY <1>0, <1>1, <3>2, <3>3, GoingOnKeeps DEF Fetch, HandlingNow
<1>2. CASE PassOver(w)
  <2>1. [j EXCEPT !.todo = Tail(@)] \in Job
    BY <1>0, <1>2, HeadTyped DEF PassOver, Goes, Job
  <2>. QED
    BY <1>0, <1>2, <2>1, GoingOnKeeps DEF PassOver, NextAfterRefusal, HandlingNow, Job
<1>3. CASE ForwardToList(w)
  <2>. DEFINE k == [j EXCEPT !.at = "send", !.orig = j.from, !.from = "mangled",
                             !.replyTo = ReplyToAfter(j),
                             !.groups = MessagesToSend(j.msg, Head(j.todo)),
                             !.failed = {}, !.sent = FALSE]
  <2>1. MessagesToSend(j.msg, Head(j.todo)) \in SUBSET Groups
    BY <1>0, <1>3, HeadTyped, GroupsTyped DEF ForwardToList
  <2>2. ReplyToAfter(j) \in ReplyTos
    BY <1>0 DEF ReplyToAfter, Job, ReplyTos, Senders
  <2>3. k \in Job /\ k.at = "send" /\ k.msg = j.msg /\ k.inode = j.inode /\ k.todo # <<>>
    BY <1>0, <1>3, <2>1, <2>2 DEF ForwardToList, Goes, Job, Senders
  <2>4. Goes(w, k)
    BY <1>3 DEF ForwardToList
  <2>. HIDE DEF k
  <2>. QED
    BY <1>0, <1>3, <2>3, <2>4, GoingOnKeeps DEF ForwardToList, HandlingNow
<1>4. CASE Send(w)
  <2>1. j.msg \in Messages /\ j.todo # <<>>
    BY <1>4 DEF Send, Placed, Working
  <2>2. PICK g \in j.groups :
          \/ /\ copies' = copies \cup {[msg |-> j.msg, list |-> Head(j.todo), group |-> g,
                                        replyTo |-> j.replyTo]}
             /\ Goes(w, [j EXCEPT !.groups = @ \ {g}, !.sent = TRUE])
             /\ UNCHANGED <<refused, troubles>>
          \/ /\ troubles < MaxTroubles
             /\ troubles' = troubles + 1
             /\ refused' = refused \cup {<<j.msg, Head(j.todo), g>>}
             /\ Goes(w, [j EXCEPT !.groups = @ \ {g}, !.failed = @ \cup {g}])
             /\ UNCHANGED copies
    BY <1>4 DEF Send
  <2>3. g \in Groups /\ j.groups \subseteq Groups /\ j.failed \subseteq Groups
    BY <1>0 DEF Job
  <2>4. copies' \subseteq Copy /\ refused' \subseteq Messages \X Addresses \X Groups
        /\ troubles' \in 0..MaxTroubles
    <3>1. [msg |-> j.msg, list |-> Head(j.todo), group |-> g, replyTo |-> j.replyTo] \in Copy
      BY <1>0, <2>1, <2>3, HeadTyped DEF Copy, Job
    <3>2. <<j.msg, Head(j.todo), g>> \in Messages \X Addresses \X Groups
      BY <1>0, <2>1, <2>3, HeadTyped
    <3>. QED
      BY <1>0, <2>2, <3>1, <3>2
  <2>5. PICK k \in Job : Goes(w, k) /\ k.at = "send" /\ k.msg = j.msg /\ k.inode = j.inode /\ k.todo # <<>>
    <3>1. /\ [j EXCEPT !.groups = @ \ {g}, !.sent = TRUE] \in Job
          /\ [j EXCEPT !.groups = @ \ {g}, !.failed = @ \cup {g}] \in Job
      BY <1>0, <2>3 DEF Job
    <3>. QED
      BY <1>0, <1>4, <2>1, <2>2, <3>1 DEF Send, Goes, Job
  <2>. QED
    BY <1>0, <1>4, <2>4, <2>5, GoingOnKeeps DEF Send, HandlingNow
<1>5. CASE EndOfList(w)
  <2>1. j.msg \in Messages /\ j.todo # <<>> /\ j.failed \subseteq Groups
    BY <1>0, <1>5 DEF EndOfList, Placed, Working, Job
  <2>2. reports' \subseteq Messages \X Addresses \X Senders
    <3>1. <<j.msg, Head(j.todo), j.orig>> \in Messages \X Addresses \X Senders
      BY <1>0, <2>1, HeadTyped DEF Job
    <3>. QED
      BY <1>0, <1>5, <3>1 DEF EndOfList
  <2>3. [j EXCEPT !.at = "route", !.todo = Tail(@), !.failed = {}, !.sent = FALSE] \in Job
    BY <1>0, <2>1, HeadTyped DEF Job
  <2>. QED
    BY <1>0, <1>5, <2>2, <2>3, GoingOnKeeps DEF EndOfList, HandlingNow, Job
<1>6. CASE RaiseLastError(w)
  BY <1>0, <1>6, LeavingKeeps DEF RaiseLastError, Working
<1>7. CASE Finish(w)
  BY <1>0, <1>7, LeavingKeeps DEF Finish, Working
<1>8. CASE Die(w)
  <2>1. troubles' \in 0..MaxTroubles
    BY <1>0, <1>8 DEF Die, Fail
  <2>. QED
    BY <1>8, <2>1, LeavingKeeps DEF Die, Fail
<1>. QED
  BY <1>1, <1>2, <1>3, <1>4, <1>5, <1>6, <1>7, <1>8

\* Every step keeps the file in its place.
LEMMA FileInductive ==
  ASSUME FileInv, [Next]_vars
  PROVE  FileInv'
<1>1. CASE UNCHANGED vars
  BY <1>1 DEF vars, files, mailbox, history, FileInv, TypeOK, Placed, Quiet, Working, HandlingNow
<1>2. ASSUME NEW w \in Workers, Step(w) \/ Die(w) PROVE FileInv'
  BY <1>2, OpeningKeeps, LockKeeps, HandlingKeeps DEF Step
<1>. QED
  BY <1>1, <1>2, EnvironmentKeeps, CleanUpKeeps DEF Next

\* At first there is no file.
LEMMA FileInitial == Init => FileInv
<1>. SUFFICES ASSUME Init PROVE FileInv
  OBVIOUS
<1>1. TypeOK
  BY IdleTyped DEF Init, TypeOK
<1>2. Quiet /\ \A w \in Workers : Placed(w)
  BY DEF Init, Quiet, Placed, Working, HandlingNow, Idle
<1>. QED
  BY <1>1, <1>2 DEF FileInv

\* Type correctness, whoever dies and whatever is delivered twice.
THEOREM TypeCorrect == Spec => []TypeOK
<1>. QED
  BY FileInitial, FileInductive, PTL DEF Spec, FileInv

\* A message is in the hands of one worker at a time (handle_mail_from_s3), for any
\* number of workers: two who handle it would hold the lock of one file.
THEOREM OneHandler == Spec => []OneHandlerAtATime
<1>1. FileInv => OneHandlerAtATime
  BY DEF FileInv, Placed, HandlingNow, OneHandlerAtATime
<1>. QED
  BY <1>1, FileInitial, FileInductive, PTL DEF Spec

-----------------------------------------------------------------------------
(* How often a message is handled. *)

\* Those who have passed the test and have not come to the lock.
Past(m) == {w \in Workers : job[w].at \in {"open", "lock"} /\ job[w].msg = m}

\* Each of them may begin to handle the message once more; and handling it leaves
\* the file behind.
Counted(m) ==
    /\ begun[m] + Cardinality(Past(m)) <= 1 + slipped[m]
    /\ file[m] = 0 /\ m \notin old => begun[m] = 0

CountInv == FileInv /\ \A m \in Messages : Counted(m)

\* Their number is a number.
LEMMA PastFinite ==
  ASSUME NEW m
  PROVE  IsFiniteSet(Past(m)) /\ Cardinality(Past(m)) \in Nat
<1>1. IsFiniteSet(Past(m))
  BY FS_Subset DEF Past
<1>. QED
  BY <1>1, FS_CardinalityType

\* Nobody new is past the test, and the file is where it was.
LEMMA NobodyNew ==
  ASSUME FileInv, NEW m \in Messages, Counted(m), Past(m)' \subseteq Past(m),
         begun'[m] = begun[m], slipped'[m] = slipped[m],
         file'[m] = 0 /\ m \notin old' => file[m] = 0 /\ m \notin old
  PROVE  Counted(m)'
<1>1. Cardinality(Past(m)') <= Cardinality(Past(m)) /\ IsFiniteSet(Past(m)')
  BY PastFinite, FS_Subset
<1>2. Cardinality(Past(m)') \in Nat /\ Cardinality(Past(m)) \in Nat
  BY <1>1, PastFinite, FS_CardinalityType
<1>3. begun[m] \in Nat /\ slipped[m] \in Nat
  BY DEF FileInv, TypeOK
<1>4. begun[m] + Cardinality(Past(m)) <= 1 + slipped[m]
  BY DEF Counted
<1>5. begun[m] + Cardinality(Past(m)') <= 1 + slipped[m]
  BY <1>1, <1>2, <1>3, <1>4
<1>. QED
  BY <1>5 DEF Counted

\* A worker that passes the test alone is the first, or is counted as one who slipped in.
LEMMA TestCounts ==
  ASSUME CountInv, NEW w \in Workers, Test(w), NEW n \in Messages
  PROVE  Counted(n)'
<1>. DEFINE m == job[w].msg
<1>. USE DEF CountInv
<1>1. job \in [Workers -> Job] /\ m \in Messages \ old /\ job[w].at = "test"
  BY DEF Test, FileInv, TypeOK, Placed, Working
<1>2. UNCHANGED <<file, old, begun>>
  BY DEF Test, files
<1>3. CASE Goes(w, Idle) /\ UNCHANGED slipped
  <2>1. Past(n)' \subseteq Past(n)
    BY <1>1, <1>3 DEF Goes, Past, Idle
  <2>. QED
    BY <1>2, <1>3, <2>1, NobodyNew
<1>4. CASE /\ file[m] = 0
           /\ Goes(w, [job[w] EXCEPT !.at = "open"])
           /\ slipped' = [slipped EXCEPT ![m] = @ + (IF UnderWay(m) = {w} THEN 0 ELSE 1)]
  <2>1. job'[w].at = "open" /\ job'[w].msg = m /\ \A v \in Workers : v # w => job'[v] = job[v]
    BY <1>1, <1>4 DEF Goes, Job
  <2>2. CASE n # m
    <3>1. Past(n)' \subseteq Past(n) /\ slipped'[n] = slipped[n]
      BY <1>4, <2>1, <2>2 DEF Past, FileInv, TypeOK
    <3>. QED
      BY <1>2, <3>1, NobodyNew
  <2>3. CASE n = m
    <3>1. Past(n)' = Past(n) \cup {w} /\ w \notin Past(n)
      BY <1>1, <2>1, <2>3 DEF Past
    <3>2. Cardinality(Past(n)') = Cardinality(Past(n)) + 1
      BY <3>1, PastFinite, FS_AddElement
    <3>3. begun[n] = 0 /\ begun'[n] = 0
      BY <1>1, <1>2, <1>4, <2>3 DEF Counted
    <3>4. slipped[n] \in Nat /\ Cardinality(Past(n)) \in Nat
      BY PastFinite DEF FileInv, TypeOK
    <3>5. Cardinality(Past(n)) + 1 <= 1 + slipped'[n]
      <4>1. CASE UnderWay(n) = {w}
        <5>1. Past(n) = {}
          BY <3>1, <4>1 DEF Past, UnderWay
        <5>2. Cardinality(Past(n)) = 0 /\ slipped'[n] = slipped[n]
          BY <1>1, <1>4, <2>3, <4>1, <5>1, <3>4, FS_EmptySet DEF FileInv, TypeOK
        <5>. QED
          BY <3>4, <5>2
      <4>2. CASE UnderWay(n) # {w}
        <5>1. slipped'[n] = slipped[n] + 1
          BY <1>1, <1>4, <2>3, <4>2 DEF FileInv, TypeOK
        <5>2. Cardinality(Past(n)) <= 1 + slipped[n]
          BY <3>3, <3>4 DEF Counted
        <5>. QED
          BY <3>4, <5>1, <5>2
      <4>. QED
        BY <4>1, <4>2
    <3>6. begun'[n] + Cardinality(Past(n)') <= 1 + slipped'[n]
      BY <3>2, <3>3, <3>4, <3>5
    <3>. QED
      BY <3>3, <3>6 DEF Counted
  <2>. QED
    BY <2>2, <2>3
<1>. QED
  BY <1>3, <1>4 DEF Test

\* A worker that gets the lock turns from one who may begin into one who has begun.
LEMMA LockCounts ==
  ASSUME CountInv, NEW w \in Workers, Lock(w), NEW n \in Messages
  PROVE  Counted(n)'
<1>. DEFINE m == job[w].msg
<1>. USE DEF CountInv
<1>1. /\ job \in [Workers -> Job] /\ m \in Messages /\ job[w].at = "lock"
      /\ file[m] # 0
      /\ UNCHANGED <<file, old, slipped>>
  BY DEF Lock, FileInv, TypeOK, Placed, Working
<1>2. PICK j : Goes(w, j) /\ j.at \notin {"open", "lock"}
  <2>1. [job[w] EXCEPT !.at = "fetch"].at = "fetch"
    BY <1>1 DEF Job
  <2>. QED
    BY <2>1 DEF Lock, Idle
<1>3. Past(n)' = Past(n) \ {w}
  BY <1>1, <1>2 DEF Goes, Past
<1>4. CASE begun' = begun
  BY <1>1, <1>3, <1>4, NobodyNew
<1>5. CASE begun' = [begun EXCEPT ![m] = @ + 1]
  <2>1. CASE n # m
    BY <1>1, <1>3, <1>5, <2>1, NobodyNew DEF FileInv, TypeOK
  <2>2. CASE n = m
    <3>1. w \in Past(n)
      BY <1>1, <2>2 DEF Past
    <3>2. Cardinality(Past(n)') = Cardinality(Past(n)) - 1 /\ Cardinality(Past(n)) \in Nat
      BY <1>3, <3>1, PastFinite, FS_RemoveElement
    <3>3. begun[n] \in Nat /\ slipped[n] \in Nat /\ begun'[n] = begun[n] + 1
      BY <1>5, <2>2 DEF FileInv, TypeOK
    <3>4. begun[n] + Cardinality(Past(n)) <= 1 + slipped[n]
      BY DEF Counted
    <3>5. begun'[n] + Cardinality(Past(n)') <= 1 + slipped[n]
      BY <3>2, <3>3, <3>4
    <3>. QED
      BY <1>1, <2>2, <3>5 DEF Counted
  <2>. QED
    BY <2>1, <2>2
<1>. QED
  BY <1>4, <1>5 DEF Lock

\* No other step lets anybody past the test.
LEMMA OtherStepsCount ==
  ASSUME CountInv, [Next]_vars, \A w \in Workers : ~Test(w) /\ ~Lock(w), NEW n \in Messages
  PROVE  Counted(n)'
<1>. USE DEF CountInv
<1>0. job \in [Workers -> Job] /\ \A w \in Workers : Idle.at = "idle" /\ job[w] \in Job
  BY DEF FileInv, TypeOK, Idle
<1>1. ASSUME UNCHANGED <<job, begun, slipped>>,
             file'[n] = 0 /\ n \notin old' => file[n] = 0 /\ n \notin old
      PROVE  Counted(n)'
  BY <1>1, NobodyNew DEF Past
<1>2. ASSUME NEW w \in Workers, NEW j, Goes(w, j), UNCHANGED <<begun, slipped, old>>,
             file[n] # 0 => file'[n] # 0,
             j.at \in {"open", "lock"} => job[w].at \in {"open", "lock"} /\ j.msg = job[w].msg
      PROVE  Counted(n)'
  <2>1. Past(n)' \subseteq Past(n)
    BY <1>0, <1>2 DEF Goes, Past
  <2>. QED
    BY <1>2, <2>1, NobodyNew
<1>3. ASSUME NEW m \in Messages, Notify(m) \/ Ages(m) PROVE Counted(n)'
  BY <1>1, <1>3 DEF Notify, Ages, files, history
<1>4. CASE CleanUp
  <2>1. file' = [m \in Messages |-> IF m \in old THEN 0 ELSE file[m]] /\ old' = old
    BY <1>4 DEF CleanUp, Stale
  <2>. QED
    BY <1>1, <1>4, <2>1 DEF CleanUp, history
<1>5. ASSUME NEW w \in Workers, NEW m \in Messages, Take(w, m) PROVE Counted(n)'
  <2>1. [Idle EXCEPT !.at = "test", !.msg = m].at = "test"
    BY DEF Idle
  <2>. QED
    BY <1>2, <1>5, <2>1 DEF Take, Goes, files, history
<1>6. ASSUME NEW w \in Workers, Open(w) PROVE Counted(n)'
  <2>1. PICK i : Goes(w, [job[w] EXCEPT !.at = "lock", !.inode = i])
    BY <1>6 DEF Open
  <2>2. [job[w] EXCEPT !.at = "lock", !.inode = i].msg = job[w].msg /\ job[w].at = "open"
    BY <1>0, <1>6 DEF Job, Open
  <2>3. file[n] # 0 => file'[n] # 0
    BY <1>6 DEF Open, files, FileInv, TypeOK
  <2>. QED
    BY <1>2, <1>6, <2>1, <2>2, <2>3 DEF Open, files, history
<1>7. ASSUME NEW w \in Workers,
             Fetch(w) \/ PassOver(w) \/ ForwardToList(w) \/ Send(w) \/ EndOfList(w)
      PROVE  Counted(n)'
  <2>1. job' = [job EXCEPT ![w] = job'[w]] /\ job'[w].at \in {"route", "send"}
    <3>1. CASE Fetch(w)
      BY <1>0, <3>1 DEF Fetch, Goes, Job
    <3>2. CASE PassOver(w)
      BY <1>0, <3>2 DEF PassOver, Goes, Job
    <3>3. CASE ForwardToList(w)
      BY <1>0, <3>3 DEF ForwardToList, Goes, Job
    <3>4. CASE Send(w)
      <4>1. PICK g : \/ Goes(w, [job[w] EXCEPT !.groups = @ \ {g}, !.sent = TRUE])
                     \/ Goes(w, [job[w] EXCEPT !.groups = @ \ {g}, !.failed = @ \cup {g}])
        BY <3>4 DEF Send
      <4>2. job[w].at = "send"
        BY <3>4 DEF Send
      <4>3. /\ [job[w] EXCEPT !.groups = @ \ {g}, !.sent = TRUE].at = "send"
            /\ [job[w] EXCEPT !.groups = @ \ {g}, !.failed = @ \cup {g}].at = "send"
        BY <1>0, <4>2 DEF Job
      <4>. QED
        BY <1>0, <4>1, <4>3 DEF Goes
    <3>5. CASE EndOfList(w)
      BY <1>0, <3>5 DEF EndOfList, Goes, Job
    <3>. QED
      BY <1>7, <3>1, <3>2, <3>3, <3>4, <3>5
  <2>. QED
    BY <1>2, <1>7, <2>1 DEF Goes, Fetch, PassOver, ForwardToList, Send, EndOfList, files, history
<1>8. ASSUME NEW w \in Workers, RaiseLastError(w) \/ Finish(w) \/ Die(w)
      PROVE  Counted(n)'
  BY <1>0, <1>2, <1>8 DEF RaiseLastError, Finish, Die, Fail, Leave, history
<1>9. CASE UNCHANGED vars
  BY <1>1, <1>9 DEF vars, files, history
<1>. QED
  BY <1>3, <1>4, <1>5, <1>6, <1>7, <1>8, <1>9 DEF Next, Step

\* Deliveries that do not overlap handle a message once (handle_mail_from_s3): each
\* further time takes one that passed the test while another was under way.
THEOREM RepeatsNeedOverlap == Spec => []OverlapNeededToRepeat
<1>1. Init => CountInv
  <2>. SUFFICES ASSUME Init, NEW m \in Messages PROVE Counted(m)
    BY FileInitial DEF CountInv
  <2>1. Past(m) = {}
    BY DEF Init, Past, Idle
  <2>2. Cardinality(Past(m)) = 0
    BY <2>1, FS_EmptySet
  <2>. QED
    BY <2>2 DEF Init, Counted
<1>2. CountInv /\ [Next]_vars => CountInv'
  <2>. SUFFICES ASSUME CountInv, [Next]_vars, NEW m \in Messages PROVE Counted(m)'
    BY FileInductive DEF CountInv
  <2>. QED
    BY TestCounts, LockCounts, OtherStepsCount
<1>3. CountInv => OverlapNeededToRepeat
  <2>. SUFFICES ASSUME CountInv, NEW m \in Messages PROVE begun[m] <= 1 + slipped[m]
    BY DEF OverlapNeededToRepeat
  <2>1. begun[m] \in Nat /\ slipped[m] \in Nat /\ Cardinality(Past(m)) \in Nat
    BY PastFinite DEF CountInv, FileInv, TypeOK
  <2>2. begun[m] + Cardinality(Past(m)) <= 1 + slipped[m]
    BY DEF CountInv, Counted
  <2>. QED
    BY <2>1, <2>2
<1>. QED
  BY <1>1, <1>2, <1>3, PTL DEF Spec

-----------------------------------------------------------------------------
(* Who is reached. *)

\* The headers of the mail object in the hands of a worker.
Headed(w) ==
    LET j == job[w] IN
    /\ j.at \in {"test", "open", "lock", "fetch"} => j.from = "sender"
    /\ j.at \in {"route", "send"} =>
        IF j.msg \in OwnReplyTo THEN j.replyTo = "own"
        ELSE j.replyTo = "sender" \/ (j.at = "route" /\ j.replyTo = "absent" /\ j.from = "sender")

RepliesInv == FileInv /\ (\A w \in Workers : Headed(w)) /\ RepliesReachSender

\* A message to a list was taken by the mailer; one of them for somebody.
Sent(sent, m, a) == \E c \in sent : c.msg = m /\ c.list = a
Got(sent, m, a, u) == \E c \in sent : c.msg = m /\ c.list = a /\ u \in c.group

\* Somebody on a list got a message or is left out, or theirs was refused.
Reached(sent, failed, m, a, u) ==
    \/ LeftOut(m, a, u) \/ Got(sent, m, a, u)
    \/ Sent(sent, m, a) /\ \E r \in failed : r[1] = m /\ r[2] = a /\ u \in r[3]

Addressed(m) == {To[m][i] : i \in DOMAIN To[m]}
Elements(s) == {s[i] : i \in DOMAIN s}

\* Every list is still to come, or everybody on it is reached; of the list in hand,
\* those not reached are in a group still to be sent to, or in one that was refused.
Forwarding(w) ==
    LET j == job[w]
        a == Head(j.todo) IN
    /\ j.at \in {"route", "send"} =>
        \A b \in Addressed(j.msg) \ Elements(j.todo) :
            IsList(b) => \A u \in Members[b] : Reached(copies, refused, j.msg, b, u)
    /\ j.at = "send" =>
        /\ \A u \in Members[a] :
            Reached(copies, refused, j.msg, a, u) \/ \E g \in j.groups \cup j.failed : u \in g
        /\ \A g \in j.failed : <<j.msg, a, g>> \in refused
        /\ j.sent => Sent(copies, j.msg, a)

ReachedInv == FileInv /\ (\A w \in Workers : Forwarding(w)) /\ DoneReachedEverybody

\* Whoever is reached stays reached.
LEMMA StaysReached ==
  ASSUME copies \subseteq copies', refused \subseteq refused', NEW m, NEW a
  PROVE  /\ Sent(copies, m, a) => Sent(copies', m, a)
         /\ \A u : Reached(copies, refused, m, a, u) => Reached(copies', refused', m, a, u)
  BY DEF Reached, Got, Sent

\* The first address and the others are all there are.
LEMMA HeadAndTail ==
  ASSUME NEW s \in Seq(Addresses), s # <<>>
  PROVE  Elements(s) \subseteq {Head(s)} \cup Elements(Tail(s))
<1>. SUFFICES ASSUME NEW i \in DOMAIN s, s[i] # Head(s) PROVE s[i] \in Elements(Tail(s))
  BY DEF Elements
<1>1. i \in 2..Len(s)
  OBVIOUS
<1>2. i - 1 \in 1..Len(Tail(s)) /\ Tail(s)[i - 1] = s[i]
  BY <1>1
<1>3. DOMAIN Tail(s) = 1..Len(Tail(s))
  OBVIOUS
<1>. QED
  BY <1>2, <1>3 DEF Elements

\* What a step may do to the mails: five kinds of step go on with a message; the
\* others leave the mails alone, and what they leave a worker with has not been
\* looked at.
LEMMA KindsOfStep ==
  ASSUME FileInv, [Next]_vars
  PROVE  /\ copies \subseteq copies' /\ refused \subseteq refused'
         /\ \/ \E w \in Workers :
                 /\ \A v \in Workers : v # w => job'[v] = job[v]
                 /\ Fetch(w) \/ PassOver(w) \/ ForwardToList(w) \/ Send(w) \/ EndOfList(w)
            \/ /\ UNCHANGED <<copies, refused>>
               /\ done' = done \/ \E w \in Workers : Finish(w)
               /\ \A v \in Workers :
                    \/ job'[v] = job[v]
                    \/ /\ job'[v].at \in {"idle", "test", "open", "lock", "fetch"}
                       /\ \/ job'[v].from = "sender"
                          \/ job[v].at \in {"test", "open", "lock"} /\ job'[v].from = job[v].from
<1>0. job \in [Workers -> Job] /\ Idle \in Job /\ Idle.from = "sender" /\ Idle.at = "idle"
  BY IdleTyped DEF FileInv, TypeOK, Idle
<1>1. CASE \E m \in Messages : Notify(m) \/ Ages(m)
  BY <1>1 DEF Notify, Ages, mailbox
<1>2. CASE CleanUp \/ UNCHANGED vars
  BY <1>2 DEF CleanUp, vars, mailbox
<1>3. ASSUME NEW w \in Workers, NEW m \in Messages, Take(w, m)
      PROVE  /\ UNCHANGED <<copies, refused, done>>
             /\ \A v \in Workers : job'[v] = job[v] \/ (job'[v].at = "test" /\ job'[v].from = "sender")
  BY <1>0, <1>3 DEF Take, mailbox, Idle
<1>4. ASSUME NEW w \in Workers, Test(w) \/ Open(w) \/ Lock(w)
      PROVE  /\ UNCHANGED <<copies, refused, done>>
             /\ job[w].at \in {"test", "open", "lock"}
             /\ \A v \in Workers : v # w => job'[v] = job[v]
             /\ job'[w].at \in {"idle", "open", "lock", "fetch"}
             /\ job'[w].from \in {job[w].from, "sender"}
  <2>1. CASE Test(w)
    BY <1>0, <2>1 DEF Test, Goes, mailbox, Job
  <2>2. CASE Open(w)
    <3>1. PICK i : Goes(w, [job[w] EXCEPT !.at = "lock", !.inode = i])
      BY <2>2 DEF Open
    <3>. QED
      BY <1>0, <2>2, <3>1 DEF Open, Goes, mailbox, Job
  <2>3. CASE Lock(w)
    BY <1>0, <2>3 DEF Lock, Goes, mailbox, Job
  <2>. QED
    BY <1>4, <2>1, <2>2, <2>3
<1>5. ASSUME NEW w \in Workers, Fetch(w) \/ PassOver(w) \/ ForwardToList(w) \/ Send(w) \/ EndOfList(w)
      PROVE  /\ copies \subseteq copies' /\ refused \subseteq refused'
             /\ \A v \in Workers : v # w => job'[v] = job[v]
  BY <1>0, <1>5 DEF Fetch, PassOver, ForwardToList, Send, EndOfList, Goes, mailbox
<1>6. ASSUME NEW w \in Workers, RaiseLastError(w) \/ Finish(w) \/ Die(w)
      PROVE  /\ UNCHANGED <<copies, refused>>
             /\ done' = done \/ Finish(w)
             /\ \A v \in Workers : job'[v] = job[v] \/ job'[v] = Idle
  BY <1>0, <1>6 DEF RaiseLastError, Finish, Die, Fail, Leave, Goes, mailbox
<1>7. CASE \E w \in Workers, m \in Messages : Take(w, m)
  BY <1>3, <1>7
<1>8. CASE \E w \in Workers : Test(w) \/ Open(w) \/ Lock(w)
  BY <1>4, <1>8
<1>9. CASE \E w \in Workers : Fetch(w) \/ PassOver(w) \/ ForwardToList(w) \/ Send(w) \/ EndOfList(w)
  BY <1>5, <1>9
<1>10. CASE \E w \in Workers : RaiseLastError(w) \/ Finish(w) \/ Die(w)
  BY <1>0, <1>6, <1>10
<1>. QED
  BY <1>1, <1>2, <1>7, <1>8, <1>9, <1>10 DEF Next, Step

\* The headers stay what an answer needs.
LEMMA RepliesInductive ==
  ASSUME RepliesInv, [Next]_vars
  PROVE  RepliesInv'
<1>. USE DEF RepliesInv
<1>0. job \in [Workers -> Job] /\ (\A w \in Workers : job[w] \in Job) /\ FileInv'
  BY FileInductive DEF FileInv, TypeOK
<1>1. CASE /\ UNCHANGED <<copies, refused>>
           /\ \A v \in Workers :
                \/ job'[v] = job[v]
                \/ /\ job'[v].at \in {"idle", "test", "open", "lock", "fetch"}
                   /\ \/ job'[v].from = "sender"
                      \/ job[v].at \in {"test", "open", "lock"} /\ job'[v].from = job[v].from
  <2>1. \A v \in Workers : Headed(v)'
    BY <1>1 DEF Headed
  <2>. QED
    BY <1>0, <1>1, <2>1 DEF RepliesReachSender
<1>2. ASSUME NEW w \in Workers, \A v \in Workers : v # w => job'[v] = job[v],
             Headed(w)',
             copies' = copies \/ \E c : /\ copies' = copies \cup {c}
                                        /\ c.replyTo = IF c.msg \in OwnReplyTo THEN "own" ELSE "sender"
      PROVE  RepliesInv'
  <2>1. \A v \in Workers : Headed(v)'
    BY <1>2 DEF Headed
  <2>2. RepliesReachSender'
    BY <1>2 DEF RepliesReachSender
  <2>. QED
    BY <1>0, <2>1, <2>2
<1>3. ASSUME NEW w \in Workers, \A v \in Workers : v # w => job'[v] = job[v], Fetch(w)
      PROVE  RepliesInv'
  <2>1. Headed(w)'
    BY <1>0, <1>3 DEF Fetch, Goes, Headed, Job
  <2>. QED
    BY <1>2, <1>3, <2>1 DEF Fetch, mailbox
<1>4. ASSUME NEW w \in Workers, \A v \in Workers : v # w => job'[v] = job[v], PassOver(w)
      PROVE  RepliesInv'
  <2>1. Headed(w)'
    BY <1>0, <1>4 DEF PassOver, Goes, Headed, Job
  <2>. QED
    BY <1>2, <1>4, <2>1 DEF PassOver, mailbox
<1>5. ASSUME NEW w \in Workers, \A v \in Workers : v # w => job'[v] = job[v], ForwardToList(w)
      PROVE  RepliesInv'
  <2>1. /\ job'[w].at = "send" /\ job'[w].msg = job[w].msg /\ job'[w].replyTo = ReplyToAfter(job[w])
        /\ job[w].at = "route"
    BY <1>0, <1>5 DEF ForwardToList, Goes, Job
  <2>2. Headed(w)'
    BY <2>1 DEF Headed, ReplyToAfter
  <2>. QED
    BY <1>2, <1>5, <2>2 DEF ForwardToList, mailbox
<1>6. ASSUME NEW w \in Workers, \A v \in Workers : v # w => job'[v] = job[v], Send(w)
      PROVE  RepliesInv'
  <2>. DEFINE j == job[w]
  <2>1. PICK g :
          \/ /\ copies' = copies \cup {[msg |-> j.msg, list |-> Head(j.todo), group |-> g,
                                        replyTo |-> j.replyTo]}
             /\ Goes(w, [j EXCEPT !.groups = @ \ {g}, !.sent = TRUE])
          \/ /\ Goes(w, [j EXCEPT !.groups = @ \ {g}, !.failed = @ \cup {g}])
             /\ UNCHANGED copies
    BY <1>6 DEF Send
  <2>2. j.at = "send"
    BY <1>6 DEF Send
  <2>3. job'[w].at = "send" /\ job'[w].msg = j.msg /\ job'[w].replyTo = j.replyTo
    <3>1. ASSUME NEW k, Goes(w, k) PROVE job'[w] = k
      BY <1>0, <3>1 DEF Goes
    <3>2. CASE Goes(w, [j EXCEPT !.groups = @ \ {g}, !.sent = TRUE])
      BY <1>0, <2>2, <3>1, <3>2 DEF Job
    <3>3. CASE Goes(w, [j EXCEPT !.groups = @ \ {g}, !.failed = @ \cup {g}])
      BY <1>0, <2>2, <3>1, <3>3 DEF Job
    <3>. QED
      BY <2>1, <3>2, <3>3
  <2>4. j.replyTo = IF j.msg \in OwnReplyTo THEN "own" ELSE "sender"
    BY <2>2 DEF Headed
  <2>5. Headed(w)'
    BY <2>3, <2>4 DEF Headed
  <2>6. copies' = copies \/ \E c : /\ copies' = copies \cup {c}
                                   /\ c.replyTo = IF c.msg \in OwnReplyTo THEN "own" ELSE "sender"
    <3>. DEFINE c == [msg |-> j.msg, list |-> Head(j.todo), group |-> g, replyTo |-> j.replyTo]
    <3>1. c.replyTo = j.replyTo /\ c.msg = j.msg
      OBVIOUS
    <3>2. copies' = copies \/ copies' = copies \cup {c}
      BY <2>1
    <3>. HIDE DEF c
    <3>. QED
      BY <2>4, <3>1, <3>2
  <2>. QED
    BY <1>2, <1>6, <2>5, <2>6
<1>7. ASSUME NEW w \in Workers, \A v \in Workers : v # w => job'[v] = job[v], EndOfList(w)
      PROVE  RepliesInv'
  <2>1. Headed(w)'
    BY <1>0, <1>7 DEF EndOfList, Goes, Headed, Job
  <2>. QED
    BY <1>2, <1>7, <2>1 DEF EndOfList
<1>. QED
  BY <1>1, <1>3, <1>4, <1>5, <1>6, <1>7, KindsOfStep

\* Whoever answers a forwarded mail reaches its sender (forward_email_to_list), for
\* any lists in any order.
THEOREM AnswersReachSender == Spec => []RepliesReachSender
<1>1. Init => RepliesInv
  BY FileInitial DEF Init, RepliesInv, Headed, RepliesReachSender, Idle
<1>. QED
  BY <1>1, RepliesInductive, PTL DEF Spec, RepliesInv

\* No step loses sight of anybody on a list.
LEMMA ReachedInductive ==
  ASSUME ReachedInv, [Next]_vars
  PROVE  ReachedInv'
<1>. USE DEF ReachedInv
<1>0. /\ job \in [Workers -> Job] /\ (\A w \in Workers : job[w] \in Job) /\ FileInv'
      /\ \A w \in Workers : job[w].todo \in Seq(Addresses)
      /\ copies \subseteq copies' /\ refused \subseteq refused'
  BY FileInductive, KindsOfStep DEF FileInv, TypeOK, Job
<1>1. ASSUME NEW v \in Workers, job'[v] = job[v] PROVE Forwarding(v)'
  <2>1. Forwarding(v)
    OBVIOUS
  <2>. QED
    BY <1>0, <1>1, <2>1, StaysReached DEF Forwarding
<1>2. ASSUME done' = done PROVE DoneReachedEverybody'
  <2>. SUFFICES ASSUME NEW m \in done, NEW i \in DOMAIN To[m], IsList(To[m][i]),
                       NEW u \in Members[To[m][i]]
                PROVE  \/ LeftOut(m, To[m][i], u)
                       \/ \E c \in copies' : c.msg = m /\ c.list = To[m][i] /\ u \in c.group
                       \/ /\ \E r \in refused' : r[1] = m /\ r[2] = To[m][i] /\ u \in r[3]
                          /\ \E c \in copies' : c.msg = m /\ c.list = To[m][i]
    <3>1. \A m, a, u : LeftOut(m, a, u)' <=> LeftOut(m, a, u)
      BY DEF LeftOut
    <3>. QED
      BY <1>2, <3>1, Zenon DEF DoneReachedEverybody, LeftOut
  <2>1. \/ LeftOut(m, To[m][i], u)
        \/ \E c \in copies : c.msg = m /\ c.list = To[m][i] /\ u \in c.group
        \/ /\ \E r \in refused : r[1] = m /\ r[2] = To[m][i] /\ u \in r[3]
           /\ \E c \in copies : c.msg = m /\ c.list = To[m][i]
    BY DEF DoneReachedEverybody
  <2>. QED
    BY <1>0, <2>1
<1>3. CASE /\ done' = done \/ \E w \in Workers : Finish(w)
           /\ \A v \in Workers :
                job'[v] = job[v] \/ job'[v].at \in {"idle", "test", "open", "lock", "fetch"}
  <2>1. \A v \in Workers : Forwarding(v)'
    BY <1>1, <1>3 DEF Forwarding
  <2>2. ASSUME NEW w \in Workers, Finish(w) PROVE DoneReachedEverybody'
    <3>1. done' = done \cup {job[w].msg} /\ job[w].at = "route" /\ Elements(job[w].todo) = {}
      BY <2>2 DEF Finish, Elements
    <3>2. \A a \in Addressed(job[w].msg) :
            IsList(a) => \A u \in Members[a] : Reached(copies, refused, job[w].msg, a, u)
      BY <3>1 DEF Forwarding
    <3>3. UNCHANGED <<copies, refused>>
      BY <2>2 DEF Finish
    <3>. QED
      <4>. SUFFICES ASSUME NEW m \in done', NEW i \in DOMAIN To[m], IsList(To[m][i]),
                           NEW u \in Members[To[m][i]]
                    PROVE  Reached(copies, refused, m, To[m][i], u)
        <5>1. \A m, a, u : Reached(copies, refused, m, a, u) =>
                \/ LeftOut(m, a, u)'
                \/ \E c \in copies' : c.msg = m /\ c.list = a /\ u \in c.group
                \/ /\ \E r \in refused' : r[1] = m /\ r[2] = a /\ u \in r[3]
                   /\ \E c \in copies' : c.msg = m /\ c.list = a
          BY <3>3 DEF Reached, Got, Sent, LeftOut
        <5>. QED
          BY <5>1 DEF DoneReachedEverybody
      <4>1. CASE m \in done
        <5>1. \/ LeftOut(m, To[m][i], u)
              \/ \E c \in copies : c.msg = m /\ c.list = To[m][i] /\ u \in c.group
              \/ /\ \E r \in refused : r[1] = m /\ r[2] = To[m][i] /\ u \in r[3]
                 /\ \E c \in copies : c.msg = m /\ c.list = To[m][i]
          BY <4>1 DEF DoneReachedEverybody
        <5>. QED
          BY <5>1 DEF Reached, Got, Sent
      <4>2. CASE m = job[w].msg
        <5>1. To[m][i] \in Addressed(m)
          BY DEF Addressed
        <5>. QED
          BY <3>2, <4>2, <5>1
      <4>. QED
        BY <3>1, <4>1, <4>2
  <2>. QED
    BY <1>0, <1>2, <1>3, <2>1, <2>2
<1>4. ASSUME NEW w \in Workers, \A v \in Workers : v # w => job'[v] = job[v],
             Forwarding(w)', done' = done
      PROVE  ReachedInv'
  BY <1>0, <1>1, <1>2, <1>4
<1>5. ASSUME NEW w \in Workers, \A v \in Workers : v # w => job'[v] = job[v], Fetch(w)
      PROVE  ReachedInv'
  <2>1. job'[w].at = "route" /\ job'[w].todo = To[job[w].msg] /\ job'[w].msg = job[w].msg
    BY <1>0, <1>5 DEF Fetch, Goes, Job
  <2>2. Forwarding(w)'
    BY <2>1 DEF Forwarding, Addressed, Elements
  <2>. QED
    BY <1>4, <1>5, <2>2 DEF Fetch, mailbox
<1>6. ASSUME NEW w \in Workers, \A v \in Workers : v # w => job'[v] = job[v], PassOver(w)
      PROVE  ReachedInv'
  <2>1. /\ job'[w].at = "route" /\ job'[w].msg = job[w].msg /\ job'[w].todo = Tail(job[w].todo)
        /\ job[w].at = "route" /\ job[w].todo # <<>> /\ ~IsList(Head(job[w].todo))
        /\ UNCHANGED <<copies, refused, done>>
    BY <1>0, <1>6 DEF PassOver, NextAfterRefusal, Goes, Job, mailbox
  <2>2. Elements(job[w].todo) \subseteq {Head(job[w].todo)} \cup Elements(job'[w].todo)
    BY <1>0, <2>1, HeadAndTail
  <2>3. Forwarding(w)'
    BY <2>1, <2>2 DEF Forwarding, Reached
  <2>. QED
    BY <1>4, <1>6, <2>1, <2>3
<1>7. ASSUME NEW w \in Workers, \A v \in Workers : v # w => job'[v] = job[v], ForwardToList(w)
      PROVE  ReachedInv'
  <2>. DEFINE a == Head(job[w].todo)
  <2>1. /\ job'[w].at = "send" /\ job'[w].msg = job[w].msg /\ job'[w].todo = job[w].todo
        /\ job'[w].groups = MessagesToSend(job[w].msg, a) /\ job'[w].failed = {}
        /\ job'[w].sent = FALSE /\ job[w].at = "route"
        /\ UNCHANGED <<copies, refused, done>>
    BY <1>0, <1>7 DEF ForwardToList, Goes, Job, mailbox
  <2>2. ASSUME NEW u \in Members[a]
        PROVE  LeftOut(job[w].msg, a, u) \/ \E g \in MessagesToSend(job[w].msg, a) : u \in g
    <3>1. PICK h \in GroupsOf(a) : u \in h
      BY DEF GroupsOf
    <3>. QED
      BY <3>1 DEF LeftOut, MessagesToSend
  <2>3. Forwarding(w)'
    BY <2>1, <2>2 DEF Forwarding, Reached
  <2>. QED
    BY <1>4, <1>7, <2>1, <2>3
<1>8. ASSUME NEW w \in Workers, \A v \in Workers : v # w => job'[v] = job[v], Send(w)
      PROVE  ReachedInv'
  <2>. DEFINE j == job[w]
              a == Head(job[w].todo)
  <2>1. PICK g \in j.groups :
          \/ /\ copies' = copies \cup {[msg |-> j.msg, list |-> a, group |-> g, replyTo |-> j.replyTo]}
             /\ Goes(w, [j EXCEPT !.groups = @ \ {g}, !.sent = TRUE])
          \/ /\ refused' = refused \cup {<<j.msg, a, g>>}
             /\ Goes(w, [j EXCEPT !.groups = @ \ {g}, !.failed = @ \cup {g}])
    BY <1>8 DEF Send
  <2>2. j.at = "send" /\ UNCHANGED done
    BY <1>8 DEF Send
  <2>3. ASSUME NEW k, Goes(w, k) PROVE job'[w] = k
    BY <1>0, <2>3 DEF Goes
  <2>4. /\ job'[w].at = "send" /\ job'[w].msg = j.msg /\ job'[w].todo = j.todo
        /\ \/ /\ \E c \in copies' : c.msg = j.msg /\ c.list = a /\ c.group = g
              /\ job'[w].failed = j.failed
           \/ /\ job'[w].failed = j.failed \cup {g} /\ <<j.msg, a, g>> \in refused'
              /\ job'[w].sent = j.sent
        /\ j.groups \cup j.failed \subseteq job'[w].groups \cup job'[w].failed \cup {g}
    <3>. DEFINE c == [msg |-> j.msg, list |-> a, group |-> g, replyTo |-> j.replyTo]
                k == [j EXCEPT !.groups = @ \ {g}, !.sent = TRUE]
                l == [j EXCEPT !.groups = @ \ {g}, !.failed = @ \cup {g}]
    <3>3. c.msg = j.msg /\ c.list = a /\ c.group = g
      OBVIOUS
    <3>4. k.at = "send" /\ k.msg = j.msg /\ k.todo = j.todo /\ k.groups = j.groups \ {g}
          /\ k.failed = j.failed
      BY <1>0, <2>2 DEF Job
    <3>5. l.at = "send" /\ l.msg = j.msg /\ l.todo = j.todo /\ l.groups = j.groups \ {g}
          /\ l.failed = j.failed \cup {g} /\ l.sent = j.sent
      BY <1>0, <2>2 DEF Job
    <3>6. \/ copies' = copies \cup {c} /\ job'[w] = k
          \/ refused' = refused \cup {<<j.msg, a, g>>} /\ job'[w] = l
      BY <2>1, <2>3
    <3>. HIDE DEF c, k, l
    <3>1. CASE copies' = copies \cup {c} /\ job'[w] = k
      <4>1. c \in copies'
        BY <3>1
      <4>. QED
        BY <3>1, <3>3, <3>4, <4>1
    <3>2. CASE refused' = refused \cup {<<j.msg, a, g>>} /\ job'[w] = l
      BY <3>2, <3>5
    <3>. QED
      BY <3>1, <3>2, <3>6
  <2>5. \A m, b, u : Reached(copies, refused, m, b, u) => Reached(copies', refused', m, b, u)
    BY <1>0, StaysReached
  <2>6. \A b \in Addressed(j.msg) \ Elements(j.todo) :
          IsList(b) => \A u \in Members[b] : Reached(copies', refused', j.msg, b, u)
    BY <2>2, <2>5 DEF Forwarding
  <2>7. ASSUME NEW u \in Members[a]
        PROVE  \/ Reached(copies', refused', j.msg, a, u)
               \/ \E h \in job'[w].groups \cup job'[w].failed : u \in h
    <3>1. CASE Reached(copies, refused, j.msg, a, u)
      BY <2>5, <3>1
    <3>2. ASSUME NEW h \in j.groups \cup j.failed, u \in h
          PROVE  \/ Reached(copies', refused', j.msg, a, u)
                 \/ \E k \in job'[w].groups \cup job'[w].failed : u \in k
      <4>1. CASE h # g
        BY <2>4, <3>2, <4>1
      <4>2. CASE h = g
        BY <2>4, <3>2, <4>2 DEF Reached, Got
      <4>. QED
        BY <4>1, <4>2
    <3>. QED
      BY <2>2, <3>1, <3>2 DEF Forwarding
  <2>8. /\ \A h \in job'[w].failed : <<j.msg, a, h>> \in refused'
        /\ job'[w].sent => Sent(copies', j.msg, a)
    BY <1>0, <2>2, <2>4, StaysReached DEF Forwarding, Sent
  <2>9. Forwarding(w)'
    BY <2>4, <2>6, <2>7, <2>8 DEF Forwarding
  <2>. QED
    BY <1>4, <1>8, <2>2, <2>9
<1>9. ASSUME NEW w \in Workers, \A v \in Workers : v # w => job'[v] = job[v], EndOfList(w)
      PROVE  ReachedInv'
  <2>. DEFINE j == job[w]
              a == Head(job[w].todo)
  <2>1. /\ job'[w].at = "route" /\ job'[w].msg = j.msg /\ job'[w].todo = Tail(j.todo)
        /\ j.at = "send" /\ j.groups = {} /\ (j.failed = {} \/ j.sent)
        /\ UNCHANGED <<done, copies, refused>>
    BY <1>0, <1>9 DEF EndOfList, Goes, Job
  <2>2. j.todo # <<>>
    BY <2>1 DEF FileInv, Placed
  <2>3. Elements(j.todo) \subseteq {a} \cup Elements(job'[w].todo)
    BY <1>0, <2>1, <2>2, HeadAndTail
  <2>4. \A m, b, u : Reached(copies, refused, m, b, u) => Reached(copies', refused', m, b, u)
    BY <1>0, StaysReached
  <2>5. \A u \in Members[a] : Reached(copies', refused', j.msg, a, u)
    <3>. SUFFICES ASSUME NEW u \in Members[a] PROVE Reached(copies', refused', j.msg, a, u)
      OBVIOUS
    <3>1. CASE Reached(copies, refused, j.msg, a, u)
      BY <2>4, <3>1
    <3>2. ASSUME NEW g \in j.failed, u \in g PROVE Reached(copies', refused', j.msg, a, u)
      <4>1. <<j.msg, a, g>> \in refused' /\ Sent(copies', j.msg, a)
        BY <2>1, <3>2 DEF Forwarding, Sent
      <4>. QED
        BY <3>2, <4>1 DEF Reached
    <3>. QED
      BY <2>1, <3>1, <3>2 DEF Forwarding
  <2>6. \A b \in Addressed(j.msg) \ Elements(j.todo) :
          IsList(b) => \A u \in Members[b] : Reached(copies', refused', j.msg, b, u)
    BY <2>1, <2>4 DEF Forwarding
  <2>7. Forwarding(w)'
    BY <2>1, <2>3, <2>5, <2>6 DEF Forwarding
  <2>. QED
    BY <1>4, <1>9, <2>1, <2>7
<1>. QED
  BY <1>3, <1>5, <1>6, <1>7, <1>8, <1>9, KindsOfStep

\* A message that was handled to the end went to everybody on every one of its lists,
\* but for those left out, and those refused while another copy for the same list was
\* taken (forward_email_to_list, handle_mail).
THEOREM EverybodyReached == Spec => []DoneReachedEverybody
<1>1. Init => ReachedInv
  BY FileInitial DEF Init, ReachedInv, Forwarding, DoneReachedEverybody, Idle
<1>. QED
  BY <1>1, ReachedInductive, PTL DEF Spec, ReachedInv
=============================================================================
