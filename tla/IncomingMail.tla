---------------------------- MODULE IncomingMail ----------------------------
(***************************************************************************)
(* Mail that people send to the addresses of the charity. The mail service *)
(* keeps the message and notifies the site, perhaps more than once; each   *)
(* notification becomes a task, and a task may be given out again. A task  *)
(* tests for a file named after the message, opens it, locks it, and only  *)
(* then forwards the mail to the lists it is addressed to.                 *)
(***************************************************************************)
EXTENDS Naturals, FiniteSets, Sequences

CONSTANTS
    Messages,
    Workers,        \* task processes
    To,             \* the addresses of a message, sorted; none if it is discarded
    KindOf,         \* what find_list makes of an address
    Members,        \* the members of each list, perhaps none
    NoAddress,      \* people of whom no email address is known
    Garbled,        \* <<message, group>> that cannot be made into bytes again
    OwnReplyTo,     \* the messages that came with a Reply-To header
    MaxNotices,     \* bound: notifications of one message
    MaxTroubles     \* bound: exceptions and killed processes

Addresses == UNION {{To[m][i] : i \in DOMAIN To[m]} : m \in Messages}
Kinds == {"reply list", "plain list", "denied", "no list"}

ASSUME IncomingMailAssumption ==
    /\ IsFiniteSet(Workers) /\ "none" \notin Messages \cup Workers
    /\ To \in [Messages -> Seq(Addresses)]
    /\ KindOf \in [Addresses -> Kinds]
    /\ OwnReplyTo \subseteq Messages
    /\ MaxNotices \in Nat /\ MaxTroubles \in Nat

VARIABLES
    notices,    \* notifications so far
    tasks,      \* tasks that wait for a worker
    file,       \* the inode of the lock file; 0 if there is none
    old,        \* the files created more than a day ago
    inodes,     \* inodes used so far
    lock,       \* who holds the lock of each inode
    job,        \* what each worker is doing
    copies,     \* the mails sent
    refused,    \* copies that the mailer did not take
    reports,    \* reports that arrived, and where
    done,       \* messages that were handled to the end
    begun,      \* how often the handling of each message began
    slipped,    \* how often a task passed the test while another was under way
    cutShort,   \* messages that a task left unfinished, with the file it had made
    troubles    \* exceptions and killed processes so far

mailbox == <<copies, refused, reports, done>>
files == <<file, old, inodes, lock>>
history == <<begun, slipped, cutShort, troubles>>
vars == <<notices, tasks, files, job, mailbox, history>>

Senders == {"sender", "mangled"}
ReplyTos == {"absent", "own", "sender", "mangled"}
Groups == UNION {SUBSET Members[a] : a \in Addresses}
Copy == [msg : Messages, list : Addresses, group : Groups, replyTo : ReplyTos]

Job == [at : {"idle", "test", "open", "lock", "fetch", "route", "send"},
        msg : Messages \cup {"none"}, inode : Nat,
        todo : Seq(Addresses),                      \* addresses still to be looked up
        from : Senders, orig : Senders,             \* headers of the mail object
        replyTo : ReplyTos,
        groups : SUBSET Groups,                     \* messages still to be sent
        failed : SUBSET Groups, sent : BOOLEAN]

Idle == [at |-> "idle", msg |-> "none", inode |-> 0, todo |-> <<>>, from |-> "sender",
         orig |-> "sender", replyTo |-> "absent", groups |-> {}, failed |-> {},
         sent |-> FALSE]

Free == "none"

TypeOK ==
    /\ notices \in [Messages -> 0..MaxNotices]
    /\ tasks \in [Messages -> Nat]
    /\ file \in [Messages -> 0..inodes]
    /\ old \subseteq Messages
    /\ inodes \in Nat
    /\ lock \in [1..inodes -> Workers \cup {Free}]
    /\ job \in [Workers -> Job]
    /\ copies \subseteq Copy
    /\ refused \subseteq Messages \X Addresses \X Groups
    /\ reports \subseteq Messages \X Addresses \X Senders
    /\ done \subseteq Messages
    /\ begun \in [Messages -> Nat]
    /\ slipped \in [Messages -> Nat]
    /\ cutShort \subseteq Messages
    /\ troubles \in 0..MaxTroubles

Init ==
    /\ notices = [m \in Messages |-> 0]
    /\ tasks = [m \in Messages |-> 0]
    /\ file = [m \in Messages |-> 0]
    /\ old = {}
    /\ inodes = 0
    /\ lock = <<>>
    /\ job = [w \in Workers |-> Idle]
    /\ copies = {}
    /\ refused = {}
    /\ reports = {}
    /\ done = {}
    /\ begun = [m \in Messages |-> 0]
    /\ slipped = [m \in Messages |-> 0]
    /\ cutShort = {}
    /\ troubles = 0

-----------------------------------------------------------------------------
(* Notifications, tasks and time.                                          *)

Working(w) == job[w].at # "idle"
UnderWay(m) == {w \in Workers : job[w].msg = m}
HandlingNow(w) == job[w].at \in {"fetch", "route", "send"}

\* (A change of Notify: repeated notifications are stopped in the view, by the
\* same file.)
NotifyAndMark(m) ==
    /\ notices[m] < MaxNotices
    /\ m \notin old
    /\ notices' = [notices EXCEPT ![m] = @ + 1]
    /\ \/ file[m] # 0 /\ UNCHANGED <<tasks, files>>
       \/ /\ file[m] = 0
          /\ inodes' = inodes + 1
          /\ file' = [file EXCEPT ![m] = inodes + 1]
          /\ lock' = [i \in 1..inodes + 1 |-> IF i \in DOMAIN lock THEN lock[i] ELSE "none"]
          /\ tasks' = [tasks EXCEPT ![m] = @ + 1]
          /\ UNCHANGED old
    /\ UNCHANGED <<job, mailbox, history>>

\* ses_incoming_notification: the task is queued and the request returns. The
\* service repeats a notification whose answer it has not seen, within the day.
Notify(m) ==
    /\ notices[m] < MaxNotices
    /\ m \notin old
    /\ notices' = [notices EXCEPT ![m] = @ + 1]
    /\ tasks' = [tasks EXCEPT ![m] = @ + 1]
    /\ UNCHANGED <<files, job, mailbox, history>>

\* A worker of the task queue takes a task.
Take(w, m) ==
    /\ ~Working(w)
    /\ tasks[m] > 0
    /\ tasks' = [tasks EXCEPT ![m] = @ - 1]
    /\ job' = [job EXCEPT ![w] = [Idle EXCEPT !.at = "test", !.msg = m]]
    /\ UNCHANGED <<notices, files, mailbox, history>>

\* A day has passed. Tasks are killed after 90 seconds, so none that was under
\* way then still is, and by now the service has given up repeating itself.
Ages(m) ==
    /\ file[m] # 0 /\ tasks[m] = 0 /\ UnderWay(m) = {}
    /\ old' = old \cup {m}
    /\ notices' = [notices EXCEPT ![m] = MaxNotices]
    /\ UNCHANGED <<tasks, file, inodes, lock, job, mailbox, history>>

\* (A change of Stale: the age is not looked at.)
StaleAtOnce(m) == TRUE

\* cleanup_temp_mail_files, daily: files changed more than a day ago.
Stale(m) == m \in old

CleanUp ==
    /\ \E m \in Messages : file[m] # 0 /\ Stale(m)
    /\ file' = [m \in Messages |-> IF Stale(m) THEN 0 ELSE file[m]]
    /\ UNCHANGED <<notices, tasks, old, inodes, lock, job, mailbox, history>>

-----------------------------------------------------------------------------
(* handle_mail_from_s3, step by step.                                      *)

Goes(w, j) == job' = [job EXCEPT ![w] = j]

\* The worker is done with its task; a lock goes with the open file.
Lets(w) == [i \in DOMAIN lock |-> IF lock[i] = w THEN Free ELSE lock[i]]

Leave(w) == Goes(w, Idle) /\ lock' = Lets(w)

\* Does the file exist?
Test(w) ==
    LET m == job[w].msg IN
    /\ job[w].at = "test"
    /\ \/ /\ file[m] # 0
          /\ Goes(w, Idle)
          /\ UNCHANGED slipped
       \/ /\ file[m] = 0
          /\ Goes(w, [job[w] EXCEPT !.at = "open"])
          /\ slipped' = [slipped EXCEPT ![m] = @ + (IF UnderWay(m) = {w} THEN 0 ELSE 1)]
    /\ UNCHANGED <<notices, tasks, files, mailbox, begun, cutShort, troubles>>

\* open(filename, "wb"): the file there is, or a new one.
Open(w) ==
    LET m == job[w].msg IN
    /\ job[w].at = "open"
    /\ \/ /\ file[m] # 0
          /\ Goes(w, [job[w] EXCEPT !.at = "lock", !.inode = file[m]])
          /\ UNCHANGED files
       \/ /\ file[m] = 0
          /\ inodes' = inodes + 1
          /\ file' = [file EXCEPT ![m] = inodes + 1]
          /\ lock' = [i \in 1..inodes + 1 |-> IF i \in DOMAIN lock THEN lock[i] ELSE Free]
          /\ Goes(w, [job[w] EXCEPT !.at = "lock", !.inode = inodes + 1])
          /\ UNCHANGED old
    /\ UNCHANGED <<notices, tasks, mailbox, history>>

\* flock with LOCK_NB: hold the lock or give up.
Lock(w) ==
    LET i == job[w].inode IN
    /\ job[w].at = "lock"
    /\ \/ /\ lock[i] # Free
          /\ Goes(w, Idle)
          /\ UNCHANGED <<lock, begun>>
       \/ /\ lock[i] = Free
          /\ lock' = [lock EXCEPT ![i] = w]
          /\ begun' = [begun EXCEPT ![job[w].msg] = @ + 1]
          /\ Goes(w, [job[w] EXCEPT !.at = "fetch"])
    /\ UNCHANGED <<notices, tasks, file, old, inodes, mailbox, slipped, cutShort, troubles>>

\* download_ses_message_from_s3, and the beginning of handle_mail.
Fetch(w) ==
    LET m == job[w].msg IN
    /\ job[w].at = "fetch"
    /\ Goes(w, [job[w] EXCEPT !.at = "route", !.todo = To[m],
                              !.replyTo = IF m \in OwnReplyTo THEN "own" ELSE "absent"])
    /\ UNCHANGED <<notices, tasks, files, mailbox, history>>

\* The file is there and nobody else has its lock.
HasFile(w) == HandlingNow(w) \/ (job[w].at = "lock" /\ lock[job[w].inode] = Free)

\* An exception, or a process that is killed: the task is given out again, and
\* stops at the file if that is there.
Fail(w) ==
    /\ troubles < MaxTroubles
    /\ troubles' = troubles + 1
    /\ Leave(w)
    /\ tasks' = [tasks EXCEPT ![job[w].msg] = @ + 1]
    /\ cutShort' = cutShort \cup (IF HasFile(w) THEN {job[w].msg} ELSE {})
    /\ UNCHANGED <<notices, file, old, inodes, mailbox, begun, slipped>>

Die(w) == Working(w) /\ Fail(w)

-----------------------------------------------------------------------------
(* handle_mail and forward_email_to_list.                                  *)

IsList(a) == KindOf[a] \in {"reply list", "plain list"}

\* Everybody on one mail, so that they can answer to all, or a mail for each.
GroupsOf(a) ==
    IF KindOf[a] = "reply list" THEN {Members[a]} ELSE {{u} : u \in Members[a]}

\* Those without an address are left out, then a group of nobody, and a group for
\* which the message, with them on its To line, cannot be made into bytes.
MessagesToSend(m, a) ==
    {g \in {h \ NoAddress : h \in GroupsOf(a)} : g # {} /\ <<m, g>> \notin Garbled}

\* (A change of NextAfterRefusal: return instead of continue.)
NothingAfterRefusal(todo) == <<>>

\* Addresses that are no list, or closed to the sender, are passed over.
NextAfterRefusal(todo) == Tail(todo)

PassOver(w) ==
    /\ job[w].at = "route" /\ job[w].todo # <<>> /\ ~IsList(Head(job[w].todo))
    /\ Goes(w, [job[w] EXCEPT !.todo = NextAfterRefusal(@)])
    /\ UNCHANGED <<notices, tasks, files, mailbox, history>>

\* (A change of ReplyToAfter: always from From.)
ReplyToFrom(j) == j.from

\* The headers of the one mail object are overwritten for each list. Reply-To
\* stays once it is there; From is replaced by an address nobody reads.
ReplyToAfter(j) == IF j.replyTo = "absent" THEN j.from ELSE j.replyTo

ForwardToList(w) ==
    /\ job[w].at = "route" /\ job[w].todo # <<>> /\ IsList(Head(job[w].todo))
    /\ Goes(w, [job[w] EXCEPT !.at = "send", !.orig = job[w].from, !.from = "mangled",
                              !.replyTo = ReplyToAfter(job[w]),
                              !.groups = MessagesToSend(job[w].msg, Head(job[w].todo)),
                              !.failed = {}, !.sent = FALSE])
    /\ UNCHANGED <<notices, tasks, files, mailbox, history>>

\* One message handed to the mailer, or refused by it.
Send(w) ==
    LET j == job[w] IN
    /\ j.at = "send"
    /\ \E g \in j.groups :
        \/ /\ copies' = copies \cup {[msg |-> j.msg, list |-> Head(j.todo), group |-> g,
                                     replyTo |-> j.replyTo]}
           /\ Goes(w, [j EXCEPT !.groups = @ \ {g}, !.sent = TRUE])
           /\ UNCHANGED <<refused, troubles>>
        \/ /\ troubles < MaxTroubles
           /\ troubles' = troubles + 1
           /\ refused' = refused \cup {<<j.msg, Head(j.todo), g>>}
           /\ Goes(w, [j EXCEPT !.groups = @ \ {g}, !.failed = @ \cup {g}])
           /\ UNCHANGED copies
    /\ UNCHANGED <<notices, tasks, files, reports, done, begun, slipped, cutShort>>

\* If some of the messages failed that is reported to whom the mail object says it
\* is from, and the report may be lost. A list to which there was nothing to send
\* ends here at once.
EndOfList(w) ==
    LET j == job[w] IN
    /\ j.at = "send" /\ j.groups = {}
    /\ j.failed = {} \/ j.sent
    /\ \/ UNCHANGED reports
       \/ j.failed # {} /\ reports' = reports \cup {<<j.msg, Head(j.todo), j.orig>>}
    /\ Goes(w, [j EXCEPT !.at = "route", !.todo = Tail(@), !.failed = {}, !.sent = FALSE])
    /\ UNCHANGED <<notices, tasks, files, copies, refused, done, history>>

\* All of them failed: the last error is raised, and the lists that follow get
\* nothing.
RaiseLastError(w) ==
    LET j == job[w] IN
    /\ j.at = "send" /\ j.groups = {}
    /\ j.failed # {} /\ ~j.sent
    /\ Leave(w)
    /\ tasks' = [tasks EXCEPT ![j.msg] = @ + 1]
    /\ cutShort' = cutShort \cup {j.msg}
    /\ UNCHANGED <<notices, file, old, inodes, mailbox, begun, slipped, troubles>>

\* (A change of Finish: the file is tidied away at once.)
FinishAndRemove(w) ==
    /\ job[w].at = "route" /\ job[w].todo = <<>>
    /\ Leave(w)
    /\ done' = done \cup {job[w].msg}
    /\ file' = [file EXCEPT ![job[w].msg] = 0]
    /\ UNCHANGED <<notices, tasks, old, inodes, copies, refused, reports, history>>

\* The file is left behind.
Finish(w) ==
    /\ job[w].at = "route" /\ job[w].todo = <<>>
    /\ Leave(w)
    /\ done' = done \cup {job[w].msg}
    /\ UNCHANGED <<notices, tasks, file, old, inodes, copies, refused, reports, history>>

-----------------------------------------------------------------------------

Step(w) ==
    \/ \E m \in Messages : Take(w, m)
    \/ Test(w) \/ Open(w) \/ Lock(w) \/ Fetch(w)
    \/ PassOver(w) \/ ForwardToList(w) \/ Send(w) \/ EndOfList(w) \/ RaiseLastError(w)
    \/ Finish(w)

Next ==
    \/ \E m \in Messages : Notify(m) \/ Ages(m)
    \/ CleanUp
    \/ \E w \in Workers : Step(w) \/ Die(w)

Spec == Init /\ [][Next]_vars

\* Task processes are restarted when they end, and work while there are tasks.
FairSpec == Spec /\ \A w \in Workers : WF_vars(Step(w))

-----------------------------------------------------------------------------
(* Properties.                                                             *)

\* A message is in the hands of one worker at a time, whatever is delivered
\* twice, whoever is killed, and whenever files are tidied away: the lock is on
\* the open file, and only as good as the name that leads to it
\* (handle_mail_from_s3, cleanup_temp_mail_files).
OneHandlerAtATime ==
    \A v, w \in Workers :
        v # w /\ HandlingNow(v) /\ HandlingNow(w) => job[v].msg # job[w].msg

\* Deliveries that do not overlap handle a message once, however often the task
\* is repeated after an error: the file left behind stops them
\* (handle_mail_from_s3).
OverlapNeededToRepeat ==
    \A m \in Messages : begun[m] <= 1 + slipped[m]

\* Whoever answers a forwarded mail reaches its sender, on whichever of the lists
\* they read it, although From was overwritten for the first of them
\* (forward_email_to_list).
RepliesReachSender ==
    \A c \in copies : c.replyTo = IF c.msg \in OwnReplyTo THEN "own" ELSE "sender"

\* Nobody is told of those that forward_email_to_list leaves out: people without an
\* address, and a group for which the message cannot be made into bytes.
LeftOut(m, a, u) ==
    \/ u \in NoAddress
    \/ \E g \in GroupsOf(a) : u \in g /\ <<m, g \ NoAddress>> \in Garbled

\* A message that was handled to the end went to everybody on every list it was sent
\* to, whatever else was on the To line; but for those left out, and for one whose
\* copy the mailer refused while it took another for the same list: when it takes
\* none, the message is not done (forward_email_to_list, handle_mail).
DoneReachedEverybody ==
    \A m \in done : \A i \in DOMAIN To[m] : LET a == To[m][i] IN
        IsList(a) => \A u \in Members[a] :
            \/ LeftOut(m, a, u)
            \/ \E c \in copies : c.msg = m /\ c.list = a /\ u \in c.group
            \/ /\ \E r \in refused : r[1] = m /\ r[2] = a /\ u \in r[3]
               /\ \E c \in copies : c.msg = m /\ c.list = a

\* A message that was notified is handled to the end unless it is cut short: the task
\* that had made its file died or met an error. Such a message is lost, for the
\* retry stops at the file. Nothing else loses one: not an overlap, a repeated
\* notification, or trouble with another message (ses_incoming_notification,
\* handle_mail_from_s3).
HandledUnlessCutShort == \A m \in Messages : notices[m] > 0 ~> m \in done \cup cutShort

=============================================================================
