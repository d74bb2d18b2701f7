---------------------------- MODULE BookingRaces ----------------------------
(***************************************************************************)
(* The requests of BookingQueue cut at their database statements. Nothing  *)
(* wraps a request in a transaction: each statement commits by itself, and *)
(* save() writes back every column of an object that was read earlier.     *)
(*                                                                         *)
(* One camp with one limit, and bookings of accounts with an email         *)
(* address. Whether a deadline has come is left open: the expiry job takes *)
(* any of the places that carry one.                                       *)
(***************************************************************************)
EXTENDS Integers, FiniteSets

CONSTANTS
    Bookings,       \* rows of the Booking table
    Workers,        \* web server processes, and the job
    KindsOf,        \* the requests each of them may serve
    MaxPlaces,      \* the limit of the camp
    MaxDeclined,    \* bound: "declined" mails sent about a booking
    Mortal          \* the workers whose requests may be killed half-way

Kinds == {"allocate", "edit", "shelve", "delete", "apply",
          "withdraw", "accept", "reject", "expire", "unbook"}

ASSUME BookingRacesAssumption ==
    /\ IsFiniteSet(Bookings)
    /\ KindsOf \in [Workers -> SUBSET Kinds]
    /\ MaxPlaces \in Nat
    /\ MaxDeclined \in Nat
    /\ Mortal \subseteq Workers

VARIABLES
    row,        \* Booking: state, booking_expires_at is set, shelved
    entry,      \* BookingQueueEntry
    job,        \* what each worker is doing, and the objects it holds
    declines,   \* number of "declined" mails sent about each booking
    word        \* what the holder was told last about the place

vars == <<row, entry, job, declines, word>>

\* cancelled_half_refund: by staff, for whichever state they may choose.
Row == [state : {"absent", "info_complete", "booked",
                 "cancelled_full_refund", "cancelled_half_refund"},
        expires : BOOLEAN, shelved : BOOLEAN]

\* told: declined_notification_sent_at is set.
Entry == [exists : BOOLEAN, active : BOOLEAN, waitingList : BOOLEAN, told : BOOLEAN]

NoRow == [state |-> "absent", expires |-> FALSE, shelved |-> FALSE]
NoEntry == [exists |-> FALSE, active |-> FALSE, waitingList |-> FALSE, told |-> FALSE]
NewRow == [NoRow EXCEPT !.state = "info_complete"]

\* unsent: the request that booked the place was cut short before its mail.
Word == {"none", "offer", "confirmed", "released", "unsent"}

\* The statement a request is about to execute.
Label == {"idle", "rank", "allocating", "mailing", "declining", "mark", "edit", "shelve", "delete",
          "apply", "ask", "enqueue", "withdraw", "leave", "stow", "accept",
          "cancel", "put_away", "lookup", "drop", "tell", "unbook"}

Job == [at : Label,
        rows : [Bookings -> Row], entries : [Bookings -> Entry],
        todo : SUBSET Bookings, mails : SUBSET Bookings, declined : SUBSET Bookings,
        now : SUBSET Bookings, left : Nat, full : BOOLEAN]

Idle == [at |-> "idle",
         rows |-> [b \in Bookings |-> NoRow], entries |-> [b \in Bookings |-> NoEntry],
         todo |-> {}, mails |-> {}, declined |-> {}, now |-> {}, left |-> 0, full |-> FALSE]

-----------------------------------------------------------------------------

Booked == {b \in Bookings : row[b].state = "booked"}

\* Places on offer counted as free.
LeftWithOffers ==
    LET held == {b \in Booked : ~row[b].expires} IN
    IF Cardinality(held) < MaxPlaces THEN MaxPlaces - Cardinality(held) ELSE 0

\* Camp.get_places_left
Left == IF Cardinality(Booked) < MaxPlaces THEN MaxPlaces - Cardinality(Booked) ELSE 0
Waiting == {b \in Bookings : entry[b].active /\ row[b].state = "info_complete"}
Offered(b) == row[b].state = "booked" /\ row[b].expires
WaitingListMode(e) == e.told \/ e.waitingList

\* The rows of S, as objects.
Objects(S) == [b \in Bookings |-> IF b \in S THEN row[b] ELSE NoRow]

Become(w, j) == job' = [job EXCEPT ![w] = j]
Finish(w) == Become(w, Idle)

\* A request raises, or is killed. Nothing it saved is undone.
CutShort(w) ==
    /\ word' = [b \in Bookings |-> IF b \in job[w].mails \ job[w].todo THEN "unsent" ELSE word[b]]
    /\ Finish(w)

\* Booking.save(): every column, and an INSERT if the row has gone.
SaveRow(b, r) == row' = [row EXCEPT ![b] = r]

\* BookingQueueEntry.save(), which fails if the booking has gone.
SaveEntry(b, e) == entry' = IF row[b].state = "absent" THEN entry ELSE [entry EXCEPT ![b] = e]

-----------------------------------------------------------------------------
(* The booking secretary allocates. *)

CountPlaces(w) ==
    /\ job[w].at = "idle"
    /\ "allocate" \in KindsOf[w]
    /\ Become(w, [Idle EXCEPT !.at = "rank", !.left = Left])
    /\ UNCHANGED <<row, entry, declines, word>>

\* The queue is read after the places were counted. Any ranking will do. Of the
\* objects read, those that are saved later are kept.
RankQueue(w) ==
    /\ job[w].at = "rank"
    /\ \E A \in SUBSET Waiting :
        /\ Cardinality(A) = IF Cardinality(Waiting) < job[w].left
                            THEN Cardinality(Waiting) ELSE job[w].left
        /\ Become(w, [job[w] EXCEPT
             !.at = "allocating", !.left = 0,
             !.rows = Objects(A),
             !.entries = [b \in Bookings |-> IF b \in A THEN entry[b] ELSE NoEntry],
             !.todo = A,
             !.mails = A,
             !.declined = {b \in Waiting \ A : ~WaitingListMode(entry[b])}])
    /\ UNCHANGED <<row, entry, declines, word>>

SaveBooked(w) ==
    LET j == job[w] IN
    /\ j.at = "allocating"
    /\ \E b \in j.todo :
        LET booked == [j.rows[b] EXCEPT !.state = "booked",
                                        !.expires = @ \/ WaitingListMode(j.entries[b])]
        IN /\ SaveRow(b, booked)
           /\ Become(w, [j EXCEPT !.rows[b] = booked, !.todo = @ \ {b}])
    /\ UNCHANGED <<entry, declines, word>>

\* A log row per booking, which fails if somebody deleted the queue entry; the
\* rest of the request is then not executed. One step stands for all rows. The
\* entries are not used again.
LogActions(w, from, to, S) ==
    /\ job[w].at = from
    /\ IF \A b \in S : entry[b].exists
       THEN Become(w, [job[w] EXCEPT !.at = to, !.entries = Idle.entries]) /\ UNCHANGED word
       ELSE CutShort(w)
    /\ UNCHANGED <<row, entry, declines>>

\* All places are saved and logged before the first mail is sent.
LogAllocated(w) == job[w].todo = {} /\ LogActions(w, "allocating", "mailing", job[w].mails)

\* The places with a deadline left out of the mails.
MailConfirmedOnly(w) ==
    LET j == job[w] IN
    /\ j.at = "mailing"
    /\ \E b \in j.mails :
        /\ word' = [word EXCEPT ![b] = IF j.rows[b].expires THEN @ ELSE "confirmed"]
        /\ Become(w, [j EXCEPT !.mails = @ \ {b}])
    /\ UNCHANGED <<row, entry, declines>>

MailAllocated(w) ==
    LET j == job[w] IN
    /\ j.at = "mailing"
    /\ \E b \in j.mails :
        /\ word' = [word EXCEPT ![b] = IF j.rows[b].expires THEN "offer" ELSE "confirmed"]
        /\ Become(w, [j EXCEPT !.mails = @ \ {b}])
    /\ UNCHANGED <<row, entry, declines>>

LogDeclined(w) == job[w].mails = {} /\ LogActions(w, "mailing", "declining", job[w].declined)

MailDeclined(w) ==
    LET j == job[w] IN
    /\ j.at = "declining"
    /\ \E b \in j.declined :
        /\ declines[b] < MaxDeclined
        /\ declines' = [declines EXCEPT ![b] = @ + 1]
        /\ Become(w, [j EXCEPT !.at = "mark", !.declined = @ \ {b}, !.now = {b}])
    /\ UNCHANGED <<row, entry, word>>

\* An update of the one column, in the rows there are.
MarkDeclined(w) ==
    LET j == job[w] IN
    /\ j.at = "mark"
    /\ entry' = [b \in Bookings |-> [entry[b] EXCEPT !.told = @ \/ (b \in j.now /\ entry[b].exists)]]
    /\ Become(w, [j EXCEPT !.at = "declining", !.now = {}])
    /\ UNCHANGED <<row, declines, word>>

FinishAllocating(w) ==
    /\ job[w].at = "declining"
    /\ job[w].declined = {}
    /\ Finish(w)
    /\ UNCHANGED <<row, entry, declines, word>>

Allocating(w) ==
    \/ CountPlaces(w) \/ RankQueue(w) \/ SaveBooked(w)
    \/ LogAllocated(w) \/ MailAllocated(w)
    \/ LogDeclined(w) \/ MailDeclined(w) \/ MarkDeclined(w) \/ FinishAllocating(w)

-----------------------------------------------------------------------------
(* Requests of an account holder. *)

Listed(b) == row[b].state = "info_complete" /\ ~entry[b].active

\* The conditions under which a request gets past its first query.
Admitted(kind, b) ==
    \/ kind = "edit" /\ row[b].state = "info_complete"
    \/ kind \in {"shelve", "delete"} /\ Listed(b)
    \/ kind = "apply" /\ Listed(b) /\ ~row[b].shelved
    \/ kind = "withdraw" /\ row[b].state # "absent" /\ entry[b].exists
    \/ kind \in {"accept", "reject"} /\ Offered(b)
    \/ kind = "unbook" /\ row[b].state = "booked"

\* The first statement of a request reads the booking.
OpenRequest(w) ==
    /\ job[w].at = "idle"
    /\ \E kind \in KindsOf[w], b \in Bookings :
        /\ Admitted(kind, b)
        /\ Become(w, [Idle EXCEPT !.at = IF kind = "reject" THEN "cancel" ELSE kind,
                                  !.rows = Objects({b}), !.now = {b}])
    /\ UNCHANGED <<row, entry, declines, word>>

\* The booking the request is about, or the one the job is at.
Subject(w) == CHOOSE b \in Bookings : b \in job[w].now

\* The details in the form are not modelled, the other columns are.
SaveForm(w) ==
    LET b == Subject(w) IN
    /\ job[w].at = "edit"
    /\ SaveRow(b, job[w].rows[b])
    /\ Finish(w)
    /\ UNCHANGED <<entry, declines, word>>

\* move_to_shelf or move_to_basket, whichever button the page has.
MoveShelf(w) ==
    LET b == Subject(w) IN
    /\ job[w].at = "shelve"
    /\ SaveRow(b, [job[w].rows[b] EXCEPT !.shelved = ~@])
    /\ Finish(w)
    /\ UNCHANGED <<entry, declines, word>>

\* By primary key, whatever the row holds by now.
DeleteRow(w) ==
    LET b == Subject(w) IN
    /\ job[w].at = "delete"
    /\ SaveRow(b, NoRow)
    /\ entry' = [entry EXCEPT ![b] = NoEntry]
    /\ declines' = [declines EXCEPT ![b] = 0]
    /\ word' = [word EXCEPT ![b] = "none"]
    /\ Finish(w)

\* The queue entry is fetched when it is first asked for.
FetchEntry(w, from, to) ==
    LET b == Subject(w) IN
    /\ job[w].at = from
    /\ Become(w, [job[w] EXCEPT !.at = to, !.entries[b] = entry[b]])
    /\ UNCHANGED <<row, entry, declines, word>>

AskForPlaces(w) ==
    /\ job[w].at = "ask"
    /\ Become(w, [job[w] EXCEPT !.at = "enqueue", !.full = (Left = 0)])
    /\ UNCHANGED <<row, entry, declines, word>>

\* create_for_booking, which fails if somebody else was first, or make_active,
\* which does nothing to an active entry.
Enqueue(w) ==
    LET b == Subject(w)
        e == job[w].entries[b]
        isNew == ~e.exists
    IN
    /\ job[w].at = "enqueue"
    /\ IF (isNew /\ entry[b].exists) \/ e.active
       THEN UNCHANGED entry
       ELSE SaveEntry(b, [e EXCEPT !.exists = TRUE, !.active = TRUE,
                                   !.waitingList = @ \/ job[w].full])
    /\ Finish(w)
    /\ UNCHANGED <<row, declines, word>>

\* make_inactive: every column of the entry as it was fetched.
LeaveQueue(w, from, to) ==
    LET b == Subject(w)
        e == job[w].entries[b]
    IN
    /\ job[w].at = from
    /\ IF e.active THEN SaveEntry(b, [e EXCEPT !.active = FALSE]) ELSE UNCHANGED entry
    /\ IF e.active /\ row[b].state = "absent" THEN Finish(w)
       ELSE Become(w, [job[w] EXCEPT !.at = to])
    /\ UNCHANGED <<row, declines, word>>

Stow(w) ==
    LET b == Subject(w) IN
    /\ job[w].at = "stow"
    /\ SaveRow(b, [job[w].rows[b] EXCEPT !.shelved = TRUE])
    /\ Finish(w)
    /\ UNCHANGED <<entry, declines, word>>

SaveAccepted(w) ==
    LET b == Subject(w) IN
    /\ job[w].at = "accept"
    /\ SaveRow(b, [job[w].rows[b] EXCEPT !.expires = FALSE])
    /\ word' = [word EXCEPT ![b] = "confirmed"]
    /\ Finish(w)
    /\ UNCHANGED <<entry, declines>>

\* Staff cancel a place, in the admin; whatever the holder was told is void,
\* and it is for staff to say so.
SaveUnbooked(w) ==
    LET b == Subject(w) IN
    /\ job[w].at = "unbook"
    /\ SaveRow(b, [job[w].rows[b] EXCEPT !.state = "cancelled_half_refund"])
    /\ word' = [word EXCEPT ![b] = "none"]
    /\ Finish(w)
    /\ UNCHANGED <<entry, declines>>

Holding(w) ==
    \/ OpenRequest(w) \/ SaveUnbooked(w)
    \/ SaveForm(w) \/ MoveShelf(w) \/ DeleteRow(w)
    \/ FetchEntry(w, "apply", "ask") \/ AskForPlaces(w) \/ Enqueue(w)
    \/ FetchEntry(w, "withdraw", "leave") \/ LeaveQueue(w, "leave", "stow") \/ Stow(w)
    \/ SaveAccepted(w)

-----------------------------------------------------------------------------
(* cancel_expiring_place, for a refusal or for every overdue place. *)

\* The job reads all overdue bookings before it handles the first.
OpenExpire(w) ==
    /\ job[w].at = "idle"
    /\ "expire" \in KindsOf[w]
    /\ \E S \in SUBSET {b \in Bookings : Offered(b)} : \E b \in S :
        Become(w, [Idle EXCEPT !.at = "cancel", !.rows = Objects(S), !.now = {b}, !.todo = S \ {b}])
    /\ UNCHANGED <<row, entry, declines, word>>

\* The deadline left on the cancelled booking.
SaveCancelledWithDeadline(w) ==
    LET b == Subject(w)
        cancelled == [job[w].rows[b] EXCEPT !.state = "cancelled_full_refund"]
    IN
    /\ job[w].at = "cancel"
    /\ SaveRow(b, cancelled)
    /\ Become(w, [job[w] EXCEPT !.at = "put_away", !.rows[b] = cancelled])
    /\ UNCHANGED <<entry, declines, word>>

SaveCancelled(w) ==
    LET b == Subject(w)
        cancelled == [job[w].rows[b] EXCEPT !.state = "cancelled_full_refund", !.expires = FALSE]
    IN
    /\ job[w].at = "cancel"
    /\ SaveRow(b, cancelled)
    /\ Become(w, [job[w] EXCEPT !.at = "put_away", !.rows[b] = cancelled])
    /\ UNCHANGED <<entry, declines, word>>

PutAway(w) ==
    LET b == Subject(w) IN
    /\ job[w].at = "put_away"
    /\ SaveRow(b, [job[w].rows[b] EXCEPT !.shelved = TRUE])
    /\ Become(w, [job[w] EXCEPT !.at = "lookup"])
    /\ UNCHANGED <<entry, declines, word>>

\* The page or the mail says that the place is gone.
TellReleased(w) ==
    /\ job[w].at = "tell"
    /\ word' = [word EXCEPT ![Subject(w)] = "released"]
    /\ \/ job[w].todo = {} /\ Finish(w)
       \/ \E next \in job[w].todo :
            Become(w, [job[w] EXCEPT !.at = "cancel", !.now = {next}, !.todo = @ \ {next}])
    /\ UNCHANGED <<row, entry, declines>>

Cancelling(w) ==
    \/ OpenExpire(w) \/ SaveCancelled(w) \/ PutAway(w)
    \/ FetchEntry(w, "lookup", "drop") \/ LeaveQueue(w, "drop", "tell")
    \/ TellReleased(w)

-----------------------------------------------------------------------------
(* A process is recycled, or fails for a reason that is not modelled. *)

Die(w) ==
    /\ w \in Mortal
    /\ job[w].at # "idle"
    /\ CutShort(w)
    /\ UNCHANGED <<row, entry, declines>>

-----------------------------------------------------------------------------

\* A camper in every basket.
Init ==
    /\ row = [b \in Bookings |-> NewRow]
    /\ entry = [b \in Bookings |-> NoEntry]
    /\ job = [w \in Workers |-> Idle]
    /\ declines = [b \in Bookings |-> 0]
    /\ word = [b \in Bookings |-> "none"]

Work(w) == Allocating(w) \/ Holding(w) \/ Cancelling(w) \/ Die(w)

Next == \E w \in Workers : Work(w)

Spec == Init /\ [][Next]_vars

-----------------------------------------------------------------------------

TypeOK ==
    /\ row \in [Bookings -> Row]
    /\ entry \in [Bookings -> Entry]
    /\ job \in [Workers -> Job]
    /\ declines \in [Bookings -> 0..MaxDeclined]
    /\ word \in [Bookings -> Word]

\* The row of a booking makes sense however requests overlap and wherever
\* they die: a place that was given back, or never given, has no deadline.
\* Objects that are written back are old, but they were whole. (Staff who
\* cancel a place leave its deadline where it is.)
OnlyBookedExpires ==
    \A b \in Bookings : row[b].expires => row[b].state \in {"booked", "cancelled_half_refund"}

\* No more places are booked than there are.
WithinLimit == Cardinality(Booked) <= MaxPlaces

\* Whoever has a place has been told so, unless the allocation that gave it
\* is still sending its mails, or was cut short.
BookedWasTold ==
    \A b \in Booked :
        \/ word[b] \in {"offer", "confirmed", "unsent"}
        \/ \E w \in Workers : b \in job[w].mails

\* There is room for the places that w has counted, and those it has still to save.
HasRoom(w) ==
    /\ job[w].at = "rank" => Cardinality(Booked) + job[w].left <= MaxPlaces
    /\ job[w].at = "allocating" => Cardinality(Booked \cup job[w].todo) <= MaxPlaces

\* In this step w makes a booking booked that was not: it gives the place, or writes
\* back the row as it was before somebody took the place away.
Books(w) ==
    /\ job'[w] # job[w]
    /\ \E b \in Booked' \ Booked :
        \/ job[w].at = "allocating" /\ b \in job[w].todo
        \/ job[w].at \in {"accept", "stow"} /\ b = Subject(w)

\* It takes two requests at once to book more places than there are, whichever
\* overlap: an allocation that counted its room has it until somebody else books,
\* and what exceeds the limit is an allocation that has lost its room, or a row
\* written back (allocate_places_now_and_send_emails, Booking.save).
OverbookingTakesTwo ==
    [][/\ \A w \in Workers : HasRoom(w) /\ ~HasRoom(w)' =>
            ~WithinLimit \/ \E v \in Workers \ {w} : Books(v)
       /\ WithinLimit /\ ~WithinLimit' =>
            \E w \in Workers : Books(w) /\ (job[w].at = "allocating" => ~HasRoom(w))]_vars

\* The places w has saved and is still to send mails about.
ToTell(w) == job[w].mails \ job[w].todo

\* A place that is given is owed a mail from then on, until the mail is sent or the
\* request cut short, whatever overlaps. One that is written back as booked is
\* confirmed in the same request, but for a withdrawal that began before somebody
\* else took the place away (allocate_places_and_notify, accept_place).
OwedUntilTold ==
    [][\A b \in Bookings :
        /\ b \in Booked' \ Booked =>
            \/ word'[b] = "confirmed" \/ \E w \in Workers : b \in ToTell(w)'
            \/ \E w \in Workers : job[w].at = "stow" /\ b = Subject(w) /\ Books(w)
        /\ \A w \in Workers : b \in ToTell(w) /\ b \notin ToTell(w)' =>
            word'[b] \in {"offer", "confirmed", "unsent"}]_vars

(* What comments, pages and mails say. *)

\* will_send_declined_notification: "We never send more than one declined".
OneDecline == \A b \in Bookings : declines[b] <= 1

\* accept_place: "The place has been confirmed"; places_confirmed_email.txt:
\* "The following places on a CCiW camp have been confirmed".
ConfirmedIsBooked == \A b \in Bookings : word[b] = "confirmed" => row[b].state = "booked"

=============================================================================
