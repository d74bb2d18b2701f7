# A formal model of the CCiW website

`cciw.co.uk` is the website of a charity that runs Christian camps. Parents book
places through it; the booking secretary allocates the places; payments are
credited; officers apply, are referenced and checked. This directory holds TLA+
models of that program, the TLC configurations that check them on small
instances, and proofs, checked by TLAPS, that hold for every instance.

Paths below are relative to the root of the repository. `tlc -config X.cfg M`
checks a configuration, `tlapm M.tla` checks a module of proofs.

## 1. The system

| Component | State | Operations | Talks to |
|---|---|---|---|
| Booking lifecycle (`bookings/models/bookings.py`, `views.py`, `expiry.py`) | the `Booking` row: camp, sex, `state`, `shelved`, `booking_expires_at` | add, edit, shelve, delete, apply, withdraw, accept, refuse; the `expire_bookings` job | queue, mail, approvals, balances |
| Booking queue (`bookings/models/queue.py`) | `BookingQueueEntry`: `is_active`, `enqueued_at`, `waiting_list_from_start`, when it was told; the action log | join, leave, rank, cut off, allocate, decline | bookings, camps, mail |
| Camps (`cciwmain/models.py`) | limits: total, boys, girls | places booked and left (read from the bookings); staff change limits | queue |
| Booking admin (`bookings/admin.py`, `officers/views/booking_secretary.py`) | none of its own | edit any row, change states, delete; the allocate button | all of the above |
| Problems and approvals (`bookings/models/problems.py`) | `BookingApproval` rows | blockers and warnings; approve, deny | lifecycle, balances, mail |
| Payments (`bookings/models/payments.py`, `hooks.py`) | source rows, `Payment`, `total_received` | record, delete, transfer, PayPal notification, the pass over unprocessed payments | accounts, mail |
| Accounts and balances (`bookings/models/accounts.py`, `prices.py`) | the account row | amount due, balance now and in full | bookings, payments |
| Login by email (`bookings/middleware.py`, `email.py`) | a signed cookie; signed tokens in mails | verify, expire, send again | accounts |
| Incoming mail (`mail/views.py`, `mail/lists.py`) | a lock file per message; tasks | notify, test, lock, fetch, forward, clean up | officers, roles |
| Officer applications (`officers/applications.py`, `views/applications.py`, `admin.py`) | `Application`: when it was saved, whether it is finished | start, continue, save, submit, tidy away | camps, DBS, references |
| References and DBS checks (`officers/`) | referees, references, checks and logs | request, nag, fill in, record checks | applications, mail |
| Data retention (`data_retention/`) | a policy; `erased_at` of every row | daily job, requests for erasure | all rows |
| Contact form, visitor book, documents, donations, public site | rows of forms | store and mail | — |

What is hard in this system:

* **Long protocols over few rows.** A booking is applied for, passed over, told,
  withdrawn, put back, offered, and lost again; what an allocation does to it
  depends on what happened on earlier rounds. Each rule is one line of code;
  whether they add up is not tested anywhere.
* **Resources at their limit.** Three limits per camp, shared by everybody, and
  places that are neither free nor taken while an offer is open.
* **Stale pages.** Forms are drawn long before they are sent, and most requests
  are not checked against what has happened since.
* **Interleaving.** `settings.py` does not set `ATOMIC_REQUESTS`: every
  statement commits by itself, and `save()` writes all columns of an object read
  earlier. Only payments are serialised, with `select_for_update`.
* **Jobs that may not run.** The job that takes places back is commented out of
  `config/crontab.template`.
* **Repeated delivery.** Notifications of incoming mail come more than once, and
  tasks that end early are given out again.
* **Dates instead of keys.** An application form belongs to a year by the day it
  was saved, and several places of the code draw that line.

What makes each part correct:

* *Queue*: no camp is overbooked; a place given is kept; nobody waits while there
  is a place for them; nobody is told twice, or loses a place unis a place for them; nobody is told twice, or loses a place untold; ranks are
  respected; an offer is resolved (which takes a job that is switched off, see 5).
* *Payments*: `total_received` is the sum of the payments that exist, each
  credited once, whatever processes run at once.
* *Ranking*: places in the queue are lost by leaving it, and not by what
  strangers do; a first place comes before a second one.
* *Approvals*: nothing is booked with a blocker standing, what is booked is what
  the page showed, and a change of the booking calls for what it needs.
* *Incoming mail*: a message is in one pair of hands at a time, goes to everybody
  it was sent to unless the code leaves them out, is handled in the end unless its
  task was cut short, and answers to it go to its sender.
* *Officers*: at most one form per officer and year, and nobody is kept from
  sending one; each referee of a finished application has at most one reference;
  a rejected officer stays rejected until a newer check.
* *Data retention*: what is in business use is not erased, the rest is in time.

`PROJECT.json` lists the components, and under `hazards` the places where the
code could go wrong in a way a test would hardly reach.

## 2. What is modelled

| Module | Models | State and actions |
|---|---|---|
| `Places` | `Camp.get_places_booked`, `get_places_left`, `places_are_available_for_booking`, the outcome of `add_queue_cutoffs` | operators only |
| `QueueCutoffs` | the loop of `add_queue_cutoffs` | the ranking, the position in it and the cutoff of each booking; an action is one iteration |
| `BookingQueue` | the life of a booking | one variable per column that matters; an action is one request, one job or one admin operation |
| `CampPlaces` | what an account holder may rely on | where each place stands: absent, draft, waiting, offered, held, released |
| `BookingRaces` | the same requests, cut at their database statements | the rows, the objects each worker holds, the mails; an action is one statement, or one mail |
| `PaymentLedger` | `hooks.py`, `credit_account`, `process_all_payments`, `receive_payment` | source rows, `Payment` rows, totals, and the open transaction of each worker; an action is one statement |
| `QueueRanking` | `rank_queue_bookings` and everything its key is made of | marks, order of joining and bookings of several camps; an action is one request; the ranking is an operator on the state |
| `Approvals` | `problems.py`, `update_approvals`, `auto_set_amount_due`, the state token, the admin form | the bookings of one account, their approval rows, the page somebody looks at; an action is one request |
| `IncomingMail` | `handle_mail_from_s3`, `handle_mail`, `forward_email_to_list`, the clean-up job | tasks, lock files with their inodes, what each worker is at; an action is one system call or one mail |
| `OfficerApplications` | `thisyears_applications`, `applications_for_camps`, the page and the form of an application | the day, the camps, the forms of one officer; an action is one request, or a new day |
| `MC...` (one each) | instances | — |
| `..._proofs` | theorems on `BookingQueue` (with `Promise`), `QueueCutoffs`, `QueueRanking`, `BookingRaces`, `PaymentLedger`, `IncomingMail`, `Approvals`, `OfficerApplications` | — |

### BookingQueue

`state`, `detail` (camp and sex), `shelved` and `expires` are columns of
`Booking`; a row that does not exist has state `absent`. `entry`, `waitingList`
and `declined` are the queue entry; `declinedLogs` counts its DECLINED log rows;
`told` remembers the mails sent about a place since it last joined the queue.
`maxPlaces` are the limits of each camp. Times are kept only as far as the code
compares them: a deadline is `none`, `pending` or `due`, and the year is before
booking opens, in the initial period, or after it.

The action names follow the code: `AddPlace`, `EditPlace`
(`add_or_edit_place`), `MoveToShelf`, `MoveToBasket`, `DeletePlace`, `BookNow`
(`_basket_list_bookings` with `add_basket_to_queue`), `Withdraw`
(`manage_queue_booking_modal`), `AcceptPlace`, `RejectPlace`, `ExpireBookings`,
`AllocatePlaces` (`booking_queue` with `allocate_places_and_notify`),
`AdminSave`, `AdminChangeState`, `AdminDelete`, `ChangeLimits`. The clock has
`DeadlinePasses`, `OpenForBooking` and `CloseInitialPeriod`.

Three things are left open on purpose. The ranking: `AllocatePlaces` takes *any*
set that some ranking could yield, `IsCutoff`, and `QueueCutoffs` shows that the
loop yields such a set from any ranking. The page: `Withdraw` needs an entry, as
the page does, and asks for nothing else, as the handler does, so it stands for
old pages too; `AcceptPlace`
and `RejectPlace` do look again, and so does `BookNow`, whose state token is
compared in the request. The blockers: whether `BookNow` is refused because of a
problem with the booking is not modelled; a refused request changes nothing.

`QueueSpec` is the queue left to itself; `Spec` adds staff who edit rows by hand,
which can break most of what the queue keeps up (`AdminSave` may overbook a camp,
by design). What a property says of which of the two is part of the property.

### CampPlaces

The abstract specification has two variables and knows nothing of entries,
shelves, waiting lists, mails or clocks. `BookingQueue` implements it with
`place <- Standing`, computed from `state`, `entry` and `expires`, and
`asked <- detail`. Its steps say what may become of a place: a place that is
held stays held, an offer is confirmed or released, awards fit the limits.

### BookingRaces

Two requests of the web server, or a request and the job, take turns at their
database statements. A request reads rows into objects (`job[w].rows`,
`job[w].entries`) and later writes an object back with every column it has, which
is what `save()` does without `update_fields`; if the row has gone in between,
`save()` inserts it again. The statements keep the order of the code: places
counted, queue read, bookings saved one by one, log rows, mails, entries marked.
A log row of an entry that is gone raises, and with it ends the request
(`CutShort`). `Die` ends a request of a `Mortal` worker anywhere.

Each worker has the kinds of request it may serve, `KindsOf`; a run says by them
what may overlap with what. There is one camp with one limit: limits by sex and
rankings are the concern of `BookingQueue`. A deadline is there or not, and the
expiry job may find any of them overdue.

`BookingQueue` is not refined by `BookingRaces`, and could not be: two of the
runs show what overlapping requests can do that requests one at a time cannot.

### PaymentLedger

A *source* is what somebody entered or PayPal reported: a manual payment, a
refund, a transfer, a debt written off, a notification. Its handler records one
`Payment` row, or two for a transfer, and runs a pass over all rows nobody has
credited (`OpenPass`, `LockPayment`, `CreditPayment`). `body` is what each row
says; it grows at the end and is never taken back, as ids are not. `recorded`
and `credited` are what is committed; `tx[w]` is what worker w has done and not
committed.

The admin site runs a request in one transaction (`atomic`), the PayPal view
does not: its row is committed before its pass opens. The database is modelled
as PostgreSQL at READ COMMITTED, since the code relies on it: a statement sees
what was committed when it began; a locked row is waited for (`WaitsFor`) and
then looked at again, so that a row credited meanwhile drops out; an account
row is locked by its UPDATE; of those who wait for each other one is aborted
(`AbortDeadlocked`). `Unlink` is the first half of a deletion, `SET source_id =
NULL`, which locks rows too.

Which notifications credit an account (business address, donations, unknown
accounts, statuses) is `CreditedStatuses`; the others leave no trace here. A row
gets its `created_at` and its id in one step, so passes lock by id.

### QueueRanking

`BookingQueue` and `QueueCutoffs` take any ranking; this module has the real one.
`RankingKey` is `ranking_key`, its parts are the functions of `queue.py` that
`add_rank_info` calls. What the key reads is in the state: marks by the booking
secretary, places on other camps, when a booking joined, earlier years (`past`,
fixed), siblings. `enqueued_at` is kept as far as the code compares it: the
entries of the initial period, which share one rank (`early`), and, for each of
those that came later, the ones it comes after (`sooner`). `Ranking` says who is
ranked better than whom; allocation books what the loop of `add_queue_cutoffs`
accepts in that order, which `Places!AcceptedInTurn` describes without a loop:
`QueueCutoffs` shows of the loop that it comes to that (`OutcomeIsCutoff`). Deadlines,
mails and declined campers are in `BookingQueue`. `Withdraw` may come from an old
page there and here. `CamperOf` and `FamilyOf` are the fuzzy ids of the code;
nothing is assumed about a child being booked once per camp, since the basket
warns of that and no more.

### Approvals

One account, one camp, a child per booking. `Needs` and `Blocked` work out what
`calculate_approvals_needed` and `get_booking_errors` do, from the details as they
are, and `approvals` has the rows that `update_approvals` keeps. The two differ
whenever an age limit changes, since rows are only updated when a booking is
saved; `limitsThen` remembers the limits of that moment. `page` is the basket as
somebody sees it, which is what the state token is made of; `BookNow` may come
at any time after. The admin form saves the booking, then the rows
(`RowsAfterSave`), in one transaction. `told` are the bookings whose holder has
been mailed that all is approved. Of the amounts, those that are cut, kept or
set by state and price type are told apart; discounts by date are not here.

### IncomingMail

`Notify` queues a task; `Take` is the task queue, which gives a task out again
if it raised or was killed (`Die`, `RaiseLastError`). A task goes through `Test`,
`Open`, `Lock`, `Fetch`, then for each address `PassOver` or `ForwardToList`, a
`Send` per message and `EndOfList`, and `Finish`. A lock belongs to an inode and
not to a name: `CleanUp` removes names, and a name that is made again has a new
inode. `Ages` is a day going by; it waits for tasks under way, because they are
killed after 90 seconds.

Not everybody on a list gets a message. `MessagesToSend` leaves out those of whom no
address is known (`NoAddress`), a group of which nobody is left, and a group for
which the message cannot be made into bytes again (`Garbled`: `to_bytes` raises
`UnicodeEncodeError`); a list of which nothing is left ends there, as if it had been
forwarded. None of this is reported. What the mailer refuses is: once per list, if it
took something else for it, to whom the mail object says it is from, which for the
second list is an address nobody reads (`orig`), and by a mail that may fail
unnoticed (`EndOfList`). `cutShort` has the messages that a task left unfinished when
it had made the file: the retry stops at the file. `slipped` counts the tasks that passed the test while
another task had the message: `settings.py` has one worker process, so that an
overlap needs a second cluster (during a deployment, say) or a worker that is
replaced; the model has it happen.

### OfficerApplications

Days are numbers, and a year is `Year` days. `ThisYear` is `get_thisyear`, and
`site` its cached value. `IsThisYears` and `CountsFor` are the two filters, one
asked by the page of the officer and the check of the form, the other by leaders
and the DBS officer. `Save` is the admin form with `save_model` and
`clear_out_old_unfinished`; `OfficerLeads` says whether the officer may edit
submitted forms. `SeasonBySeason` restricts the calendar to what staff do: camps
of a year are entered when those of the year before are over, and no year is
left out. `MCDocPerYear.cfg` is without it.

## 3. The runs

| Run | Instance | Shows |
|---|---|---|
| `cutoffs` | every ranking of every subset of four campers, boys or girls, limits 0..3 | the loop ends with a cutoff, the one that the ranking alone determines, and respects the ranking |
| `queue` | three campers of two accounts, one without an email address; two camps with two places each, one for a boy | the safety properties, and that `CampPlaces` is implemented, whether or not the expiry job ever runs |
| `staff` | two boys, one camp, no email addresses; staff set any state, shelf, deadline and entry, delete, and change the limits to (2,1,2), (1,2,2), (0,0,0) | allocation never makes an overbooked camp worse |
| `races` | two bookings for one place; one worker allocates and may be cut short anywhere, another serves everybody else: edits, shelves, deletions, applications, withdrawals, answers, the expiry job, cancellation by staff | the camp is not overbooked, only the right rows carry a deadline, nobody gets a place untold |
| `ledger` | two accounts, two workers of which one may die; a PayPal payment, a PayPal refund, a transfer that is entered and deleted; six rows | the totals are right, each payment is credited once and none is forgotten, transfers balance |
| `ranking` | a child booked for two camps, her brother and a stranger on the first of them; two places on each camp, one per sex; one edit by staff | there is one allocation at any time, and one that `BookingQueue` allows; first places come first, late comers below, strangers change nothing, a sibling counts until its place is given up |
| `approvals` | two children, one of 7 or 9 years and at an agreed or a second child's price, the other full price; ages 8-10 or 6-8, two price lists, two edits by staff | nothing unapproved joins, what joins is what was shown, decisions and mails are right, agreed amounts stay |
| `mail` | a mail to a closed address and two lists, for one of whose four members it cannot be encoded; one with a Reply-To to two lists, one of them without any address; two workers, two notifications each, one trouble | one handler at a time, once unless tasks overlap; everybody reached who is not left out or refused; answers reach the sender; handled in the end unless cut short |
| `applications` | two seasons of two camps after a season that is over, a year of eight days; three forms; the officer also leads | one form per year, no save makes a second one count, nobody shut out but by the finding below, nothing lost |
| `doc_confirmed_mail`, `races_expire`, `within_a_year` | as `queue`, `races` and `applications`, smaller | that a sentence in the repository is not true of the code; see 5 |

The other `.cfg` files can be run by hand. `MCRacesFree.cfg` (two workers that
both allocate, next to withdrawals, answers and staff; `OverbookingTakesTwo` and
`OwedUntilTold`) and `MCAppsFree.cfg`
(camps entered in any order, `NoSecondForm` and `ShutOutByFormsOnly`) pass: they try
what is proved without any condition on what overlaps or on the calendar. In the
others TLC finds the property violated; section 5 says what they show.

Why these bounds. A conflict over places takes two bookings and one place. A
third booking makes an account with two places in one batch meet another account,
and lets one camper hold a place while two compete. One account has an email
address and one has not, because the code tells the two apart in three places.
Two camps are needed for an edit that moves a waiting booking. With (2,1,2) the
boys' limit is met before the total, with girls it is the total. Two DECLINED
rows are enough to see a second one; the log has no other bound. The staff run
has boys only, and so one count per camp fewer, because staff may choose any row
contents; its two bookings are interchangeable (SYMMETRY), which is sound as it
checks no liveness.

`CHECK_DEADLOCK` is off for `cutoffs`, where the loop ends, for the runs of
`PaymentLedger`, where the sources are used up in the end, for `mail`, where no
notifications are left, for `applications`, where the calendar ends, and for
`approvals`, where places that were released cannot be touched once the edits are
used up.

An overlap needs two workers, and a stale object needs one row; to overbook takes
two bookings and one place. Two allocations at once do overbook a camp in the
model, as nothing in the code keeps them apart; since nothing in the repository
says otherwise, `races` has one allocation at a time. A place whose allocation
was cut short before the mails is marked as such, `unsent`: nobody is told of it,
and the code has no remedy. `MaxDeclined` bounds the "declined" mails; the two
bookings are interchangeable (SYMMETRY; no liveness is checked).

In `ledger`, two notifications overlap with each other and with a transfer; the
transfer runs two passes in one transaction, which is what it takes for two
requests to deadlock. Its deletion records two rows more, so six rows let
everything be recorded once; a request that was rolled back uses up ids, and then
`MaxPayment` cuts the run short. Three workers have been tried, with nothing new.

In `ranking`, a child on two camps makes one camp change the ranking of the
other; a brother on one of them makes a sibling that counts and a stranger is
somebody to be overtaken. One edit marks, unbooks, or moves one entry; two
places, one per sex, let somebody be passed over. In `approvals` a need must
come, go and come back, and limits and prices change under an open page, which
takes two edits; a discount needs a second child. (The discount of a third child
needs a third one and has a condition of the same shape; it is left to the
proofs.) In `mail`, an overlap needs two workers and two notifications, a header
that is wrong on the second list needs two lists, and one trouble is a kill, an
exception or a failed send anywhere; the safety properties were tried with two
and hold. In `applications`, a year of eight days has room for a form before,
between and after every date the code compares; a third form shows two that are
accepted next to a draft left over.

Types are checked by TLC in `queue` and `ranking`, and proved for these and the others.

Fairness is assumed in one run. `FairSpec` of `IncomingMail` has that of each worker's
steps: the cluster restarts its processes and they work while there are tasks.
Nothing is assumed of the mail service, and a send may fail. The queue has no
liveness property in a run: that an offer is resolved would need the expiry job,
and `config/crontab.template:18` has it commented out. `FairQueueSpec` (weak fairness of
`ExpireBookings` and of `DeadlinePasses`, the job being scheduled only if
`CronScheduled`) serves `MCOffersNoCron.cfg`, which shows what follows from that line.

Every property is paired with a change of one definition, of the kind a
programmer might make, under which TLC finds the property violated. These
definitions stand next to the ones they change (`LeftIgnoringOffers`,
`JudgeOffByOne`, ...) and no specification uses them.

## 4. The proofs

TLC knows three campers; the proofs are for any finite set of bookings, any
accounts, any camps and any limits. They assume the ASSUMEs of the modules only:
that the tables are finite, that the constants have their types.

* `TypeCorrect`, for `Spec`. It is inductive by itself.
* `NeverOverbooked`, for `QueueSpec`. `WithinLimits` is inductive with `TypeOK`:
  every step but `AllocatePlaces` leaves the booked set of a camp as it is or
  makes it smaller (`SmallerFits`), and edits need a place that is not booked. For
  `AllocatePlaces`, the counts of the new booked set are the sums of two disjoint
  sets (`AllocationCounts`), and `IsCutoff` bounds the second by what was left.
* `AllocationRespectsLimits`, for `Spec`, where `WithinLimits` is no invariant:
  the same counts, when what is left is zero because there was too much already.
* `DeadlinesExplained` and `DeadlinesAnnounced`. The first is inductive
  (`DeadlineOnlyFromWaitingList`). The second is not: an allocation puts a
  deadline on a waiting booking and sends the mail, but joining the queue again
  forgets old mails; that a booking which joins has no deadline comes from the
  first. `OffersInv` is the conjunction.
* `DeclinedAtMostOnce`, for `Spec`. One must know that a booking with a DECLINED
  row whose account has an address is marked as told: `DeclinedInv`.
* `ConfirmedPlacesStay`, `QueuePlacesStay`, `AllocationServes`: step by step.
* `QueueKeepsPromise`: `QueueSpec` implements `CampPlaces`. The inductive
  invariant `PromiseInv` adds to the types that the limits are the initial ones
  and that no camp is overbooked. Each action is mapped to one action of
  `CampPlaces` or to a stuttering step; `Withdraw` to `Leave` or to a stutter,
  as the page was up to date or not.
* `LoopYieldsCutoff` and `RankingIsRespected`, for any ranking without repetition.
  `PassInv` says that what is accepted lies before the current position, fits the
  limits, and that whoever was passed over met a limit that is used up; acceptance
  only grows, so that stays true. `JudgedInTurn` adds that everybody was judged by
  those accepted above, who do not change any more.
* `QueueRanking`, for any bookings, campers, families, camps, limits and lottery.
  `TypeCorrect` contains `LateInOrder`: those who came late stand in one line,
  whoever leaves, comes again or is moved by staff. From it `PositionsCompare`: two
  who wait for a camp have positions as their times of entry. The key is a
  function from 1..8 to integers; `PartDecides`, `SmallerTransitive`, `SmallerTotal`
  and `ComparedAlike` are what is needed of its order. `JoinsComeBelow` is then the
  fourth part of two keys; `StrangersKeepOrder` goes through the eight parts
  (`StrangersDoNotCount`, `QueueOfOthers`). `FirstPlacesComeFirst`: who was accepted
  had room, and whoever comes before has only fewer ahead of him (`AcceptedInOrder`).
  `RankingDecides`: the best of those that two allocations treat differently would
  have to be treated alike (`AllocationUnique`); a set of best bookings that is
  processed and cannot be made larger is everybody (`AllocationExists`); the worst
  of those accepted found a place, so all fit (`BestFirstIsCutoff`). So `Allocate`
  is never stuck, and books what `AllocatePlaces` of `BookingQueue` allows.
  `SiblingsKeepCounting`: without an edit, claims stay, and a booking goes on from
  waiting to booked to cancelled (`GoesOn`), so only what the sibling does counts.

* `TypeCorrect` and `OnlyBookedPlacesExpire` of `BookingRaces`, for any number of
  workers, each serving any requests, which die anywhere. That only booked rows
  carry a deadline is not inductive, because rows are overwritten by old objects.
  The invariant `Whole` says it of the rows and of the objects in every worker's
  hands; then each statement preserves it by itself. The admin action changes the
  state and leaves the deadline, which is why places that staff cancelled are
  excepted.
* `OnlyOverlapsOverbook` and `GivenPlacesAreOwedMails` of `BookingRaces`, for any workers
  that serve any requests at once. Two allocations do overbook, so that the limit is
  kept cannot be proved; what can is who must have interfered. An allocation that
  counted its room (`HasRoom`) loses it only in a step by which another worker books,
  and the limit is first broken by an allocation that has lost its room, or by a row
  written back. A place that is given is owed a mail from its statement on, and the
  debt ends with the mail or with the request. Both rest on `Kept`, which says what
  the objects in a worker's hands may be however stale they are: none of them would
  book a place that was not read as booked, and only an allocation owes mails. Then
  each statement is looked at by itself.
* `NoPaymentCreditedTwice`, `NoPaymentForgotten` and `PassesClearUp` of
  `PaymentLedger`, with `TypeCorrect`, for any accounts, sources and workers. The
  invariant `LedgerInv` says of each worker (`Coherent`) that it holds the lock
  of every row it has taken to credit, and that what its pass found, and what it
  recorded itself, is still to be locked, or taken, or credited by somebody; and
  that no two workers hold the same lock (`Exclusive`). `StepKeeps` says once what
  a step of one worker owes to the others; the lemma of each action then looks
  at its own transaction only.
* `TotalsAreRight` and `TransfersKeepBalance` of `PaymentLedger`, without further
  assumptions. `Books` is inductive with `LedgerInv`: totals are the sums of the rows
  credited, and each transaction accounts for the difference it will make when it
  commits (`Tally`), with both halves of a transfer in the same pass (`Halves`). That
  a sum grows by what is added to the set needs no induction: sum functions on a
  finite set agree, because a least set on which they do not could be made smaller.
* `IncomingMail`, for any workers, messages, lists and troubles. `OneHandler`:
  that the holder of a lock is the only handler needs the name to lead to the
  inode it locked; `FileInv` says that the file of a
  task under way is still found under its name and is not old, which is what `Ages`
  and `CleanUp` must respect.
  `RepeatsNeedOverlap`: `CountInv` counts, besides what began, the tasks that have
  passed the test and will begin if they get the lock. `AnswersReachSender`:
  the invariant `RepliesInv` follows the headers of the one mail object from list to list.
  `EverybodyReached`: `ReachedInv` says of a worker's job that every list is still to
  come, or each of its members is left out (`LeftOut`), or has a copy, or was refused
  one while another was sent; and of the list in hand that all others are in a group
  still to be sent to, or in one that was refused. It is true for any addresses that are missing and any
  message that cannot be encoded, as these are constants.
* `Approvals`, for any children, forms, ages and prices: `NeedsOnFile` is not
  inductive, as the ages may change back; the invariant (`Inv`, by `NeedsThen`) says it
  of the ages at the last save. `ToldTheTruth` needs that an approved row that is current
  stays so until the booking is saved. The three action properties follow from
  the definition of the token and of `Blocked`, action by action.
* `OfficerApplications`, for any calendar: types need that the last camp exists,
  since `ThisYear` chooses it; a finite set of integers has a greatest element by
  `LastCamp`. `NothingGetsLost` is proved for each way of saving.
* `NoSaveMakesASecondForm` and `OnlyFormsShutOut`, for any calendar, with camps entered
  in any order and with years left out. The first: whatever counts for the leaders of
  the year the site is on, `clean` finds too, so that a save that makes one form count
  leaves no other that does; two are brought together only by a camp that is entered
  or by a new year. The second: of the forms the page offers to continue the latest
  can be submitted, unless a form of the day on the boundary stands in its way, or two
  drafts of this year stand in the way of each other.

Model-checked only: `HandledUnlessCutShort`, a liveness property that needs fairness;
`WithinLimit` and `BookedWasTold` of `BookingRaces`, which are false when allocations
overlap and hold in `races` because one worker allocates; `OneApplicationPerYear` and
`CanStillApply`, which need the calendar of the `applications` run
(`SeasonBySeason`); and the divergences of section 5. Nothing in the code enforces what
these four depend on. Every other safety property that a passing run checks is stated
by a theorem. What a recursive definition
computes is nowhere proved by induction over data: sums, allocations and orders are
characterised, and shown to exist and to be unique where that is used.

## 5. Where the code and its words differ

Three are listed in `PROJECT.json` under `findings`, with the line of the code and
the line that says otherwise.

* `ConfirmedMailIsFinal`. The mail that confirms places lists those with a
  deadline too, if both kinds are in one batch.
* `ConfirmedIsBooked`. A place whose holder was told "The place has been
  confirmed, thank you!" is cancelled by the job, from a row it read before.
* `NobodyShutOut`. A form saved 365 days before the first camp, to the day, is
  "this year's" for the check that keeps an officer from sending a second one
  (`>=`, `officers/applications.py:38`), and not for the leaders (`>`, `:113`).

The others are configurations to be run by hand:

* `MCOffersNoCron.cfg` (`OfferResolved`): "If you do nothing, the place will expire"
  (`expiring_place_allocated_email.txt`). With the crontab as it is it does not: the
  job is commented out (`config/crontab.template:18`), and the offer keeps the place
  from everybody else.
* `MCDocWarning.cfg`: the basket warns of the waiting list when it is larger than
  what is left; each booking by itself then joins the ordinary queue.
* `MCRacesDecline.cfg`: "We never send more than one declined", but a withdrawal
  writes back an entry it read before an allocation marked it as told.
* `MCLedgerDeleted.cfg`: two requests that delete the same payment at once each
  credit its negative amount, as `post_delete` is sent to both.
* `MCDocWithdraw.cfg`: "you will need to first withdraw it then re-book"
  (`manage_queue_booking_modal.html:59-60`); the edit form changes a waiting
  booking without that, and its approvals and amount with it.
* `MCDocLowestPriority.cfg`: other applications of a camper who has a place "will
  be treated as lowest priority" (`booking_process_info.html:36-37`); marks of the
  booking secretary come first in the key.
* `MCDocOriginalGroup.cfg`: late bookings "will be added below the original group"
  (`booking_process_info.html:78-81`); those with a mark are not, nor are those
  without a place elsewhere below those of the group with one.
* `MCDocOwnSibling.cfg`: a second booking of the same child counts as a sibling.
* `MCDocPerYear.cfg`: after a year without camps two forms of an officer may be
  valid for one year.
* `MCDocUnfinished.cfg`: "It should now only be possible for there to be one
  unfinished application" (`officers/views/applications.py:58-60`).

Seen on the way, and without a run. A withdrawal from an old page makes the entry
of a booked place inactive, and staff may book without one, although
`find_siblings` says that those booked have an entry. Accounts without an address
get a DECLINED row at each allocation. An edit in flight during an allocation sets
the booking back. A booking that was denied and is approved later is not mailed
about. The amount button of the admin form never gets an amount, as
`get_booking_expected_amount_due` reads a price type as a number. A task that is
killed after it made its lock file loses the mail: every later delivery stops at
the file (`cutShort`). If all sends to a list fail, the lists after it get nothing,
and the retry stops at the file too. Members of a list without an address, and those
for whom the message cannot be encoded, get nothing, and neither they nor the sender
are told (`mail/lists.py:402-417`). The report of failed copies goes to `noreply@` for
the second list of a mail, as From has been overwritten. Of one
mail to two lists, the second copy has the headers of the first list too. Two browser
windows can submit two forms of one officer. `POST` on the queue page allocates
along the ranking of the moment, not the one that was shown. `hazards` has the
lines.

## 6. The plan

In this order, the most important first:

1. **Balances** — early-bird discount, balance now and in full by date, as
   functions; saving account details next to `PaymentLedger`.
2. **References and DBS checks** — two leaders who create one reference at once, a
   referee row saved from an old copy, a log that is undone by one of two DBS
   officers, and the alerts worked out from the logs.
3. **`DataRetention`** — what is in use, what is old enough, the daily job and
   requests. Theorem: nothing in business use is erased.
4. **`BookingLogin`** — tokens, cookies and when each ends.
5. Proofs still wanted: an abstract `Ledger` that `PaymentLedger` implements, and
   `BookingQueue` with the ranking of `QueueRanking` inside.

Not modelled, and not planned: reports, statistics and exports (they read only),
the contact form, the visitor book, documents and the public site (forms without
a protocol), invitations, roles and staff accounts (lists edited by hand;
the models take what they allow as given), deployment, and what runs in the
browser: the site's own scripts are small form helpers, and everything else under
`officers/static/js`, by far the most JavaScript in the repository, is the vendored
chart library highcharts.
