------------------------ MODULE OfficerApplications ------------------------
(***************************************************************************)
(* The application forms of one officer, who is invited to every camp.      *)
(* Nothing ties a form to a camp but dates: the site decides by them what   *)
(* is "this year", whether the officer has applied, and which forms the     *)
(* leaders of a camp get to see. Days are numbers; camps become known one   *)
(* by one.                                                                 *)
(***************************************************************************)
EXTENDS Integers, FiniteSets, FiniteSetsExt

CONSTANTS
    Camps,          \* camps that are held, [year, start, end]
    KnownCamps,     \* those that staff have entered on the first day
    Year,           \* days in a year: 365
    Grace,          \* days for which a year that is over is still this year: 30
    FirstDay, LastDay,
    MaxForms,       \* bound: forms the officer ever starts
    OfficerLeads,   \* may the officer manage the forms of others, and their own?
    SeasonBySeason  \* are camps entered only when those of the year before are over,
                    \* and no year left out?

ASSUME OfficerApplicationsAssumption ==
    /\ IsFiniteSet(Camps) /\ KnownCamps \subseteq Camps /\ KnownCamps # {}
    /\ \A c \in Camps : {c.year, c.start, c.end} \subseteq Int /\ c.start <= c.end
    /\ {Year, Grace, MaxForms} \subseteq Nat /\ {FirstDay, LastDay} \subseteq Int /\ FirstDay <= LastDay
    /\ {OfficerLeads, SeasonBySeason} \subseteq BOOLEAN

VARIABLES
    day,
    camps,      \* the rows of Camp
    site,       \* the year the website is on, kept for up to an hour
    apps        \* the rows of Application: by id, or NoForm

vars == <<day, camps, site, apps>>

Forms == 1..MaxForms
Days == FirstDay..LastDay
Never == FirstDay - 1           \* saved_on is NULL
NoForm == [saved |-> Never - 1, finished |-> FALSE]
Form == [saved : Days, finished : BOOLEAN] \cup [saved : {Never}, finished : {FALSE}]

Exists(a) == apps[a] # NoForm
Existing == {a \in Forms : Exists(a)}
Saved(a) == apps[a].saved \in Days
Finished(a) == apps[a].finished

-----------------------------------------------------------------------------
(* Years and camps.                                                        *)

CampsOf(y) == {c \in camps : c.year = y}
FirstStart(cs) == Min({c.start : c \in cs})
LastEnd(cs) == Max({c.end : c \in cs})

\* get_thisyear
ThisYear ==
    LET last == CHOOSE c \in camps : c.end = LastEnd(camps) IN
    IF last.end + Grace <= day THEN last.year + 1 ELSE last.year

FutureCamps == {c \in camps : c.start >= day}

\* Since when does a form count for the camps cs of a year, going by the last camp
\* of the year before?
AfterSeason(s, past) == past # {} => s > LastEnd(past)

\* (A change of IsThisYears: it is enough to come after the season that is over.)
IsThisYearsAfterSeason(a) ==
    /\ Saved(a)
    /\ AfterSeason(apps[a].saved, IF CampsOf(site) # {} THEN CampsOf(site - 1) ELSE camps)

\* thisyears_applications
IsThisYears(a) ==
    /\ Saved(a)
    /\ IF CampsOf(site) # {}
       THEN /\ apps[a].saved >= FirstStart(CampsOf(site)) - Year
            /\ AfterSeason(apps[a].saved, CampsOf(site - 1))
       ELSE AfterSeason(apps[a].saved, camps)

\* applications_for_camps, for all camps of a year: what leaders and the DBS
\* officer work from.
CountsFor(a, y) ==
    /\ Saved(a) /\ Finished(a)
    /\ \E c \in CampsOf(y) : apps[a].saved <= c.start
    /\ apps[a].saved > FirstStart(CampsOf(y)) - Year
    /\ AfterSeason(apps[a].saved, CampsOf(y - 1))

-----------------------------------------------------------------------------

TypeOK ==
    /\ day \in Days
    /\ camps \subseteq Camps /\ camps # {}
    /\ site \in Int
    /\ apps \in [Forms -> Form \cup {NoForm}]

Init ==
    /\ day = FirstDay
    /\ camps = KnownCamps
    /\ site = ThisYear
    /\ apps = [a \in Forms |-> NoForm]

Tomorrow ==
    /\ day < LastDay
    /\ day' = day + 1
    /\ UNCHANGED <<camps, site, apps>>

\* Staff add a camp that is still to come.
AddCamp(c) ==
    /\ c \notin camps
    /\ c.start >= day
    /\ SeasonBySeason => /\ CampsOf(c.year - 1) # {}
                         /\ \A d \in Camps : d.year < c.year => d.end < day
    /\ camps' = camps \cup {c}
    /\ UNCHANGED <<day, site, apps>>

\* A request finds the year older than an hour.
RenewYear ==
    /\ site # ThisYear
    /\ site' = ThisYear
    /\ UNCHANGED <<day, camps, apps>>

-----------------------------------------------------------------------------
(* The officer's page.                                                     *)

HasThisYears == \E a \in Existing : IsThisYears(a)
HasCompleted == \E a \in Existing : IsThisYears(a) /\ Finished(a)

\* The forms that "Continue" may open: the unfinished one that was saved last.
Unfinished == {a \in Existing : ~Finished(a) /\ Saved(a)}
ToContinue == {a \in Unfinished : \A b \in Unfinished : apps[b].saved <= apps[a].saved}

\* applications, "new": a copy of the last form, or an empty one. Its answers are
\* not modelled, and it has not been saved.
New ==
    /\ ~HasThisYears
    /\ \E a \in Forms :
        /\ ~Exists(a) /\ (\A b \in Forms : b < a => Exists(b))
        /\ apps' = [apps EXCEPT ![a] = [saved |-> Never, finished |-> FALSE]]
    /\ UNCHANGED <<day, camps, site>>

-----------------------------------------------------------------------------
(* The form.                                                               *)

\* (A change of Accepts: the other forms are not looked at.)
AcceptsAny(a, leader) ==
    IF Finished(a) THEN leader ELSE FutureCamps # {}

\* ApplicationAdminModelForm.clean: a submitted form can be edited by those who
\* manage forms only; any other, if there is no other for this year.
Accepts(a, leader) ==
    IF Finished(a) THEN leader
    ELSE FutureCamps # {} /\ ~\E b \in Existing \ {a} : IsThisYears(b)

\* (A change of ClearedOut: all that is not finished.)
ClearedOutAll(a, s) == {b \in Existing \ {a} : ~Finished(b)}

\* clear_out_old_unfinished, for the form a that was saved on s.
ClearedOut(a, s) ==
    {b \in Existing \ {a} : ~Finished(b) /\ (~Saved(b) \/ apps[b].saved < s)}

\* save, save_model: the date is today, but for a form that had been submitted.
\* The officer's own finished form clears out what is left over.
Save(a, finished, leader, own) ==
    LET s == IF Finished(a) THEN apps[a].saved ELSE day
        cleared == IF finished /\ own THEN ClearedOut(a, s) ELSE {}
    IN
    /\ Exists(a)
    /\ Accepts(a, leader)
    /\ apps' = [b \in Forms |-> IF b = a THEN [saved |-> s, finished |-> finished]
                                ELSE IF b \in cleared THEN NoForm ELSE apps[b]]
    /\ UNCHANGED <<day, camps, site>>

OfficerSaves(a, finished) == Save(a, finished, OfficerLeads, TRUE)
LeaderSaves(a, finished) == Save(a, finished, TRUE, FALSE)

-----------------------------------------------------------------------------

Next ==
    \/ Tomorrow \/ RenewYear \/ New
    \/ \E c \in Camps : AddCamp(c)
    \/ \E a \in Forms, finished \in BOOLEAN : OfficerSaves(a, finished) \/ LeaderSaves(a, finished)

Spec == Init /\ [][Next]_vars

-----------------------------------------------------------------------------
(* Properties.                                                             *)

\* Leaders, and the DBS officer whose table has room for one form, find at most one
\* form of an officer for the camps of a year, although a form is for a year only
\* by its date (applications_for_camps, get_dbs_requirement_data).
OneApplicationPerYear ==
    \A y \in {c.year : c \in camps} : Cardinality({a \in Existing : CountsFor(a, y)}) <= 1

\* Neither the officer nor a leader makes a second form count for the camps of the
\* year the site is on:
\* whatever leaders look for, clean looks for as well. What may bring two together
\* is that camps are entered, or another year begins (clean, applications_for_camps).
NoSecondForm ==
    [][UNCHANGED <<camps, site>> => \A a, b \in Forms :
        a # b /\ CountsFor(a, site)' /\ CountsFor(b, site)' =>
            CountsFor(a, site) /\ CountsFor(b, site)]_vars

\* Forms of the officer reach no leader of the camps to come, nor does the page offer
\* one that could be submitted today.
ShutOut ==
    LET y == ThisYear IN
    /\ site = y /\ CampsOf(y) \cap FutureCamps # {}
    /\ \A a \in Existing : ~CountsFor(a, y)
    /\ HasThisYears
    /\ HasCompleted \/ ~\E a \in ToContinue : Accepts(a, FALSE)

\* An officer whose form no leader can see is not shut out, but by a form that was
\* saved a year before the first camp to the day (applications, clean).
CanStillApply ==
    ShutOut => \E a \in Existing : apps[a].saved = FirstStart(CampsOf(site)) - Year

\* With camps entered in whichever order there is one more way to be shut out: two
\* drafts for this year, each in the way of the other.
ShutOutByFormsOnly ==
    ShutOut =>
        \/ \E a \in Existing : apps[a].saved = FirstStart(CampsOf(site)) - Year
        \/ \E a, b \in Existing : a # b /\ ~Finished(a) /\ ~Finished(b) /\ IsThisYears(a) /\ IsThisYears(b)

\* A form is for a year if it was saved "within 12 months of the start date of the
\* camp/first camp that year", for those who look for it as for those who ask for it
\* (thisyears_applications, applications_for_camps).
NobodyShutOut == ~ShutOut

\* Nothing of worth is lost: a submitted form stays what and when it was, unless
\* somebody who manages forms opens it again, and a draft is thrown away only for
\* a form that was saved after it (clean, clear_out_old_unfinished).
NothingLost ==
    [][\A a \in Existing : Saved(a) /\ apps'[a] # apps[a] =>
        IF Finished(a)
        THEN apps'[a].saved = apps[a].saved
             /\ \E f \in BOOLEAN : LeaderSaves(a, f) \/ (OfficerLeads /\ OfficerSaves(a, f))
        ELSE \/ apps'[a].saved = day
             \/ \E b \in Forms :
                    apps'[b] # NoForm /\ apps'[b].finished /\ apps'[b].saved > apps[a].saved]_vars

\* "It should now only be possible for there to be one unfinished application"
\* (applications).
OneUnfinished == Cardinality(Unfinished) <= 1

=============================================================================
