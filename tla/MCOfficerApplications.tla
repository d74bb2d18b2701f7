------------------------ MODULE MCOfficerApplications ------------------------
(***************************************************************************)
(* Instances of OfficerApplications: two seasons of two camps, a year of    *)
(* eight days, after a season that is over. The second season is later in   *)
(* its year than the first.                                                *)
(***************************************************************************)
EXTENDS OfficerApplications, TLC

Camp(y, s, e) == [year |-> y, start |-> s, end |-> e]

Past == Camp(0, -2, -1)
TwoSeasons == {Past, Camp(1, 6, 6), Camp(1, 7, 8), Camp(2, 18, 18), Camp(2, 19, 20)}
OldSeason == {Past}

=============================================================================
