--------------------------- MODULE MCCronService ---------------------------
(***************************************************************************)
(* The TLC instance of CronService: one job, one user, two executions.     *)
(***************************************************************************)
EXTENDS CronService

CONSTANTS j1, c1, t1, t2

\* Once and never again, also after a crash; every slot unless busy; every slot up to
\* an end, whatever is busy.
Every  == [kind |-> "every", time |-> 1, maxRuns |-> 0, endsAt |-> None, overlap |-> "skip"]
Once   == [Every EXCEPT !.kind = "at", !.maxRuns = 1]
Fresh  == [Every EXCEPT !.endsAt = 2, !.overlap = "replace"]

MC_Jobs      == {j1}
MC_Clients   == {c1}
MC_Tokens    == {t1, t2}
MC_Schedules == {Every, Once, Fresh}
=============================================================================
