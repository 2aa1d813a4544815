-------------------------- MODULE MCTaskRunService --------------------------
(***************************************************************************)
(* The TLC instance of TaskRunService: one run and two clients.            *)
(***************************************************************************)
EXTENDS TaskRunService

CONSTANTS r1, c1, c2, none

MC_Runs    == {r1}
MC_Clients == {c1, c2}
=============================================================================
