---------------------------- MODULE MCScheduler ----------------------------
(***************************************************************************)
(* Specifications over parts of the scheduler's next-state relation, each   *)
(* one a class of programs, for TLC.                                        *)
(***************************************************************************)
EXTENDS Scheduler

\* Programs wait, sleep and create valid processes; every process ends by exit, and
\* the timer runs.
OrderlySpec ==
  /\ Init
  /\ [][OrderlyStep \/ ForegroundStep \/ SleepStep]_vars
  /\ Timer

\* Processes also kill themselves and each other.
KillSpec == Init /\ [][OrderlyStep \/ KillStep]_vars
=============================================================================
