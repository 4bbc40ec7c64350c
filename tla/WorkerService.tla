---------------------------- MODULE WorkerService ----------------------------
(***************************************************************************)
(* The workers as a service of an instance that composes several: the      *)
(* variables of WorkerProcess, some under names that no other service has. *)
(***************************************************************************)
EXTENDS Naturals

CONSTANTS Runs, Task, MaxDeaths
VARIABLES task, alive, runPc, runTold, fenced, asked, known, killTimer, supervisor, inbox,
          forceTimer, leader, rest, escaped, deaths

Workers == INSTANCE WorkerProcess WITH
  pc <- runPc, told <- runTold, losses <- deaths, MaxLosses <- MaxDeaths

workerVars == <<task, alive, runPc, runTold, fenced, asked, known, killTimer, supervisor, inbox,
                forceTimer, leader, rest, escaped, deaths>>
=============================================================================
