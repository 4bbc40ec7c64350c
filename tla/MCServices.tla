------------------------------ MODULE MCServices ------------------------------
(***************************************************************************)
(* An instance for TLC of four services that share no variable: the        *)
(* request ledger, the PostgreSQL backend, the cleanup and the workers.    *)
(* The initial state chooses the service that runs; the variables of the   *)
(* others keep the values of one of their initial states.  Its behaviours  *)
(* are those of the four specifications, one after the other.              *)
(***************************************************************************)
EXTENDS RequestLedger, WorkerService, Sequences, FiniteSets, TLC

VARIABLE service

\* The PostgreSQL backend
CONSTANTS Earlier, MaxLosses
VARIABLES row, log, holder, callKind, expected, stage, view, session, reply, early, losses

Postgres == INSTANCE PostgresStore WITH kind <- callKind

\* The cleanup
CONSTANTS o1, o2, Op, Cleaner, Mission, Stray, Nothing
VARIABLES opKind, opTool, dir, at, request, dirs, registered, referenced, refs, owned,
          cleaning, orphans, seen, target, hit, late, undone

Cleanup == INSTANCE RuntimeCleanup WITH kind <- opKind, tool <- opTool, stage <- cleaning

postgresVars == <<row, log, holder, callKind, expected, stage, view, session, reply, early,
                  losses>>
cleanVars == <<opKind, opTool, dir, at, request, dirs, registered, referenced, refs, owned,
               cleaning, orphans, seen, target, hit, late, undone>>
serviceVars == <<service, vars, postgresVars, cleanVars, workerVars>>

-----------------------------------------------------------------------------

\* The operations, each of its tool, that meet in a cleanup; o1 and o2 are
\* interchangeable.
Pairs == {<<"task", "mission_execute", "live_session", "validation_run">>,
          <<"live_session", "mission_execute", "live_session", "mission_advance">>,
          <<"task", "mission_advance", "live_session", "mission_advance">>,
          <<"task", "mission_execute", "candidate", "mission_advance">>,
          <<"validation", "mission_advance", "candidate", "candidate_refresh">>,
          <<"validation", "validation_run", "resume", "worker_resume">>}

\* One initial state, up to symmetry, for each service that does not run.
LedgerRests ==
  /\ records = [r \in Request |->
       [status |-> "absent", owner |-> Nobody, payload |-> CHOOSE d \in Payload : TRUE]]
  /\ \E a \in [request : Request, payload : Payload, runtime : Runtime] :
       /\ a.payload = CHOOSE d \in Payload : TRUE
       /\ args = [c \in Call |-> a]
PostgresRests == row = Postgres!NoRow /\ callKind = [c \in Call |-> "bootstrap"]
CleanupRests ==
  \A o \in Op : opKind[o] = "live_session" /\ opTool[o] = "validation_run" /\ dir[o] = Stray

ServicesInit ==
  /\ service \in {"ledger", "postgres", "cleanup", "workers"}
  /\ Init /\ (service # "ledger" => LedgerRests)
  /\ Postgres!Init /\ (service # "postgres" => PostgresRests)
  /\ Cleanup!Init /\ (service # "cleanup" => CleanupRests)
  /\ service = "cleanup" => <<opKind[o1], opTool[o1], opKind[o2], opTool[o2]>> \in Pairs
  /\ Workers!Init

ServicesNext ==
  \/ /\ service = "ledger" /\ Next
     /\ UNCHANGED <<service, postgresVars, cleanVars, workerVars>>
  \/ /\ service = "postgres" /\ Postgres!Next
     /\ UNCHANGED <<service, vars, cleanVars, workerVars>>
  \/ /\ service = "cleanup" /\ Cleanup!Next
     /\ UNCHANGED <<service, vars, postgresVars, workerVars>>
  \/ /\ service = "workers" /\ Workers!Next
     /\ UNCHANGED <<service, vars, postgresVars, cleanVars>>

ServicesSpec == ServicesInit /\ [][ServicesNext]_serviceVars

Symmetry == Permutations(Call) \cup Permutations(Runtime)

-----------------------------------------------------------------------------
(* The properties, under their names in the modules they come from *)

\* The types of all variables.
ServicesTypeOK == TypeOK /\ Postgres!TypeOK /\ Cleanup!TypeOK /\ Workers!TypeOK

\* The audit in PostgreSQL tells of exactly the commits of the state, and "not
\* applied" is true of every COMMIT that was not in flight.
LogTellsTheTruth == Postgres!LogTellsTheTruth

\* The PostgreSQL backend implements RevisionedStore.
KeepsPromise == Postgres!KeepsPromise

\* A cleanup takes no directory from an operation of a tool it waits for, nor from
\* any other whose directory the state refers to, and removes no ref of a candidate
\* in the state.
RemovesOnlyOrphans == Cleanup!RemovesOnlyOrphans

\* A worker's result means that its group is gone, and two groups of one task
\* live together only after a lost supervisor.
GroupsAreContained == Workers!GroupsAreContained

\* Nothing is forked for a cancelled mission or task.
CancelledNeverForks == Workers!CancelledNeverForks
=============================================================================
