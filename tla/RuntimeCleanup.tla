---------------------------- MODULE RuntimeCleanup ----------------------------
(***************************************************************************)
(* runtime_cleanup(apply: true) of runtime-service.mjs beside the          *)
(* operations whose temporary resources it looks for: worktrees of tasks,  *)
(* of validations and of live sessions, the worktree of a mission, and the *)
(* refs of candidates.  A cleanup reads the state, lists directories and   *)
(* refs, and then takes one orphan after the other: it reads the state     *)
(* again, and removes the orphan in a later step.                          *)
(*                                                                         *)
(* One mission of one project.  An operation is one thing that a request   *)
(* of a mutating tool does with these resources: a request that does       *)
(* several, as mission_advance, is several operations, each begun with it. *)
(* One that crashes leaves its request unknown.  The sessions and cleanups *)
(* of one runtime are ordered by releaseAll, so the sessions here are      *)
(* those of other runtimes.                                                *)
(***************************************************************************)
EXTENDS Naturals, FiniteSets

CONSTANTS
  Op,         \* operations
  Cleaner,    \* cleanups
  Mission,    \* the directory of the mission's worktree
  Stray,      \* a directory, and a ref, that an earlier runtime left
  Nothing     \* neither a directory nor a ref

VARIABLES
  kind,        \* what each operation does: a kind of Does
  tool,        \* the tool whose request it is
  dir,         \* the directory it works in
  at,          \* where each operation is
  request,     \* the status of its request in the ledger
  dirs,        \* the directories that exist
  registered,  \* those git has registered as worktrees
  referenced,  \* those the state refers to: open mission, dispatches, leases
  refs,        \* the candidate refs that exist, named for their operation
  owned,       \* the refs of the candidates in the state
  stage,       \* where each cleanup is
  orphans,     \* the directories, then the refs, it still has to look at
  seen,        \* the owners of refs in the state it has read first
  target,      \* the orphan it is about to remove
  hit,         \* history: operations a cleanup took a directory from that it keeps
  late,        \* history: operations that came when their directory was about to go
  undone       \* history: candidates whose creation failed after its commit

world == <<dirs, registered, referenced, refs, owned>>
opVars == <<kind, tool, dir, at, request>>
cleanVars == <<stage, orphans, seen, target>>
history == <<hit, late, undone>>
cleanupVars == <<opVars, world, cleanVars, history>>

\* WORKTREE_MUTATING_OPERATIONS, CANDIDATE_PRODUCING_OPERATIONS.
Fenced == {"mission_execute", "validation_run"}
Producing == {"candidate_refresh", "mission_advance"}

\* The tools that work on a task in a worktree, that validate in a worktree of
\* their own or in a live session, that make a candidate, and that integrate in
\* the worktree of the mission (task_result_commit does what worker_resume
\* does here).  Executions end with the validations of runtime feedback.
Executing == {"mission_execute", "mission_advance"}
Validating == Executing \cup {"validation_run", "worker_resume"}
Does == [task |-> Executing, validation |-> Validating, live_session |-> Validating,
         candidate |-> Producing, resume |-> {"worker_resume"}]

\* Directory names of validations are fresh; those of tasks and of live
\* sessions come back.  Only sessions meet in one directory: the executions of
\* a mission have a lease.
Init ==
  /\ kind \in [Op -> DOMAIN Does]
  /\ tool \in [Op -> Validating \cup Producing]
  /\ \A o \in Op : tool[o] \in Does[kind[o]]
  /\ dir \in [Op -> Op \cup {Mission, Stray}]
  /\ \A o \in Op :
       dir[o] \in CASE kind[o] \in {"task", "live_session"} -> {o, Stray}
                    [] kind[o] = "resume" -> {Mission}
                    [] OTHER -> {o}
  /\ \A o, p \in Op :
       o # p /\ dir[o] = Stray /\ dir[p] = Stray => {kind[o], kind[p]} = {"live_session"}
  /\ at = [o \in Op |-> "idle"]
  /\ request = [o \in Op |-> "none"]
  /\ dirs = {Mission, Stray} /\ registered = dirs /\ referenced = {Mission}
  /\ refs = {Stray} /\ owned = {}
  /\ stage = [k \in Cleaner |-> "idle"]
  /\ orphans = [k \in Cleaner |-> {}]
  /\ seen = [k \in Cleaner |-> {}]
  /\ target = [k \in Cleaner |-> Nothing]
  /\ hit = {} /\ late = {} /\ undone = {}

Goto(o, s) == at' = [at EXCEPT ![o] = s]
Ends(o, status) == Goto(o, "done") /\ request' = [request EXCEPT ![o] = status]

-----------------------------------------------------------------------------
(* The operations *)

AboutToGo(d) == \E k \in Cleaner : stage[k] = "remove" /\ target[k] = d

Arrives(o) == late' = IF AboutToGo(dir[o]) THEN late \cup {o} ELSE late

\* The request is recorded as started and the handler entered, which refuses
\* a mission that is closed; a validation_run does not.
Begin(o) ==
  /\ at[o] = "idle"
  /\ tool[o] = "validation_run" \/ Mission \in referenced
  /\ request' = [request EXCEPT ![o] = "started"]
  /\ \/ kind[o] \in {"task", "validation"} /\ Goto(o, "create")
     \/ kind[o] = "live_session" /\ Goto(o, "reserve")
     \/ kind[o] = "candidate" /\ Goto(o, "ref")
     \/ kind[o] = "resume" /\ Goto(o, "working")
  /\ Arrives(o)
  /\ UNCHANGED <<kind, tool, dir, world, cleanVars, hit, undone>>

Sessions == {o \in Op : kind[o] = "live_session"}

\* The lease of a session whose process is gone.
DeadLease(d) == \E o \in Sessions : dir[o] = d /\ at[o] = "dead"
Leased == {"create", "reclaim", "working", "idling", "undo", "unlease"}
LiveLease(d) == \E o \in Sessions : dir[o] = d /\ at[o] \in Leased

\* #reserveLease: an error if another runtime has the lease; dead leases are
\* reaped, and a lease refers to the directory before it exists.
Reserve(o) ==
  /\ at[o] = "reserve"
  /\ IF LiveLease(dir[o]) THEN Ends(o, "failed") /\ UNCHANGED <<world, late>>
     ELSE /\ referenced' = {d \in referenced : DeadLease(d) => LiveLease(d)} \cup {dir[o]}
          /\ Goto(o, IF dir[o] \in referenced THEN "reclaim" ELSE "create")
          /\ Arrives(o)
          /\ UNCHANGED <<request, dirs, registered, refs, owned>>
  /\ UNCHANGED <<kind, tool, dir, cleanVars, hit, undone>>

\* createTaskWorktree, worktree add: what has the name is removed first, and
\* git refuses a name that it has registered for a directory that is missing.
\* #startSession prunes before it, and takes a directory that is there only if
\* it has reaped its lease (LIVE_VALIDATION_WORKTREE_IN_USE).
Create(o) ==
  /\ at[o] \in {"create", "reclaim"}
  /\ IF at[o] = "create" /\ kind[o] = "live_session" /\ dir[o] \in dirs
     THEN Goto(o, "unlease") /\ UNCHANGED world
     ELSE IF dir[o] \in registered \ dirs /\ kind[o] # "live_session"
     THEN Goto(o, "undo") /\ UNCHANGED world
     ELSE /\ dirs' = dirs \cup {dir[o]}
          /\ registered' = registered \cup {dir[o]}
          /\ Goto(o, IF kind[o] = "task" THEN "dispatch" ELSE "working")
          /\ UNCHANGED <<referenced, refs, owned>>
  /\ UNCHANGED <<kind, tool, dir, request, cleanVars, history>>

\* task_dispatched, or an error before it that removes the worktree.
Dispatch(o) ==
  /\ at[o] = "dispatch"
  /\ \/ referenced' = referenced \cup {dir[o]} /\ Goto(o, "working") /\ Arrives(o)
     \/ Goto(o, "undo") /\ UNCHANGED <<referenced, late>>
  /\ UNCHANGED <<kind, tool, dir, request, dirs, registered, refs, owned, cleanVars, hit, undone>>

\* The task is done, which ends the reference to its worktree; a validation
\* has its result; a session goes on after its request, if its service starts.
Work(o) ==
  /\ at[o] = "working"
  /\ CASE kind[o] = "task" ->
            referenced' = referenced \ {dir[o]} /\ Goto(o, "remove") /\ UNCHANGED request
       [] kind[o] = "resume" -> Ends(o, "completed") /\ UNCHANGED referenced
       [] kind[o] = "live_session" ->
            /\ \/ Goto(o, "idling") /\ request' = [request EXCEPT ![o] = "completed"]
               \/ Goto(o, "undo") /\ UNCHANGED request
            /\ UNCHANGED referenced
       [] OTHER -> Goto(o, "remove") /\ UNCHANGED <<referenced, request>>
  /\ UNCHANGED <<kind, tool, dir, dirs, registered, refs, owned, cleanVars, history>>

\* removeTaskWorktree and the like; a session gives its lease back after it,
\* when it is idle for too long.
RemoveOwn(o) ==
  /\ at[o] \in {"remove", "undo", "idling"}
  /\ dirs' = dirs \ {dir[o]}
  /\ registered' = registered \ {dir[o]}
  /\ IF kind[o] = "live_session" THEN Goto(o, "unlease") /\ UNCHANGED request
     ELSE Ends(o, IF at[o] = "remove" THEN "completed" ELSE "failed")
  /\ UNCHANGED <<kind, tool, dir, referenced, refs, owned, cleanVars, history>>

\* #releaseLease; a session that has not started fails its request.
Unlease(o) ==
  /\ at[o] = "unlease"
  /\ referenced' = referenced \ {dir[o]}
  /\ Goto(o, "done")
  /\ request' = [request EXCEPT ![o] = IF @ = "started" THEN "failed" ELSE @]
  /\ UNCHANGED <<kind, tool, dir, dirs, registered, refs, owned, cleanVars, history>>

\* createOrRefresh: the ref is made before the transaction that records its
\* candidate.
CreateRef(o) ==
  /\ at[o] = "ref"
  /\ refs' = refs \cup {o}
  /\ Goto(o, "record")
  /\ UNCHANGED <<kind, tool, dir, request, dirs, registered, referenced, owned, cleanVars, history>>

\* candidate_created commits, throws without a commit or after it, or has an
\* unknown outcome; an ordinary error removes the ref again.
RecordCandidate(o) ==
  /\ at[o] = "record"
  /\ \/ owned' = owned \cup {o} /\ Ends(o, "completed") /\ UNCHANGED <<refs, undone>>
     \/ refs' = refs \ {o} /\ Ends(o, "failed") /\ UNCHANGED <<owned, undone>>
     \/ /\ owned' = owned \cup {o} /\ refs' = refs \ {o}
        /\ undone' = undone \cup {o} /\ Ends(o, "failed")
     \/ owned' \in {owned, owned \cup {o}} /\ Ends(o, "unknown") /\ UNCHANGED <<refs, undone>>
  /\ UNCHANGED <<kind, tool, dir, dirs, registered, referenced, cleanVars, hit, late>>

\* The runtime of an operation dies; the next start of a runtime takes its
\* request for one of unknown outcome.
Crash(o) ==
  /\ at[o] \notin {"idle", "done", "dead"}
  /\ Goto(o, "dead")
  /\ request' = [request EXCEPT ![o] = IF @ = "started" THEN "unknown" ELSE @]
  /\ UNCHANGED <<kind, tool, dir, world, cleanVars, history>>

\* The mission is cancelled or completed: nothing refers to its worktree.
CloseMission ==
  /\ Mission \in referenced
  /\ referenced' = referenced \ {Mission}
  /\ UNCHANGED <<opVars, dirs, registered, refs, owned, cleanVars, history>>

-----------------------------------------------------------------------------
(* The cleanup *)

\* requestBlockers
Blocked(tools) ==
  \E o \in Op : tool[o] \in tools /\ request[o] \in {"started", "unknown"}

CGoto(k, s) == stage' = [stage EXCEPT ![k] = s]

\* The state is read, then the directories are listed: what it refers to may
\* have changed in between.
ReadState(k) ==
  /\ stage[k] = "idle"
  /\ seen' = [seen EXCEPT ![k] = owned]
  /\ orphans' = [orphans EXCEPT ![k] = referenced]
  /\ CGoto(k, IF Blocked(Fenced) THEN "blocked" ELSE "list")
  /\ UNCHANGED <<opVars, world, target, history>>

\* Nothing but the listing is done for worktrees; the refs come next.
SkipWorktrees(k) ==
  /\ stage[k] = "blocked"
  /\ CGoto(k, "refs")
  /\ UNCHANGED <<opVars, world, orphans, seen, target, history>>

ListDirectories(k) ==
  /\ stage[k] = "list"
  /\ orphans' = [orphans EXCEPT ![k] = dirs \ @]
  /\ CGoto(k, "check")
  /\ UNCHANGED <<opVars, world, seen, target, history>>

\* The state is read again before each removal.
CheckDirectory(k) ==
  /\ stage[k] = "check"
  /\ \E d \in orphans[k] :
       /\ orphans' = [orphans EXCEPT ![k] = @ \ {d}]
       /\ IF Blocked(Fenced) THEN CGoto(k, "stopped") /\ UNCHANGED target
          ELSE IF d \in referenced THEN UNCHANGED <<stage, target>>
          ELSE CGoto(k, "remove") /\ target' = [target EXCEPT ![k] = d]
  /\ UNCHANGED <<opVars, world, seen, history>>

\* Operations at work in a directory, or whose outcome in it is unknown.
Uses(o, d) ==
  \/ dir[o] = d /\ at[o] \in {"dispatch", "working", "idling"}
  \/ dir[o] = d /\ at[o] = "dead" /\ request[o] = "unknown" /\ kind[o] # "resume"
  \/ d = Mission /\ kind[o] = "task" /\ at[o] \in {"dispatch", "working"}

\* What the cleanup keeps directories for: the tools it waits for, and what the
\* state refers to; the lease of a session whose process is gone keeps nothing.
KeptFor(o, d) ==
  \/ tool[o] \in Fenced
  \/ d \in referenced /\ (kind[o] = "live_session" => at[o] # "dead")

RemoveDirectory(k) ==
  /\ stage[k] = "remove"
  /\ dirs' = dirs \ {target[k]}
  /\ hit' = hit \cup {o \in Op : /\ target[k] \in dirs
                                 /\ Uses(o, target[k]) /\ KeptFor(o, target[k])}
  /\ CGoto(k, "check") /\ target' = [target EXCEPT ![k] = Nothing]
  /\ UNCHANGED <<opVars, registered, referenced, refs, owned, orphans, seen, late, undone>>

\* git worktree prune, with another look at the requests before it.
CheckPrune(k) ==
  /\ stage[k] = "check" /\ orphans[k] = {}
  /\ CGoto(k, IF Blocked(Fenced) THEN "stopped" ELSE "prune")
  /\ UNCHANGED <<opVars, world, orphans, seen, target, history>>

Prune(k) ==
  /\ stage[k] = "prune"
  /\ registered' = registered \cap dirs
  /\ CGoto(k, "refs")
  /\ UNCHANGED <<opVars, dirs, referenced, refs, owned, orphans, seen, target, history>>

\* The refs that had no candidate in the state read first; the blockers are
\* those of that state too.
ListRefs(k) ==
  /\ stage[k] \in {"refs", "stopped"}
  /\ orphans' = [orphans EXCEPT ![k] = refs \ seen[k]]
  /\ CGoto(k, "check refs")
  /\ UNCHANGED <<opVars, world, seen, target, history>>

\* Mutant: requests in progress are not looked at again.
CheckRef_Unfenced(k) ==
  /\ stage[k] = "check refs"
  /\ \E r \in orphans[k] :
       /\ orphans' = [orphans EXCEPT ![k] = @ \ {r}]
       /\ IF r \in owned THEN UNCHANGED <<stage, target>>
          ELSE CGoto(k, "remove ref") /\ target' = [target EXCEPT ![k] = r]
  /\ UNCHANGED <<opVars, world, seen, history>>

CheckRef(k) ==
  /\ stage[k] = "check refs"
  /\ \E r \in orphans[k] :
       /\ orphans' = [orphans EXCEPT ![k] = @ \ {r}]
       /\ IF Blocked(Producing) THEN CGoto(k, "done") /\ UNCHANGED target
          ELSE IF r \in owned THEN UNCHANGED <<stage, target>>
          ELSE CGoto(k, "remove ref") /\ target' = [target EXCEPT ![k] = r]
  /\ UNCHANGED <<opVars, world, seen, history>>

\* update-ref -d with the commit that was listed; it fails, and with it the
\* cleanup, if another has removed the ref.
RemoveRef(k) ==
  /\ stage[k] = "remove ref"
  /\ refs' = refs \ {target[k]}
  /\ CGoto(k, IF target[k] \in refs THEN "check refs" ELSE "done")
  /\ target' = [target EXCEPT ![k] = Nothing]
  /\ UNCHANGED <<opVars, dirs, registered, referenced, owned, orphans, seen, history>>

Finish(k) ==
  /\ stage[k] = "check refs" /\ orphans[k] = {}
  /\ CGoto(k, "done")
  /\ UNCHANGED <<opVars, world, orphans, seen, target, history>>

-----------------------------------------------------------------------------

Operate(o) ==
  \/ Begin(o) \/ Reserve(o) \/ Create(o) \/ Dispatch(o) \/ Work(o) \/ RemoveOwn(o)
  \/ Unlease(o) \/ CreateRef(o) \/ RecordCandidate(o) \/ Crash(o)

Clean(k) ==
  \/ ReadState(k) \/ SkipWorktrees(k) \/ ListDirectories(k) \/ CheckDirectory(k)
  \/ RemoveDirectory(k) \/ CheckPrune(k) \/ Prune(k) \/ ListRefs(k) \/ CheckRef(k)
  \/ RemoveRef(k) \/ Finish(k)

Next ==
  \/ \E o \in Op : Operate(o)
  \/ \E k \in Cleaner : Clean(k)
  \/ CloseMission

Spec == Init /\ [][Next]_cleanupVars

-----------------------------------------------------------------------------
(* Properties *)

\* Types of the variables.
TypeOK ==
  LET Dir == Op \cup {Mission, Stray}
  IN /\ kind \in [Op -> DOMAIN Does]
     /\ tool \in [Op -> Validating \cup Producing]
     /\ dir \in [Op -> Dir]
     /\ at \in [Op -> {"idle", "reserve", "create", "reclaim", "dispatch", "working", "idling",
                       "remove", "undo", "unlease", "ref", "record", "done", "dead"}]
     /\ request \in [Op -> {"none", "started", "completed", "failed", "unknown"}]
     /\ dirs \subseteq Dir /\ registered \subseteq Dir /\ referenced \subseteq Dir
     /\ refs \subseteq Op \cup {Stray} /\ owned \subseteq Op
     /\ stage \in [Cleaner -> {"idle", "blocked", "list", "check", "remove", "stopped", "prune",
                               "refs", "check refs", "remove ref", "done"}]
     /\ orphans \in [Cleaner -> SUBSET Dir]
     /\ seen \in [Cleaner -> SUBSET Op]
     /\ target \in [Cleaner -> Dir \cup {Nothing}]
     /\ hit \subseteq Op /\ late \subseteq Op /\ undone \subseteq Op

\* A cleanup takes the directory from no operation of a tool for whose requests
\* it waits, nor what one may have left there with an unknown outcome, and from
\* no other operation whose directory the state refers to; unless the operation
\* began, or entered its reference, between the last look at the state and the
\* removal.  (What mission_advance and worker_resume do in a directory that the
\* state does not refer to is not kept: a validation worktree, a task worktree
\* before task_dispatched, the worktree of a mission that has been closed.)
RemovalSparesWork == hit \subseteq late

\* A candidate in the state keeps its ref, whatever cleanups run while it is
\* made; only its own creation, when its transaction throws after the commit,
\* takes it away.
CandidateKeepsItsRef == owned \subseteq refs \cup undone

\* What a cleanup takes for an orphan is one still when it removes it, although
\* it looks, and looks again, before each removal and never while it removes.
RemovesOnlyOrphans == RemovalSparesWork /\ CandidateKeepsItsRef

=============================================================================
