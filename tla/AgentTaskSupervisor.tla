------------------------- MODULE AgentTaskSupervisor -------------------------
(****************************************************************************)
(* The life of an agent task and of the process group that runs it          *)
(* (src-tauri/src/agent_task_supervisor.rs, agent_task_process_group.rs,    *)
(* agent_task_stop_escalation.rs, agent_task_trust_revocation.rs,           *)
(* agent_task_pending_stops.rs, agent_task_completion.rs).                  *)
(*                                                                          *)
(* One thread at a time owns a task's child: first the command thread that  *)
(* starts it, then, once the start has committed, the task's waiter.  Only  *)
(* the owner reaps.  Any number of other threads stop the task: the user's  *)
(* stop, the watchdog, and the sweeps over a root (a stop, a revocation of  *)
(* trust, the shutdown).  They share the registry's `state` mutex, held for *)
(* one action at a time, and the group's own mutex, which a sender holds    *)
(* between reading the group's state and sending the signal.                *)
(*                                                                          *)
(* What a task writes and what the renderer is told is in AgentTaskDelivery.*)
(****************************************************************************)
EXTENDS FiniteSets

CONSTANTS
    Tasks,          \* task ids
    Roots,          \* project roots
    RootOf,         \* metadata.trust_root of each task
    SharedSessions, \* may a task run as a turn of a shared session?
    SignalsFail,    \* may a process-group signal be refused (EPERM)?
    ReapFails,      \* may the child's reap or the observation of its exit fail?
    WorkersFail     \* may a spawn or a worker thread fail, or the waiter panic?

ASSUME TopologyAssumption == RootOf \in [Tasks -> Roots]
ASSUME FlagsAssumption ==
    {SharedSessions, SignalsFail, ReapFails, WorkersFail} \subseteq BOOLEAN

VARIABLES
    startsClosed,  \* AgentTaskRegistryState.starts_closed
    pendingStops,  \* AgentTaskRegistryState.pending_stops
    entry,         \* registry.entries: the entry's flags, by task
    owner,         \* program counter of the thread that owns the child
    payload,       \* what that thread will complete the task with
    stopper,       \* program counters of the threads stopping each task
    group,         \* AgentProcessGroup
    groupLock,     \* who holds the group's mutex across a send
    leader,        \* the process that leads the group (the turn, if shared)
    doomed,        \* the leader was sent SIGKILL
    members,       \* processes besides the leader are alive in the group
    admitted,      \* tasks that hold an AgentTaskAdmission
    outcome,       \* the terminal status of the task
    cause,         \* history: what first decided how the task would end
    strays,        \* history: signals sent to a group without its leader
    shutdownSwept  \* history: shutdown_all has claimed its targets

registryVars == <<startsClosed, pendingStops, entry, admitted>>
processVars == <<leader, doomed, members>>
groupVars == <<group, groupLock>>
threadVars == <<owner, payload, stopper>>
historyVars == <<outcome, cause, strays, shutdownSwept>>
vars == <<registryVars, processVars, groupVars, threadVars, historyVars>>

----------------------------------------------------------------------------
(* The registry entry.                                                      *)

Stoppers == {"stop", "watchdog", "sweep"}

NoEntry ==
    [phase |-> "absent", stopRequested |-> FALSE, timedOut |-> FALSE,
     interrupted |-> FALSE, authority |-> "undecided", claimed |-> FALSE,
     group |-> FALSE, watchdogDone |-> FALSE]

Live(t) == entry[t].phase = "live"

EntryState ==
    [phase : {"absent", "live", "terminal"}, stopRequested : BOOLEAN,
     timedOut : BOOLEAN, interrupted : BOOLEAN,
     authority : {"undecided", "own", "revoked"}, claimed : BOOLEAN,
     group : BOOLEAN, watchdogDone : BOOLEAN]

(* AgentProcessGroup::for_child: a task runs in a process group of its own, *)
(* or as a turn of a shared session.                                        *)
GroupFor(shared) ==
    [state |-> IF shared THEN "shared" ELSE "active", shared |-> shared,
     forceRequested |-> FALSE, cleanupVerified |-> FALSE]

NoGroup ==
    [state |-> "none", shared |-> FALSE,
     forceRequested |-> FALSE, cleanupVerified |-> FALSE]

GroupState ==
    [state : {"none", "active", "reaping", "shared", "released", "uncertain"},
     shared : BOOLEAN, forceRequested : BOOLEAN, cleanupVerified : BOOLEAN]

OwnerSteps ==
    {"idle", "admitted", "registered", "checked", "spawned", "published",
     "guarded", "dropForce", "dropWait", "dropClaim", "dropRemove",
     "poll", "own", "ownError", "drain", "errorForce", "bounded",
     "cleanup", "begin", "reap", "settle",
     "complete", "finish", "emit", "done"}

StopperSteps ==
    {"idle", "armed", "term", "termSend", "grace", "force", "kill", "killSend",
     "quiet", "quietSend", "done"}

(* The shape of the state; and the group's mutex is held by exactly the     *)
(* stopper that has read the state and not yet sent its signal.             *)
TypeOK ==
    /\ startsClosed \in BOOLEAN
    /\ pendingStops \subseteq Tasks
    /\ entry \in [Tasks -> EntryState]
    /\ owner \in [Tasks -> OwnerSteps]
    /\ payload \in [Tasks -> [what : {"exited", "failed", "dropped"},
                              cleanup : BOOLEAN, broken : BOOLEAN]]
    /\ stopper \in [Tasks -> [Stoppers -> StopperSteps]]
    /\ group \in [Tasks -> GroupState]
    /\ groupLock \in [Tasks -> {"free"} \cup Stoppers]
    /\ \A t \in Tasks, s \in Stoppers :
         groupLock[t] = s <=> stopper[t][s] \in {"termSend", "killSend", "quietSend"}
    /\ leader \in [Tasks -> {"none", "running", "exited", "reaped"}]
    /\ doomed \in [Tasks -> BOOLEAN]
    /\ members \in [Tasks -> BOOLEAN]
    /\ admitted \subseteq Tasks
    /\ outcome \in [Tasks -> {"none", "refused", "dropped", "exited", "stopped",
                              "failed", "timeout", "revoked"}]
    /\ cause \in [Tasks -> {"none", "own", "stop", "revoke"}]
    /\ strays \in [Tasks -> SUBSET {"group", "child"}]
    /\ shutdownSwept \in BOOLEAN

Init ==
    /\ startsClosed = FALSE
    /\ pendingStops = {}
    /\ entry = [t \in Tasks |-> NoEntry]
    /\ owner = [t \in Tasks |-> "idle"]
    /\ payload = [t \in Tasks |->
                    [what |-> "exited", cleanup |-> FALSE, broken |-> FALSE]]
    /\ stopper = [t \in Tasks |-> [s \in Stoppers |-> "idle"]]
    /\ group = [t \in Tasks |-> NoGroup]
    /\ groupLock = [t \in Tasks |-> "free"]
    /\ leader = [t \in Tasks |-> "none"]
    /\ doomed = [t \in Tasks |-> FALSE]
    /\ members = [t \in Tasks |-> FALSE]
    /\ admitted = {}
    /\ outcome = [t \in Tasks |-> "none"]
    /\ cause = [t \in Tasks |-> "none"]
    /\ strays = [t \in Tasks |-> {}]
    /\ shutdownSwept = FALSE

Goto(t, step) == owner' = [owner EXCEPT ![t] = step]
StopperGoto(t, s, step) == stopper' = [stopper EXCEPT ![t][s] = step]
LockFree(t) == groupLock[t] = "free"

Unlock_leaked(t) == groupLock' = groupLock                               \* mutant
Unlock(t) == groupLock' = [groupLock EXCEPT ![t] = "free"]

(* The admission is dropped with the entry, or taken from it at the end.    *)
GiveBack_kept(t) == admitted                                             \* mutant
GiveBack(t) == admitted \ {t}

(* The first of: an exit observed, a stop accepted, a revocation.           *)
Blame(S, c) ==
    cause' = [t \in Tasks |-> IF t \in S /\ cause[t] = "none" THEN c ELSE cause[t]]

----------------------------------------------------------------------------
(* Signals.  A KILL to a group reaches the leader and every member, or is   *)
(* refused and reaches nobody.  Once the leader is reaped its number no     *)
(* longer names the group for certain: whatever is sent then is a stray.    *)

Stray(t, via) ==
    IF leader[t] = "reaped" THEN [strays EXCEPT ![t] = @ \cup {via}] ELSE strays

SignalResults == IF SignalsFail THEN BOOLEAN ELSE {TRUE}

KillGroup(t, delivered) ==
    /\ doomed' = [doomed EXCEPT ![t] = @ \/ (delivered /\ leader[t] = "running")]
    /\ members' = [members EXCEPT ![t] = @ /\ ~delivered]
    /\ strays' = Stray(t, "group")

(* AgentProcessGroup::force_stop by the thread that owns the child.  No     *)
(* reap can come between its read of the state and its send, because the    *)
(* owner itself is the one that reaps.                                      *)
OwnerForceStop(t, delivered) ==
    /\ LockFree(t)
    /\ group' = [group EXCEPT
         ![t].forceRequested = TRUE,
         ![t].cleanupVerified = @ \/ group[t].state # "active" \/ delivered]
    /\ IF group[t].state = "active" THEN KillGroup(t, delivered)
                                    ELSE UNCHANGED <<doomed, members, strays>>

ChildKilled_never(t) == FALSE                                            \* mutant
ChildKilled(t) == leader[t] = "running"

(* The same, followed by AgentChild::force_kill, which signals the group by *)
(* its number without asking for its state, and then the leader through the *)
(* child's handle; on a shared session it ends the turn.                    *)
OwnerForceKill(t, delivered, again) ==
    /\ LockFree(t)
    /\ group' = [group EXCEPT
         ![t].forceRequested = TRUE,
         ![t].cleanupVerified = @ \/ group[t].state # "active" \/ delivered]
    /\ doomed' = [doomed EXCEPT ![t] = @ \/ ChildKilled(t)]
    /\ members' = [members EXCEPT
         ![t] = @ /\ ~again /\ ~(delivered /\ group[t].state = "active")]
    /\ strays' = IF group[t].shared THEN strays ELSE Stray(t, "child")

----------------------------------------------------------------------------
(* Starting: AgentTaskAdmissionRegistry::reserve and AgentTaskRegistry::    *)
(* start.  From "registered" on, an early return drops UnpublishedAgentTask.*)
(* A reservation refused at the limit changes nothing.                      *)

Admit(t) ==
    /\ owner[t] = "idle"
    /\ admitted' = admitted \cup {t}
    /\ Goto(t, "admitted")
    /\ UNCHANGED <<startsClosed, pendingStops, entry, processVars, groupVars,
                   payload, stopper, historyVars>>

MayStart_after_close(t) == t \notin pendingStops                         \* mutant
MayStart(t) == ~startsClosed /\ t \notin pendingStops

(* The admission goes down with the refused request.                        *)
RefuseStart(t) ==
    /\ owner[t] = "admitted"
    /\ ~MayStart(t)
    /\ pendingStops' = IF startsClosed THEN pendingStops ELSE pendingStops \ {t}
    /\ admitted' = GiveBack(t)
    /\ outcome' = [outcome EXCEPT ![t] = "refused"]
    /\ Goto(t, "done")
    /\ UNCHANGED <<startsClosed, entry, processVars, groupVars, payload,
                   stopper, cause, strays, shutdownSwept>>

Start(t) ==
    /\ owner[t] = "admitted"
    /\ MayStart(t)
    /\ entry' = [entry EXCEPT ![t] = [NoEntry EXCEPT !.phase = "live"]]
    /\ Goto(t, "registered")
    /\ UNCHANGED <<startsClosed, pendingStops, admitted, processVars, groupVars,
                   payload, stopper, historyVars>>

(* The check after the sink's before_start hook.                            *)
Recheck(t) ==
    /\ owner[t] = "registered"
    /\ Goto(t, IF startsClosed \/ entry[t].stopRequested THEN "dropClaim"
                                                         ELSE "checked")
    /\ UNCHANGED <<registryVars, processVars, groupVars, payload, stopper,
                   historyVars>>

Spawn(t) ==
    /\ owner[t] = "checked"
    /\ \/ /\ leader' = [leader EXCEPT ![t] = "running"]
          /\ \E shared \in {FALSE, SharedSessions} :
               group' = [group EXCEPT ![t] = GroupFor(shared)]
          /\ Goto(t, "spawned")
       \/ /\ WorkersFail
          /\ Goto(t, "dropClaim")
          /\ UNCHANGED <<leader, group>>
    /\ UNCHANGED <<registryVars, doomed, members, groupLock, payload, stopper,
                   historyVars>>

AfterPublish(t) == IF entry[t].stopRequested THEN "dropForce" ELSE "published"

(* The group enters the registry, and the stop that came before it is seen, *)
(* under one hold of `state`.                                               *)
PublishGroup(t) ==
    /\ owner[t] = "spawned"
    /\ \/ /\ entry' = [entry EXCEPT ![t].group = TRUE]
          /\ Goto(t, AfterPublish(t))
       \/ /\ WorkersFail  \* the child's pipes cannot be read
          /\ Goto(t, "dropForce")
          /\ UNCHANGED entry
    /\ UNCHANGED <<startsClosed, pendingStops, admitted, processVars, groupVars,
                   payload, stopper, historyVars>>

SpawnWatchdog(t) ==
    /\ owner[t] = "published"
    /\ \/ /\ StopperGoto(t, "watchdog", "armed")
          /\ Goto(t, "guarded")
       \/ /\ WorkersFail
          /\ Goto(t, "dropForce")
          /\ UNCHANGED stopper
    /\ UNCHANGED <<registryVars, processVars, groupVars, payload, historyVars>>

(* The child passes to the waiter, and the start commits.                   *)
SpawnWaiter(t) ==
    /\ owner[t] = "guarded"
    /\ \/ Goto(t, "poll")
       \/ WorkersFail /\ Goto(t, "dropForce")
    /\ UNCHANGED <<registryVars, processVars, groupVars, payload, stopper,
                   historyVars>>

(* Drop for UnpublishedAgentTask: kill, wait for a bounded time, reap, and  *)
(* take the entry out of the registry.                                      *)
DropForce(t) ==
    /\ owner[t] = "dropForce"
    /\ entry' = [entry EXCEPT ![t].watchdogDone = TRUE]
    /\ payload' = [payload EXCEPT ![t].what = "dropped"]
    /\ \E delivered, again \in SignalResults : OwnerForceKill(t, delivered, again)
    /\ Goto(t, "dropWait")
    /\ UNCHANGED <<startsClosed, pendingStops, admitted, leader, groupLock,
                   stopper, outcome, cause, shutdownSwept>>

DropWait(t) ==
    /\ owner[t] = "dropWait"
    /\ \/ leader[t] = "exited" /\ Goto(t, "cleanup")
       \/ Goto(t, "dropClaim")  \* the deadline, or the exit cannot be observed
    /\ UNCHANGED <<registryVars, processVars, groupVars, payload, stopper,
                   historyVars>>

DropClaim(t) ==
    /\ owner[t] = "dropClaim"
    /\ entry' = [entry EXCEPT ![t].claimed = TRUE, ![t].watchdogDone = TRUE]
    /\ Goto(t, "dropRemove")
    /\ UNCHANGED <<startsClosed, pendingStops, admitted, processVars, groupVars,
                   payload, stopper, historyVars>>

DropRemove(t) ==
    /\ owner[t] = "dropRemove"
    /\ entry' = [entry EXCEPT ![t] = NoEntry]
    /\ admitted' = GiveBack(t)
    /\ outcome' = [outcome EXCEPT ![t] = "dropped"]
    /\ Goto(t, "done")
    /\ UNCHANGED <<startsClosed, pendingStops, processVars, groupVars, payload,
                   stopper, cause, strays, shutdownSwept>>

----------------------------------------------------------------------------
(* The waiter: run_waiter and run_waiter_inner.                             *)

(* A requested force is carried out by the waiter too, on every poll.       *)
PollForce(t) ==
    /\ owner[t] = "poll"
    /\ group[t].forceRequested
    /\ doomed' = [doomed EXCEPT ![t] = @ \/ leader[t] = "running"]
    /\ \E delivered \in SignalResults :
          members' = [members EXCEPT ![t] = @ /\ ~delivered]
    /\ UNCHANGED <<registryVars, leader, groupVars, threadVars, historyVars>>

ObserveExit(t) ==
    /\ owner[t] = "poll"
    /\ \/ leader[t] = "exited" /\ Goto(t, "own")
       \/ ReapFails /\ Goto(t, "ownError")
    /\ UNCHANGED <<registryVars, processVars, groupVars, payload, stopper,
                   historyVars>>

(* A panic of the waiter is caught, and ends as a failed wait does.         *)
WaiterPanic(t) ==
    /\ WorkersFail
    /\ owner[t] \in {"poll", "drain", "emit"}
    /\ Goto(t, "ownError")
    /\ UNCHANGED <<registryVars, processVars, groupVars, payload, stopper,
                   historyVars>>

Noted_nothing(authority) == authority                                    \* mutant
Noted(authority) == IF authority = "undecided" THEN "own" ELSE authority

NoteOwnOutcome(t) ==
    /\ owner[t] \in {"own", "ownError"}
    /\ entry' = [entry EXCEPT ![t].authority = Noted(@)]
    /\ Blame({t}, "own")
    /\ Goto(t, IF owner[t] = "own" THEN "drain" ELSE "errorForce")
    /\ UNCHANGED <<startsClosed, pendingStops, admitted, processVars, groupVars,
                   payload, stopper, outcome, strays, shutdownSwept>>

(* The pumps settle, or are cut off by force; or the input reports that the *)
(* prompt never went through, and the group is stopped and reaped in        *)
(* bounded time.                                                            *)
DrainPumps(t) ==
    /\ owner[t] = "drain"
    /\ \/ /\ Goto(t, "cleanup")
          /\ UNCHANGED <<group, doomed, members, strays, payload>>
       \/ /\ \E delivered \in SignalResults : OwnerForceStop(t, delivered)
          /\ \/ Goto(t, "cleanup") /\ UNCHANGED payload
             \/ /\ Goto(t, "bounded")
                /\ payload' = [payload EXCEPT ![t].what = "failed"]
    /\ UNCHANGED <<registryVars, leader, groupLock, stopper, outcome, cause,
                   shutdownSwept>>

(* A failed observation, a failed reap or a panic: stop the group, kill the *)
(* child, and reap in bounded time.                                         *)
ErrorForce(t) ==
    /\ owner[t] = "errorForce"
    /\ payload' = [payload EXCEPT ![t].what = "failed"]
    /\ \E delivered, again \in SignalResults : OwnerForceKill(t, delivered, again)
    /\ Goto(t, "bounded")
    /\ UNCHANGED <<registryVars, leader, groupLock, stopper, outcome, cause,
                   shutdownSwept>>

(* reap_bounded *)
ReapBounded(t) ==
    /\ owner[t] = "bounded"
    /\ \/ leader[t] = "exited" /\ Goto(t, "cleanup")
       \/ Goto(t, "complete")  \* the deadline, or the exit cannot be observed
    /\ UNCHANGED <<registryVars, processVars, groupVars, payload, stopper,
                   historyVars>>

(* A cleanup signal that is refused leaves the release of the group unsure. *)
CleanupResult_dropped(delivered) == TRUE                                 \* mutant
CleanupResult(delivered) == delivered

(* AgentProcessGroup::reap, in its four steps.                              *)
Cleanup(t) ==
    /\ owner[t] = "cleanup"
    /\ Goto(t, "begin")
    /\ \/ /\ group[t].cleanupVerified
          /\ payload' = [payload EXCEPT ![t].cleanup = TRUE]
          /\ UNCHANGED <<group, doomed, members, strays>>
       \/ /\ ~group[t].cleanupVerified
          /\ LockFree(t)
          /\ IF group[t].state = "active"
             THEN \E delivered \in SignalResults :
                    /\ KillGroup(t, delivered)
                    /\ payload' = [payload EXCEPT ![t].cleanup = CleanupResult(delivered)]
                    /\ group' = [group EXCEPT ![t].forceRequested = TRUE,
                                              ![t].cleanupVerified = delivered]
             ELSE /\ payload' = [payload EXCEPT ![t].cleanup = TRUE]
                  /\ group' = [group EXCEPT ![t].forceRequested = TRUE,
                                 ![t].cleanupVerified = group[t].state = "shared"]
                  /\ UNCHANGED <<doomed, members, strays>>
    /\ UNCHANGED <<registryVars, leader, groupLock, stopper, outcome, cause,
                   shutdownSwept>>

BeginState_still_active(state) == state                                  \* mutant
BeginState(state) == IF state = "active" THEN "reaping" ELSE state

BeginReaping(t) ==
    /\ owner[t] = "begin"
    /\ LockFree(t)
    /\ group' = [group EXCEPT ![t].state = BeginState(@)]
    /\ Goto(t, "reap")
    /\ UNCHANGED <<registryVars, processVars, groupLock, payload, stopper,
                   historyVars>>

(* A child that could not be reaped once cannot be reaped later either.     *)
ReapChild(t) ==
    /\ owner[t] = "reap"
    /\ \/ /\ ~payload[t].broken
          /\ leader' = [leader EXCEPT ![t] = "reaped"]
          /\ UNCHANGED payload
       \/ /\ ReapFails
          /\ payload' = [payload EXCEPT ![t].broken = TRUE]
          /\ UNCHANGED leader
    /\ Goto(t, "settle")
    /\ UNCHANGED <<registryVars, doomed, members, groupVars, stopper, historyVars>>

AfterReap_unchecked(t, reaped) ==                                        \* mutant
    IF payload[t].what = "dropped" THEN "dropClaim" ELSE "complete"

AfterReap(t, reaped) ==
    IF payload[t].what = "dropped" THEN "dropClaim"
    ELSE IF payload[t].what = "exited" /\ ~reaped THEN "errorForce"
    ELSE "complete"

SettleGroup(t) ==
    /\ owner[t] = "settle"
    /\ LockFree(t)
    /\ group' = [group EXCEPT ![t].state =
                   IF payload[t].broken
                   THEN IF @ = "reaping" THEN "active" ELSE @
                   ELSE IF payload[t].cleanup THEN "released" ELSE "uncertain"]
    /\ Goto(t, AfterReap(t, payload[t].cleanup /\ ~payload[t].broken))
    /\ UNCHANGED <<registryVars, processVars, groupLock, payload, stopper,
                   historyVars>>

(* capture_completion: the task is claimed once.                            *)
CaptureCompletion(t) ==
    /\ owner[t] = "complete"
    /\ entry' = [entry EXCEPT ![t].claimed = TRUE]
    /\ Goto(t, IF entry[t].claimed THEN "done" ELSE "finish")
    /\ UNCHANGED <<startsClosed, pendingStops, admitted, processVars, groupVars,
                   payload, stopper, historyVars>>

(* resolve_terminal_status over revoked_trust_payload; a shared session may *)
(* report that the turn settled without the interrupt that was asked for.   *)
TerminalStatus(t, byInterrupt) ==
    IF entry[t].timedOut THEN "timeout"
    ELSE IF entry[t].authority = "revoked" THEN "revoked"
    ELSE IF payload[t].what = "failed" THEN "failed"
    ELSE IF entry[t].stopRequested \/ (entry[t].interrupted /\ byInterrupt)
         THEN "stopped"
    ELSE "exited"

CompleteSettled(t) ==
    /\ owner[t] = "finish"
    /\ entry' = [entry EXCEPT ![t].phase = "terminal", ![t].watchdogDone = TRUE]
    /\ admitted' = GiveBack(t)
    /\ \E byInterrupt \in BOOLEAN :
          outcome' = [outcome EXCEPT ![t] = TerminalStatus(t, byInterrupt)]
    /\ Goto(t, "emit")
    /\ UNCHANGED <<startsClosed, pendingStops, processVars, groupVars, payload,
                   stopper, cause, strays, shutdownSwept>>

(* The status is handed to the sink (AgentTaskDelivery).                    *)
Emitted(t) ==
    /\ owner[t] = "emit"
    /\ Goto(t, "done")
    /\ UNCHANGED <<registryVars, processVars, groupVars, payload, stopper,
                   historyVars>>

----------------------------------------------------------------------------
(* Stop requests.                                                           *)

(* stop_owned for a task that is not registered: the stop waits for it,     *)
(* unless too many do already and it is refused.                            *)
RecordPendingStop(t) ==
    /\ entry[t].phase = "absent"
    /\ t \notin pendingStops
    /\ pendingStops' = pendingStops \cup {t}
    /\ UNCHANGED <<startsClosed, entry, admitted, processVars, groupVars,
                   threadVars, historyVars>>

(* The recorded stop outlives PENDING_AGENT_TASK_STOP_TTL, or is discarded  *)
(* by discard_pending_stop.                                                 *)
ForgetPendingStop(t) ==
    /\ t \in pendingStops
    /\ pendingStops' = pendingStops \ {t}
    /\ UNCHANGED <<startsClosed, entry, admitted, processVars, groupVars,
                   threadVars, historyVars>>

(* stop_owned for a registered task                                         *)
StopOwned(t) ==
    /\ Live(t)
    /\ ~entry[t].stopRequested
    /\ entry' = [entry EXCEPT ![t].stopRequested = TRUE]
    /\ Blame({t}, "stop")
    /\ IF entry[t].group THEN StopperGoto(t, "stop", "term") ELSE UNCHANGED stopper
    /\ UNCHANGED <<startsClosed, pendingStops, admitted, processVars, groupVars,
                   owner, payload, outcome, strays, shutdownSwept>>

(* claim_interrupt: only a provider that settles the turn itself can be     *)
(* interrupted, that is a shared session.  A write that fails becomes a     *)
(* stop; an unsupported interrupt is released again.                        *)
ClaimInterrupt(t) ==
    /\ group[t].shared
    /\ Live(t) /\ entry[t].group
    /\ ~entry[t].stopRequested /\ ~entry[t].timedOut /\ ~entry[t].interrupted
    /\ entry' = [entry EXCEPT ![t].interrupted = TRUE]
    /\ UNCHANGED <<startsClosed, pendingStops, admitted, processVars, groupVars,
                   threadVars, historyVars>>

ReleaseInterrupt(t) ==
    /\ Live(t) /\ entry[t].interrupted
    /\ entry' = [entry EXCEPT ![t].interrupted = FALSE]
    /\ UNCHANGED <<startsClosed, pendingStops, admitted, processVars, groupVars,
                   threadVars, historyVars>>

(* A sweep claims its targets under one hold of `state` and then stops each *)
(* group it found.  The model follows one sweep per task at a time.         *)
SweepFree(S) == \A t \in S : stopper[t]["sweep"] \in {"idle", "done"}

SweepInto(S, step) ==
    stopper' = [t \in Tasks |->
                  IF t \in S /\ entry[t].group
                  THEN [stopper[t] EXCEPT !["sweep"] = step] ELSE stopper[t]]

ClaimTargets(S) ==
    entry' = [t \in Tasks |->
                IF t \in S THEN [entry[t] EXCEPT !.stopRequested = TRUE]
                           ELSE entry[t]]

Targets(r) == {t \in Tasks : RootOf[t] = r /\ Live(t)}

StopForRoot(r) ==
    /\ Targets(r) # {}
    /\ SweepFree(Targets(r))
    /\ ClaimTargets(Targets(r))
    /\ Blame(Targets(r), "stop")
    /\ SweepInto(Targets(r), "term")
    /\ UNCHANGED <<startsClosed, pendingStops, admitted, processVars, groupVars,
                   owner, payload, outcome, strays, shutdownSwept>>

KeepsOwnOutcome(t) ==
    \/ entry[t].phase = "terminal"
    \/ entry[t].claimed
    \/ entry[t].authority = "own"

(* attribute_to_revoked_trust *)
Attributed(e) == IF e.stopRequested THEN e.authority ELSE "revoked"

(* stop_revoked_trust: a task that has decided its own outcome keeps it and *)
(* only has its group killed; every other one is claimed, and attributed to *)
(* the revocation unless a stop was asked for before.  The escalation runs  *)
(* on a worker, or, if none can be spawned, is a force_stop on the spot.    *)
StopRevokedTrust(r, escalation) ==
    LET ofRoot == {t \in Tasks : RootOf[t] = r /\ entry[t].phase # "absent"}
        settling == {t \in ofRoot : KeepsOwnOutcome(t)}
        revoked == ofRoot \ settling
    IN  /\ ofRoot # {}
        /\ SweepFree(ofRoot)
        /\ entry' = [t \in Tasks |->
             IF t \in revoked
             THEN [entry[t] EXCEPT
                     !.stopRequested = TRUE,
                     !.authority = Attributed(entry[t])]
             ELSE entry[t]]
        /\ Blame(revoked, "revoke")
        /\ stopper' = [t \in Tasks |->
             IF t \in ofRoot /\ entry[t].group
             THEN [stopper[t] EXCEPT !["sweep"] =
                     IF t \in settling THEN "quiet" ELSE escalation]
             ELSE stopper[t]]
        /\ UNCHANGED <<startsClosed, pendingStops, admitted, processVars,
                       groupVars, owner, payload, outcome, strays, shutdownSwept>>

CloseStartAdmission ==
    /\ ~startsClosed
    /\ startsClosed' = TRUE
    /\ UNCHANGED <<pendingStops, entry, admitted, processVars, groupVars,
                   threadVars, historyVars>>

(* shutdown_all, which the application calls after close_start_admission    *)
ShutdownAll ==
    LET targets == {t \in Tasks : Live(t)}
    IN  /\ startsClosed
        /\ ~shutdownSwept
        /\ SweepFree(targets)
        /\ shutdownSwept' = TRUE
        /\ ClaimTargets(targets)
        /\ Blame(targets, "stop")
        /\ SweepInto(targets, "term")
        /\ UNCHANGED <<startsClosed, pendingStops, admitted, processVars,
                       groupVars, owner, payload, outcome, strays>>

(* run_watchdog: the gate was not finished within max_runtime.              *)
WatchdogFires(t) ==
    /\ stopper[t]["watchdog"] = "armed"
    /\ ~entry[t].watchdogDone
    /\ Live(t)
    /\ entry' = [entry EXCEPT ![t].timedOut = TRUE]
    /\ StopperGoto(t, "watchdog", "term")
    /\ UNCHANGED <<startsClosed, pendingStops, admitted, processVars, groupVars,
                   owner, payload, historyVars>>

WatchdogFinishes(t) ==
    /\ stopper[t]["watchdog"] = "armed"
    /\ entry[t].watchdogDone \/ ~Live(t)
    /\ StopperGoto(t, "watchdog", "done")
    /\ UNCHANGED <<registryVars, processVars, groupVars, owner, payload,
                   historyVars>>

----------------------------------------------------------------------------
(* escalate_group_stop: TERM, wait, KILL.                                   *)

(* AgentProcessGroup::signal up to the send: the group's mutex is taken and *)
(* the state read.  Only an active group is signalled.                      *)
LockToSend(t, s, from, send, skip) ==
    /\ stopper[t][s] = from
    /\ LockFree(t)
    /\ IF group[t].state = "active"
       THEN /\ groupLock' = [groupLock EXCEPT ![t] = s]
            /\ StopperGoto(t, s, send)
       ELSE StopperGoto(t, s, skip) /\ UNCHANGED groupLock

SignalTerm(t, s) ==
    /\ LockToSend(t, s, "term", "termSend", "grace")
    /\ group' = IF group[t].state = "shared"
                THEN [group EXCEPT ![t].forceRequested = TRUE] ELSE group
    /\ UNCHANGED <<registryVars, processVars, owner, payload, historyVars>>

(* The leader and the members may end on TERM, and need not.                *)
SendTerm(t, s) ==
    /\ stopper[t][s] = "termSend"
    /\ strays' = Stray(t, "group")
    /\ Unlock(t)
    /\ StopperGoto(t, s, "grace")
    /\ UNCHANGED <<registryVars, processVars, group, owner, payload, outcome,
                   cause, shutdownSwept>>

(* wait_for_group_reaped returns, or times out; the sweep of a shutdown     *)
(* waits for all its groups, and goes on to this one too if another stays.  *)
AfterGrace_gives_up(t, s) == {"done"}                                    \* mutant
AfterGrace(t, s) ==
    IF group[t].state # "released" THEN {"force"}
    ELSE IF s = "sweep" THEN {"done", "force"} ELSE {"done"}

GraceEnds(t, s) ==
    /\ stopper[t][s] = "grace"
    /\ \E step \in AfterGrace(t, s) : StopperGoto(t, s, step)
    /\ UNCHANGED <<registryVars, processVars, groupVars, owner, payload,
                   historyVars>>

RequestForce(t, s) ==
    /\ stopper[t][s] = "force"
    /\ group' = [group EXCEPT ![t].forceRequested = TRUE]
    /\ StopperGoto(t, s, "kill")
    /\ UNCHANGED <<registryVars, processVars, groupLock, owner, payload,
                   historyVars>>

SignalKill(t, s) ==
    /\ LockToSend(t, s, "kill", "killSend", "done")
    /\ group' = IF group[t].state # "active"
                THEN [group EXCEPT ![t].cleanupVerified = TRUE] ELSE group
    /\ UNCHANGED <<registryVars, processVars, owner, payload, historyVars>>

SendKill(t, s) ==
    /\ stopper[t][s] = "killSend"
    /\ \E delivered \in SignalResults :
         /\ KillGroup(t, delivered)
         /\ group' = [group EXCEPT ![t].cleanupVerified = @ \/ delivered]
    /\ Unlock(t)
    /\ StopperGoto(t, s, "done")
    /\ UNCHANGED <<registryVars, leader, owner, payload, outcome, cause,
                   shutdownSwept>>

(* kill_unreaped *)
QuietKill(t, s) ==
    /\ LockToSend(t, s, "quiet", "quietSend", "done")
    /\ UNCHANGED <<registryVars, processVars, group, owner, payload, historyVars>>

SendQuietKill(t, s) ==
    /\ stopper[t][s] = "quietSend"
    /\ \E delivered \in SignalResults : KillGroup(t, delivered)
    /\ Unlock(t)
    /\ StopperGoto(t, s, "done")
    /\ UNCHANGED <<registryVars, leader, group, owner, payload, outcome, cause,
                   shutdownSwept>>

----------------------------------------------------------------------------
(* The processes.                                                           *)

Fork(t) ==
    /\ ~group[t].shared
    /\ leader[t] = "running" /\ ~doomed[t] /\ ~members[t]
    /\ members' = [members EXCEPT ![t] = TRUE]
    /\ UNCHANGED <<registryVars, leader, doomed, groupVars, threadVars, historyVars>>

Exit(t) ==
    /\ leader[t] = "running"
    /\ leader' = [leader EXCEPT ![t] = "exited"]
    /\ UNCHANGED <<registryVars, doomed, members, groupVars, threadVars, historyVars>>

----------------------------------------------------------------------------
StartStep(t) ==
    \/ Admit(t) \/ RefuseStart(t) \/ Start(t) \/ Recheck(t) \/ Spawn(t)
    \/ PublishGroup(t) \/ SpawnWatchdog(t) \/ SpawnWaiter(t)
    \/ DropForce(t) \/ DropWait(t) \/ DropClaim(t) \/ DropRemove(t)

WaiterStep(t) ==
    \/ PollForce(t) \/ ObserveExit(t) \/ NoteOwnOutcome(t) \/ DrainPumps(t)
    \/ ErrorForce(t) \/ ReapBounded(t)
    \/ Cleanup(t) \/ BeginReaping(t) \/ ReapChild(t) \/ SettleGroup(t)
    \/ CaptureCompletion(t) \/ CompleteSettled(t) \/ Emitted(t)

StopperStep(t, s) ==
    \/ SignalTerm(t, s) \/ SendTerm(t, s) \/ GraceEnds(t, s) \/ RequestForce(t, s)
    \/ SignalKill(t, s) \/ SendKill(t, s)
    \/ QuietKill(t, s) \/ SendQuietKill(t, s)

RequestStep(t) ==
    \/ RecordPendingStop(t) \/ ForgetPendingStop(t) \/ StopOwned(t)
    \/ ClaimInterrupt(t) \/ ReleaseInterrupt(t)
    \/ WatchdogFires(t)

Next ==
    \/ \E t \in Tasks :
         \/ StartStep(t) \/ WaiterStep(t) \/ WaiterPanic(t) \/ RequestStep(t)
         \/ WatchdogFinishes(t)
         \/ Fork(t) \/ Exit(t)
         \/ \E s \in Stoppers : StopperStep(t, s)
    \/ \E r \in Roots :
         \/ StopForRoot(r)
         \/ StopRevokedTrust(r, "term")
         \/ WorkersFail /\ StopRevokedTrust(r, "force")
    \/ CloseStartAdmission
    \/ ShutdownAll

Spec == Init /\ [][Next]_vars

(* Threads run, and a mutex that is released over and over is obtained in   *)
(* the end: the steps of a start, of a waiter and of a stopper are taken,   *)
(* timeouts included.  A process that was sent SIGKILL ends.  Nothing makes *)
(* an agent finish, a user stop it, or a root be swept.                     *)
Fairness ==
    \A t \in Tasks :
       /\ SF_vars(StartStep(t) /\ owner[t] # "idle")
       /\ SF_vars(WaiterStep(t))
       /\ WF_vars(WatchdogFinishes(t))
       /\ WF_vars(Exit(t) /\ doomed[t])
       /\ \A s \in Stoppers : SF_vars(StopperStep(t, s))

FairSpec == Spec /\ Fairness

----------------------------------------------------------------------------
(* Properties.                                                              *)

(* Every signal that is sent through AgentProcessGroup reaches the group of *)
(* an unreaped leader: `signal` and `kill_unreaped` keep the group's mutex  *)
(* from the read of the state to the send, and `reap` leaves "active"       *)
(* before it reaps.                                                         *)
SignalsAnchored == \A t \in Tasks : "group" \notin strays[t]

(* "The unreaped leader is the identity anchor that makes this group signal *)
(* safe" (reap): no path at all signals the group once its leader is        *)
(* reaped, AgentChild::force_kill included.                                 *)
NoSignalAfterReap == \A t \in Tasks : strays[t] = {}

(* A group that `reap` releases has nobody left in it, whoever killed it    *)
(* and whatever the cleanup_verified flag stood for.                        *)
ReleasedGroupIsEmpty ==
    \A t \in Tasks : group[t].state = "released" => ~members[t]

(* A task that is reported as exited or stopped is gone: its leader is      *)
(* reaped and its group empty.  Only a failure may be reported before that. *)
ReportedExitIsReal ==
    \A t \in Tasks :
       outcome[t] \in {"exited", "stopped"} =>
          leader[t] = "reaped" /\ ~members[t]

(* After the shutdown has swept the registry no start slips through: every  *)
(* process that still runs is being stopped or dropped.                     *)
ShutdownCoversEveryStart ==
    shutdownSwept =>
       \A t \in Tasks :
          /\ Live(t) => entry[t].stopRequested
          /\ leader[t] = "running" => entry[t].stopRequested \/ doomed[t]

(* The place in the admission registry is given back only when the process  *)
(* is gone or has been killed, on every failure path.                       *)
AdmissionOutlivesProcess ==
    \A t \in Tasks :
       leader[t] = "running" /\ t \notin admitted => doomed[t]

(* Who came first decides: a task is reported as stopped by a revocation of *)
(* trust exactly when the revocation reached it before any stop and before  *)
(* its own exit was observed (or the watchdog's verdict overrides it).      *)
RevocationAttribution ==
    \A t \in Tasks :
       /\ outcome[t] = "revoked" => cause[t] = "revoke"
       /\ cause[t] = "revoke" =>
             outcome[t] \in {"none", "revoked", "timeout", "dropped"}

(* A stop that was accepted takes effect: the process ends and the task     *)
(* leaves the running state, although the agent itself may ignore TERM and  *)
(* never finish.                                                            *)
StopTakesEffect ==
    \A t \in Tasks :
       (Live(t) /\ entry[t].stopRequested) ~>
          (~Live(t) /\ leader[t] # "running")

(* A task that the watchdog found over its time gives its admission back:   *)
(* the watchdog gets as far as the KILL, and the waiter as far as the       *)
(* completion, whatever stops and sweeps run beside them.                   *)
TimeoutReleasesAdmission ==
    \A t \in Tasks : entry[t].timedOut ~> t \notin admitted

============================================================================
