----------------------- MODULE AgentTaskSupervisorProofs -----------------------
(****************************************************************************)
(* Proofs about AgentTaskSupervisor for every set of tasks and roots and    *)
(* with any of the failures the code handles.  The inductive invariant is a *)
(* conjunction of layers over the tasks, each of which may use the ones     *)
(* before it: who holds the group's mutex, what anchors a signal, when the  *)
(* group is empty and what a completion may say of it, who holds an         *)
(* admission, what a shutdown leaves, and what first decided the end.       *)
(****************************************************************************)
EXTENDS AgentTaskSupervisor, TLAPS

(* TypeOK in parts.                                                         *)
PayloadOK ==
    payload \in [Tasks -> [what : {"exited", "failed", "dropped"},
                          cleanup : BOOLEAN, broken : BOOLEAN]]

LocksOK ==
    /\ stopper \in [Tasks -> [Stoppers -> StopperSteps]]
    /\ groupLock \in [Tasks -> {"free"} \cup Stoppers]
    /\ \A t \in Tasks, s \in Stoppers :
         groupLock[t] = s <=> stopper[t][s] \in {"termSend", "killSend", "quietSend"}

RestOK ==
    /\ startsClosed \in BOOLEAN
    /\ pendingStops \subseteq Tasks
    /\ leader \in [Tasks -> {"none", "running", "exited", "reaped"}]
    /\ doomed \in [Tasks -> BOOLEAN]
    /\ members \in [Tasks -> BOOLEAN]
    /\ admitted \subseteq Tasks
    /\ outcome \in [Tasks -> {"none", "refused", "dropped", "exited", "stopped",
                              "failed", "timeout", "revoked"}]
    /\ cause \in [Tasks -> {"none", "own", "stop", "revoke"}]
    /\ strays \in [Tasks -> SUBSET {"group", "child"}]
    /\ shutdownSwept \in BOOLEAN

(* Steps of the owner before the child exists, before the watchdog does,    *)
(* and between the observed exit and the reap.                              *)
Unspawned == {"idle", "admitted", "registered", "checked"}
Unwatched == Unspawned \cup {"spawned", "published"}
ExitSeen == {"own", "drain", "cleanup", "begin", "reap"}

(* The user's stop and the watchdog get going once: a stopper that is       *)
(* (re)started is never in the middle of a send, where it holds the mutex.  *)
StartsOnce(t) ==
    /\ owner[t] \in {"idle", "admitted"} =>
          entry[t].phase = "absent" /\ stopper[t]["stop"] = "idle"
    /\ (Live(t) /\ ~entry[t].stopRequested) => stopper[t]["stop"] = "idle"
    /\ owner[t] \in Unwatched => stopper[t]["watchdog"] = "idle"

(* The owner leaves "active" before it reaps, and cannot while a stopper    *)
(* that has found the group active holds the mutex.                         *)
Anchored(t) ==
    /\ owner[t] \in Unspawned => group[t].state = "none" /\ leader[t] = "none"
    /\ group[t].state = "none" => leader[t] = "none"
    /\ groupLock[t] # "free" => group[t].state = "active"
    /\ owner[t] \in ExitSeen => leader[t] = "exited"
    /\ owner[t] \in {"reap", "settle"} => group[t].state \in {"reaping", "shared"}
    /\ owner[t] = "settle" => leader[t] \in {"exited", "reaped"}
    /\ (owner[t] = "settle" /\ ~payload[t].broken) => leader[t] = "reaped"
    /\ payload[t].broken => leader[t] # "reaped"
    /\ group[t].state = "active" => leader[t] # "reaped"
    /\ (leader[t] # "reaped" /\ owner[t] \notin {"reap", "settle"}) =>
          group[t].state \in {"none", "active", "shared"}

(* A group whose cleanup is vouched for, by the flag that a delivered KILL  *)
(* set or by the result the owner carries to the reap, has no members and   *)
(* cannot get any.  A reap that failed once never releases the group.       *)
Vouched(t) ==
    /\ owner[t] \in Unspawned => ~members[t]
    /\ group[t].state = "shared" => group[t].shared
    /\ group[t].shared => ~members[t]
    /\ (group[t].state = "active" /\ group[t].cleanupVerified /\ ~payload[t].broken) =>
          ~members[t] /\ (leader[t] = "running" => doomed[t])
    /\ (owner[t] \in {"begin", "reap", "settle"} /\ payload[t].cleanup
           /\ ~payload[t].broken) => ~members[t]
    /\ group[t].state = "released" => leader[t] = "reaped" /\ ~members[t]

(* The completion says "exited" only after a reap that released the group.  *)
Reported(t) ==
    /\ owner[t] = "bounded" => payload[t].what = "failed"
    /\ (owner[t] \in {"complete", "finish"} /\ payload[t].what # "failed") =>
          leader[t] = "reaped" /\ ~members[t]
    /\ outcome[t] \in {"exited", "stopped"} => leader[t] = "reaped" /\ ~members[t]

(* The owner is past the point where it killed the child or saw its exit.   *)
Ended ==
    {"dropWait", "dropClaim", "dropRemove", "bounded", "cleanup", "begin",
     "reap", "settle", "complete", "finish"}

Admission(t) ==
    /\ owner[t] \in Unspawned \ {"idle"} => t \in admitted
    /\ (owner[t] \in Ended /\ leader[t] = "running") => doomed[t]
    /\ (leader[t] = "running" /\ t \notin admitted) => doomed[t]

(* A task is claimed before it leaves the registry's live entries, and only *)
(* one completion claims it.  A process that nobody has killed is live.     *)
(* Steps at which an unclaimed task need not be live.                       *)
Apart == {"idle", "admitted", "dropClaim", "dropRemove", "finish", "emit", "done"}

Present(t) ==
    /\ owner[t] \in {"registered", "checked"} => Live(t)
    /\ (owner[t] \notin Apart /\ ~entry[t].claimed) => Live(t)
    /\ owner[t] = "finish" => Live(t)
    /\ owner[t] \in {"finish", "emit"} \/ entry[t].phase = "terminal" => entry[t].claimed
    /\ (leader[t] = "running" /\ ~doomed[t]) => Live(t)

(* The sweep of the shutdown comes after the starts are closed.             *)
Swept ==
    shutdownSwept =>
       startsClosed /\ \A t \in Tasks : Live(t) => entry[t].stopRequested

(* The flags of a live entry tell what came first.                          *)
Blamed(t) ==
    /\ owner[t] \in {"idle", "admitted"} => cause[t] = "none" /\ outcome[t] = "none"
    /\ Live(t) =>
          /\ outcome[t] = "none"
          /\ cause[t] = "revoke" <=> entry[t].authority = "revoked"
          /\ cause[t] = "stop" => entry[t].stopRequested
          /\ cause[t] = "own" => entry[t].authority = "own"
          /\ entry[t].stopRequested \/ entry[t].authority = "own" => cause[t] # "none"
    /\ outcome[t] = "revoked" => cause[t] = "revoke"
    /\ cause[t] = "revoke" => outcome[t] \in {"none", "revoked", "timeout", "dropped"}

(* The inductive invariant.                                                 *)
SupervisorInvariant ==
    /\ TypeOK
    /\ \A t \in Tasks : StartsOnce(t)
    /\ \A t \in Tasks : Anchored(t)
    /\ SignalsAnchored
    /\ \A t \in Tasks : Vouched(t)
    /\ \A t \in Tasks : Reported(t)
    /\ \A t \in Tasks : Admission(t)
    /\ \A t \in Tasks : Present(t)
    /\ Swept
    /\ \A t \in Tasks : Blamed(t)

----------------------------------------------------------------------------
(* What the operators the actions share do.                                 *)

(* A signal is delivered or it is not, in either setting of SignalsFail.    *)
LEMMA SignalResultsBoolean == SignalResults \subseteq BOOLEAN
  BY DEF SignalResults

(* OwnerForceStop and OwnerForceKill on the group: a flag may be raised.    *)
Forced(t, delivered) ==
    group' = [group EXCEPT
      ![t].forceRequested = TRUE,
      ![t].cleanupVerified = @ \/ group[t].state # "active" \/ delivered]

(* Forced keeps the type, leaves other groups alone and only adds to what   *)
(* is vouched for.                                                          *)
LEMMA ForcedGroup ==
  ASSUME group \in [Tasks -> GroupState],
         NEW t \in Tasks, NEW delivered \in BOOLEAN, Forced(t, delivered)
  PROVE  /\ group' \in [Tasks -> GroupState]
         /\ \A x \in Tasks \ {t} : group'[x] = group[x]
         /\ group'[t].state = group[t].state
         /\ group'[t].shared = group[t].shared
         /\ group'[t].cleanupVerified <=>
               group[t].cleanupVerified \/ group[t].state # "active" \/ delivered
  BY DEF Forced, GroupState

(* The three ways through DrainPumps.                                       *)
LEMMA DrainPumpsCases ==
  ASSUME NEW t \in Tasks, DrainPumps(t)
  PROVE  \/ /\ Goto(t, "cleanup")
            /\ UNCHANGED <<group, doomed, members, strays, payload>>
         \/ \E delivered \in BOOLEAN :
              /\ OwnerForceStop(t, delivered)
              /\ \/ Goto(t, "cleanup") /\ UNCHANGED payload
                 \/ /\ Goto(t, "bounded")
                    /\ payload' = [payload EXCEPT ![t].what = "failed"]
  BY SignalResultsBoolean DEF DrainPumps

(* The three ways through the first step of a reap: the cleanup is done     *)
(* already, the group is killed, or there is nothing left to kill.          *)
Cleaned(t, cleanup, verified) ==
    /\ payload' = [payload EXCEPT ![t].cleanup = cleanup]
    /\ group' = [group EXCEPT ![t].forceRequested = TRUE,
                              ![t].cleanupVerified = verified]

(* Cleanup as its three ways.                                               *)
LEMMA CleanupCases ==
  ASSUME NEW t \in Tasks, Cleanup(t)
  PROVE  \/ /\ group[t].cleanupVerified
            /\ payload' = [payload EXCEPT ![t].cleanup = TRUE]
            /\ UNCHANGED <<group, doomed, members, strays>>
         \/ /\ group[t].state = "active"
            /\ \E delivered \in BOOLEAN :
                 KillGroup(t, delivered) /\ Cleaned(t, delivered, delivered)
         \/ /\ group[t].state # "active"
            /\ Cleaned(t, TRUE, group[t].state = "shared")
            /\ UNCHANGED <<doomed, members, strays>>
  BY SignalResultsBoolean DEF Cleanup, CleanupResult, Cleaned

(* Cleaned keeps the types and changes one task only.                       *)
LEMMA CleanedUp ==
  ASSUME group \in [Tasks -> GroupState], PayloadOK,
         NEW t \in Tasks, NEW cleanup \in BOOLEAN, NEW verified \in BOOLEAN,
         Cleaned(t, cleanup, verified)
  PROVE  /\ group' \in [Tasks -> GroupState]
         /\ PayloadOK'
         /\ \A x \in Tasks \ {t} : group'[x] = group[x] /\ payload'[x] = payload[x]
         /\ group'[t].state = group[t].state
         /\ group'[t].shared = group[t].shared
         /\ group'[t].cleanupVerified = verified
         /\ payload'[t].cleanup = cleanup
         /\ payload'[t].broken = payload[t].broken
         /\ payload'[t].what = payload[t].what
  <1> DEFINE g == [group[t] EXCEPT !.forceRequested = TRUE, !.cleanupVerified = verified]
             p == [payload[t] EXCEPT !.cleanup = cleanup]
  <1>1. /\ group' = [group EXCEPT ![t] = g]
        /\ payload' = [payload EXCEPT ![t] = p]
    BY DEF Cleaned
  <1>2. /\ g \in GroupState
        /\ g.state = group[t].state /\ g.shared = group[t].shared
        /\ g.cleanupVerified = verified
    BY DEF GroupState
  <1>3. /\ p \in [what : {"exited", "failed", "dropped"},
                 cleanup : BOOLEAN, broken : BOOLEAN]
        /\ p.cleanup = cleanup /\ p.broken = payload[t].broken
        /\ p.what = payload[t].what
    BY DEF PayloadOK
  <1> HIDE DEF g, p
  <1> QED BY <1>1, <1>2, <1>3 DEF PayloadOK

(* A sweep claims its targets, and starts where the last one has ended.     *)
LEMMA Claimed ==
  ASSUME entry \in [Tasks -> EntryState], NEW S, ClaimTargets(S)
  PROVE  entry' \in [Tasks -> EntryState]
  <1>1. ASSUME NEW t \in Tasks
        PROVE  [entry[t] EXCEPT !.stopRequested = TRUE] \in EntryState
    BY DEF EntryState
  <1> QED BY <1>1 DEF ClaimTargets

SweepStarts(x) ==
    \/ stopper'[x] = stopper[x]
    \/ /\ stopper[x]["sweep"] \in {"idle", "done"}
       /\ \E p \in {"term", "force", "quiet"} :
             stopper'[x] = [stopper[x] EXCEPT !["sweep"] = p]

(* A sweep is never restarted in the middle of a send, so it disturbs no    *)
(* holder of the mutex.                                                     *)
LEMMA SweptLocks ==
  ASSUME LocksOK, stopper' = [x \in Tasks |-> stopper'[x]],
         \A x \in Tasks : SweepStarts(x), UNCHANGED groupLock
  PROVE  LocksOK'
  <1>1. ASSUME NEW x \in Tasks
        PROVE  /\ stopper'[x] \in [Stoppers -> StopperSteps]
               /\ \A s \in Stoppers :
                    groupLock[x] = s <=> stopper'[x][s] \in {"termSend", "killSend", "quietSend"}
    BY DEF LocksOK, SweepStarts, Stoppers, StopperSteps
  <1> QED BY <1>1 DEF LocksOK

(* Goto moves one owner.                                                    *)
LEMMA GotoTask ==
  ASSUME owner \in [Tasks -> OwnerSteps], NEW t \in Tasks, NEW step, Goto(t, step)
  PROVE  owner'[t] = step /\ \A x \in Tasks \ {t} : owner'[x] = owner[x]
  BY DEF Goto

(* What PublishGroup and the two kinds of sweep do to the entries.          *)
LEMMA PublishedEntry ==
  ASSUME entry \in [Tasks -> EntryState], NEW t \in Tasks, PublishGroup(t), NEW x \in Tasks
  PROVE  /\ entry'[x].phase = entry[x].phase
         /\ entry'[x].stopRequested = entry[x].stopRequested
         /\ entry'[x].authority = entry[x].authority
         /\ entry'[x].claimed = entry[x].claimed
  <1>1. entry' = [entry EXCEPT ![t].group = TRUE] \/ UNCHANGED entry
    BY DEF PublishGroup
  <1>2. ASSUME entry' = [entry EXCEPT ![t].group = TRUE]
        PROVE  /\ entry'[x].phase = entry[x].phase
               /\ entry'[x].stopRequested = entry[x].stopRequested
               /\ entry'[x].authority = entry[x].authority
               /\ entry'[x].claimed = entry[x].claimed
    BY <1>2 DEF EntryState
  <1> QED BY <1>1, <1>2

(* ClaimTargets only sets stopRequested, on its targets.                    *)
LEMMA ClaimedEntry ==
  ASSUME entry \in [Tasks -> EntryState], NEW S, ClaimTargets(S), NEW x \in Tasks
  PROVE  /\ x \notin S => entry'[x] = entry[x]
         /\ x \in S => /\ entry'[x].phase = entry[x].phase
                       /\ entry'[x].authority = entry[x].authority
                       /\ entry'[x].claimed = entry[x].claimed
                       /\ entry'[x].stopRequested
  <1>1. entry'[x] = IF x \in S THEN [entry[x] EXCEPT !.stopRequested = TRUE] ELSE entry[x]
    BY DEF ClaimTargets
  <1>2. entry[x] \in EntryState
    OBVIOUS
  <1> QED BY <1>1, <1>2 DEF EntryState

(* A revocation attributes what has no own outcome, and keeps the rest.     *)
LEMMA RevokedEntry ==
  ASSUME entry \in [Tasks -> EntryState],
         NEW r \in Roots, NEW step \in {"term", "force"}, StopRevokedTrust(r, step),
         NEW x \in Tasks
  PROVE  /\ entry'[x].phase = entry[x].phase
         /\ entry'[x].claimed = entry[x].claimed
         /\ \/ /\ entry'[x].stopRequested = entry[x].stopRequested
               /\ entry'[x].authority = entry[x].authority
               /\ cause'[x] = cause[x]
            \/ /\ Live(x) /\ entry[x].authority # "own"
               /\ entry'[x].stopRequested
               /\ entry'[x].authority = Attributed(entry[x])
               /\ cause'[x] = IF cause[x] = "none" THEN "revoke" ELSE cause[x]
  <1>1. entry[x] \in EntryState
    OBVIOUS
  <1>2. \/ entry'[x] = entry[x] /\ cause'[x] = cause[x]
        \/ /\ entry[x].phase \notin {"absent", "terminal"} /\ entry[x].authority # "own"
           /\ entry'[x] = [entry[x] EXCEPT !.stopRequested = TRUE,
                                           !.authority = Attributed(entry[x])]
           /\ cause'[x] = IF cause[x] = "none" THEN "revoke" ELSE cause[x]
    BY DEF StopRevokedTrust, KeepsOwnOutcome, Blame
  <1> QED BY <1>1, <1>2 DEF EntryState, Live

----------------------------------------------------------------------------
(* Types, one lemma for each variable whose type is not obvious.            *)

(* The program counter of the thread that owns the child.                   *)
LEMMA OwnerStep ==
  ASSUME owner \in [Tasks -> OwnerSteps],
         [Next]_vars
  PROVE  owner' \in [Tasks -> OwnerSteps]
  <1> DEFINE Goal == owner' \in [Tasks -> OwnerSteps]
  <1> SUFFICES Goal
    OBVIOUS
  <1>0. ASSUME UNCHANGED owner PROVE Goal
    BY <1>0 DEF OwnerSteps
  <1>1. ASSUME NEW t \in Tasks, Admit(t) PROVE Goal
    BY <1>1 DEF Admit, Goto, OwnerSteps
  <1>2. ASSUME NEW t \in Tasks, RefuseStart(t) PROVE Goal
    BY <1>2 DEF RefuseStart, Goto, OwnerSteps
  <1>3. ASSUME NEW t \in Tasks, Start(t) PROVE Goal
    BY <1>3 DEF Start, Goto, OwnerSteps
  <1>4. ASSUME NEW t \in Tasks, Recheck(t) PROVE Goal
    BY <1>4 DEF Recheck, Goto, OwnerSteps
  <1>5. ASSUME NEW t \in Tasks, Spawn(t) PROVE Goal
    BY <1>5 DEF Spawn, Goto, OwnerSteps
  <1>6. ASSUME NEW t \in Tasks, PublishGroup(t) PROVE Goal
    BY <1>6 DEF PublishGroup, Goto, AfterPublish, OwnerSteps
  <1>7. ASSUME NEW t \in Tasks, SpawnWatchdog(t) PROVE Goal
    BY <1>7 DEF SpawnWatchdog, Goto, OwnerSteps
  <1>8. ASSUME NEW t \in Tasks, SpawnWaiter(t) PROVE Goal
    BY <1>8 DEF SpawnWaiter, Goto, OwnerSteps
  <1>9. ASSUME NEW t \in Tasks, DropForce(t) PROVE Goal
    BY <1>9, SignalResultsBoolean DEF DropForce, Goto, OwnerSteps
  <1>10. ASSUME NEW t \in Tasks, DropWait(t) PROVE Goal
    BY <1>10 DEF DropWait, Goto, OwnerSteps
  <1>11. ASSUME NEW t \in Tasks, DropClaim(t) PROVE Goal
    BY <1>11 DEF DropClaim, Goto, OwnerSteps
  <1>12. ASSUME NEW t \in Tasks, DropRemove(t) PROVE Goal
    BY <1>12 DEF DropRemove, Goto, OwnerSteps
  <1>13. ASSUME NEW t \in Tasks, ObserveExit(t) PROVE Goal
    BY <1>13 DEF ObserveExit, Goto, OwnerSteps
  <1>14. ASSUME NEW t \in Tasks, NoteOwnOutcome(t) PROVE Goal
    BY <1>14 DEF NoteOwnOutcome, Goto, OwnerSteps
  <1>15. ASSUME NEW t \in Tasks, DrainPumps(t) PROVE Goal
    BY <1>15, SignalResultsBoolean DEF DrainPumps, Goto, OwnerSteps
  <1>16. ASSUME NEW t \in Tasks, ErrorForce(t) PROVE Goal
    BY <1>16, SignalResultsBoolean DEF ErrorForce, Goto, OwnerSteps
  <1>17. ASSUME NEW t \in Tasks, ReapBounded(t) PROVE Goal
    BY <1>17 DEF ReapBounded, Goto, OwnerSteps
  <1>18. ASSUME NEW t \in Tasks, Cleanup(t) PROVE Goal
    BY <1>18, SignalResultsBoolean DEF Cleanup, Goto, OwnerSteps
  <1>19. ASSUME NEW t \in Tasks, BeginReaping(t) PROVE Goal
    BY <1>19 DEF BeginReaping, Goto, OwnerSteps
  <1>20. ASSUME NEW t \in Tasks, ReapChild(t) PROVE Goal
    BY <1>20 DEF ReapChild, Goto, OwnerSteps
  <1>21. ASSUME NEW t \in Tasks, SettleGroup(t) PROVE Goal
    BY <1>21 DEF SettleGroup, Goto, AfterReap, OwnerSteps
  <1>22. ASSUME NEW t \in Tasks, CaptureCompletion(t) PROVE Goal
    BY <1>22 DEF CaptureCompletion, Goto, OwnerSteps
  <1>23. ASSUME NEW t \in Tasks, CompleteSettled(t) PROVE Goal
    BY <1>23 DEF CompleteSettled, Goto, OwnerSteps
  <1>24. ASSUME NEW t \in Tasks, Emitted(t) PROVE Goal
    BY <1>24 DEF Emitted, Goto, OwnerSteps
  <1>25. ASSUME NEW t \in Tasks, WaiterPanic(t) PROVE Goal
    BY <1>25 DEF WaiterPanic, Goto, OwnerSteps
  <1>26. ASSUME NEW t \in Tasks,
                \/ PollForce(t) \/ RecordPendingStop(t) \/ ForgetPendingStop(t)
                \/ StopOwned(t) \/ ClaimInterrupt(t) \/ ReleaseInterrupt(t)
                \/ WatchdogFires(t) \/ WatchdogFinishes(t) \/ Fork(t) \/ Exit(t)
         PROVE  UNCHANGED owner
    BY <1>26 DEF PollForce, threadVars, RecordPendingStop, ForgetPendingStop,
         StopOwned, ClaimInterrupt, ReleaseInterrupt, WatchdogFires,
         WatchdogFinishes, Fork, Exit
  <1>27. ASSUME NEW t \in Tasks, NEW s \in Stoppers,
                \/ SignalTerm(t, s) \/ SendTerm(t, s) \/ GraceEnds(t, s)
                \/ RequestForce(t, s) \/ SignalKill(t, s) \/ SendKill(t, s)
                \/ QuietKill(t, s) \/ SendQuietKill(t, s)
         PROVE  UNCHANGED owner
    BY <1>27 DEF SignalTerm, LockToSend, SendTerm, GraceEnds, RequestForce,
         SignalKill, SendKill, QuietKill, SendQuietKill
  <1>28. ASSUME NEW r \in Roots, NEW step \in {"term", "force"},
                \/ StopForRoot(r) \/ StopRevokedTrust(r, step)
         PROVE  UNCHANGED owner
    BY <1>28 DEF StopForRoot, StopRevokedTrust
  <1>29. ASSUME CloseStartAdmission \/ ShutdownAll PROVE UNCHANGED owner
    BY <1>29 DEF CloseStartAdmission, threadVars, ShutdownAll
  <1>30. ASSUME UNCHANGED vars PROVE UNCHANGED owner
    BY <1>30 DEF vars, threadVars
  <1> HIDE DEF Goal
  <1>31. ASSUME NEW t \in Tasks, StartStep(t) PROVE Goal
    BY <1>0, <1>1, <1>2, <1>3, <1>4, <1>5, <1>6, <1>7, <1>8, <1>9, <1>10, <1>11,
         <1>12, <1>31 DEF StartStep
  <1>32. ASSUME NEW t \in Tasks, WaiterStep(t) \/ WaiterPanic(t) PROVE Goal
    BY <1>0, <1>13, <1>14, <1>15, <1>16, <1>17, <1>18, <1>19, <1>20, <1>21,
         <1>22, <1>23, <1>24, <1>25, <1>26, <1>32 DEF WaiterStep
  <1>33. ASSUME NEW t \in Tasks,
                \/ RequestStep(t) \/ WatchdogFinishes(t) \/ Fork(t) \/ Exit(t)
         PROVE  Goal
    BY <1>0, <1>26, <1>33 DEF RequestStep
  <1>34. ASSUME NEW t \in Tasks, NEW s \in Stoppers, StopperStep(t, s)
         PROVE  Goal
    BY <1>0, <1>27, <1>34 DEF StopperStep
  <1>35. ASSUME NEW r \in Roots,
                \/ StopForRoot(r) \/ StopRevokedTrust(r, "term")
                \/ StopRevokedTrust(r, "force")
         PROVE  Goal
    BY <1>0, <1>28, <1>35
  <1> QED BY <1>0, <1>29, <1>30, <1>31, <1>32, <1>33, <1>34, <1>35 DEF Next

(* The flags of the registry entry.                                         *)
LEMMA EntryStep ==
  ASSUME entry \in [Tasks -> EntryState],
         [Next]_vars
  PROVE  entry' \in [Tasks -> EntryState]
  <1> DEFINE Goal == entry' \in [Tasks -> EntryState]
  <1> SUFFICES Goal
    OBVIOUS
  <1>0. ASSUME UNCHANGED entry PROVE Goal
    BY <1>0
  <1>1. ASSUME NEW t \in Tasks, Start(t) PROVE Goal
    BY <1>1 DEF Start, NoEntry, EntryState
  <1>2. ASSUME NEW t \in Tasks, PublishGroup(t) PROVE Goal
    <2>1. \/ entry' = [entry EXCEPT ![t].group = TRUE]
          \/ UNCHANGED entry
      BY <1>2 DEF PublishGroup
    <2>2. [entry[t] EXCEPT !.group = TRUE] \in EntryState
      BY DEF EntryState
    <2> QED BY <2>1, <2>2
  <1>3. ASSUME NEW t \in Tasks, DropForce(t) PROVE Goal
    <2>1. entry' = [entry EXCEPT ![t].watchdogDone = TRUE]
      BY <1>3 DEF DropForce
    <2>2. [entry[t] EXCEPT !.watchdogDone = TRUE] \in EntryState
      BY DEF EntryState
    <2> QED BY <2>1, <2>2
  <1>4. ASSUME NEW t \in Tasks, DropClaim(t) PROVE Goal
    <2>1. entry' = [entry EXCEPT ![t].claimed = TRUE, ![t].watchdogDone = TRUE]
      BY <1>4 DEF DropClaim
    <2>2. [entry[t] EXCEPT !.claimed = TRUE, !.watchdogDone = TRUE] \in EntryState
      BY DEF EntryState
    <2> QED BY <2>1, <2>2
  <1>5. ASSUME NEW t \in Tasks, DropRemove(t) PROVE Goal
    BY <1>5 DEF DropRemove, NoEntry, EntryState
  <1>6. ASSUME NEW t \in Tasks, NoteOwnOutcome(t) PROVE Goal
    BY <1>6 DEF NoteOwnOutcome, Noted, EntryState
  <1>7. ASSUME NEW t \in Tasks, CaptureCompletion(t) PROVE Goal
    <2>1. entry' = [entry EXCEPT ![t].claimed = TRUE]
      BY <1>7 DEF CaptureCompletion
    <2>2. [entry[t] EXCEPT !.claimed = TRUE] \in EntryState
      BY DEF EntryState
    <2> QED BY <2>1, <2>2
  <1>8. ASSUME NEW t \in Tasks, CompleteSettled(t) PROVE Goal
    <2>1. entry' = [entry EXCEPT ![t].phase = "terminal", ![t].watchdogDone = TRUE]
      BY <1>8 DEF CompleteSettled
    <2>2. [entry[t] EXCEPT !.phase = "terminal", !.watchdogDone = TRUE] \in EntryState
      BY DEF EntryState
    <2> QED BY <2>1, <2>2
  <1>9. ASSUME NEW t \in Tasks, StopOwned(t) PROVE Goal
    <2>1. entry' = [entry EXCEPT ![t].stopRequested = TRUE]
      BY <1>9 DEF StopOwned
    <2>2. [entry[t] EXCEPT !.stopRequested = TRUE] \in EntryState
      BY DEF EntryState
    <2> QED BY <2>1, <2>2
  <1>10. ASSUME NEW t \in Tasks, ClaimInterrupt(t) PROVE Goal
    <2>1. entry' = [entry EXCEPT ![t].interrupted = TRUE]
      BY <1>10 DEF ClaimInterrupt
    <2>2. [entry[t] EXCEPT !.interrupted = TRUE] \in EntryState
      BY DEF EntryState
    <2> QED BY <2>1, <2>2
  <1>11. ASSUME NEW t \in Tasks, ReleaseInterrupt(t) PROVE Goal
    <2>1. entry' = [entry EXCEPT ![t].interrupted = FALSE]
      BY <1>11 DEF ReleaseInterrupt
    <2>2. [entry[t] EXCEPT !.interrupted = FALSE] \in EntryState
      BY DEF EntryState
    <2> QED BY <2>1, <2>2
  <1>12. ASSUME NEW t \in Tasks, WatchdogFires(t) PROVE Goal
    <2>1. entry' = [entry EXCEPT ![t].timedOut = TRUE]
      BY <1>12 DEF WatchdogFires
    <2>2. [entry[t] EXCEPT !.timedOut = TRUE] \in EntryState
      BY DEF EntryState
    <2> QED BY <2>1, <2>2
  <1>13. ASSUME NEW r \in Roots, StopForRoot(r) PROVE Goal
    BY <1>13, Claimed DEF StopForRoot
  <1>14. ASSUME NEW r \in Roots, NEW step \in {"term", "force"},
                StopRevokedTrust(r, step)
         PROVE  Goal
    <2>1. entry' = [x \in Tasks |-> entry'[x]]
      BY <1>14 DEF StopRevokedTrust
    <2>2. ASSUME NEW x \in Tasks PROVE entry'[x] \in EntryState
      <3>1. entry[x] \in EntryState
        OBVIOUS
      <3>2. \/ entry'[x] = entry[x]
            \/ entry'[x] = [entry[x] EXCEPT !.stopRequested = TRUE,
                                            !.authority = Attributed(entry[x])]
        BY <1>14 DEF StopRevokedTrust
      <3> QED BY <3>1, <3>2 DEF EntryState, Attributed
    <2> HIDE DEF Goal
    <2>3. entry' \in [Tasks -> EntryState]
      BY <2>1, <2>2
    <2> QED BY <2>3 DEF Goal
  <1>15. ASSUME ShutdownAll PROVE Goal
    BY <1>15, Claimed DEF ShutdownAll
  <1>16. ASSUME NEW t \in Tasks,
                \/ Admit(t) \/ RefuseStart(t) \/ Recheck(t) \/ Spawn(t)
                \/ SpawnWatchdog(t) \/ SpawnWaiter(t) \/ DropWait(t)
                \/ PollForce(t) \/ ObserveExit(t) \/ DrainPumps(t)
                \/ ErrorForce(t) \/ ReapBounded(t) \/ Cleanup(t)
                \/ BeginReaping(t) \/ ReapChild(t) \/ SettleGroup(t)
                \/ Emitted(t) \/ WaiterPanic(t) \/ RecordPendingStop(t)
                \/ ForgetPendingStop(t) \/ WatchdogFinishes(t) \/ Fork(t)
                \/ Exit(t)
         PROVE  UNCHANGED entry
    BY <1>16 DEF Admit, RefuseStart, Recheck, registryVars, Spawn,
         SpawnWatchdog, SpawnWaiter, DropWait, PollForce, ObserveExit,
         DrainPumps, OwnerForceStop, ErrorForce, OwnerForceKill, ReapBounded,
         Cleanup, BeginReaping, ReapChild, SettleGroup, Emitted, WaiterPanic,
         RecordPendingStop, ForgetPendingStop, WatchdogFinishes, Fork, Exit
  <1>17. ASSUME NEW t \in Tasks, NEW s \in Stoppers,
                \/ SignalTerm(t, s) \/ SendTerm(t, s) \/ GraceEnds(t, s)
                \/ RequestForce(t, s) \/ SignalKill(t, s) \/ SendKill(t, s)
                \/ QuietKill(t, s) \/ SendQuietKill(t, s)
         PROVE  UNCHANGED entry
    BY <1>17 DEF SignalTerm, LockToSend, registryVars, SendTerm, GraceEnds,
         RequestForce, SignalKill, SendKill, QuietKill, SendQuietKill
  <1>18. ASSUME CloseStartAdmission PROVE UNCHANGED entry
    BY <1>18 DEF CloseStartAdmission
  <1>19. ASSUME UNCHANGED vars PROVE UNCHANGED entry
    BY <1>19 DEF vars, registryVars
  <1> HIDE DEF Goal
  <1>20. ASSUME NEW t \in Tasks, StartStep(t) PROVE Goal
    BY <1>0, <1>1, <1>2, <1>3, <1>4, <1>5, <1>16, <1>20 DEF StartStep
  <1>21. ASSUME NEW t \in Tasks, WaiterStep(t) \/ WaiterPanic(t) PROVE Goal
    BY <1>0, <1>6, <1>7, <1>8, <1>16, <1>21 DEF WaiterStep
  <1>22. ASSUME NEW t \in Tasks,
                \/ RequestStep(t) \/ WatchdogFinishes(t) \/ Fork(t) \/ Exit(t)
         PROVE  Goal
    BY <1>0, <1>9, <1>10, <1>11, <1>12, <1>16, <1>22 DEF RequestStep
  <1>23. ASSUME NEW t \in Tasks, NEW s \in Stoppers, StopperStep(t, s)
         PROVE  Goal
    BY <1>0, <1>17, <1>23 DEF StopperStep
  <1>24. ASSUME NEW r \in Roots,
                \/ StopForRoot(r) \/ StopRevokedTrust(r, "term")
                \/ StopRevokedTrust(r, "force")
         PROVE  Goal
    BY <1>0, <1>13, <1>14, <1>24
  <1> QED BY <1>0, <1>15, <1>18, <1>19, <1>20, <1>21, <1>22, <1>23, <1>24 DEF
       Next

(* The state and the flags of the process group.                            *)
LEMMA GroupStep ==
  ASSUME group \in [Tasks -> GroupState],
         [Next]_vars
  PROVE  group' \in [Tasks -> GroupState]
  <1> DEFINE Goal == group' \in [Tasks -> GroupState]
  <1> SUFFICES Goal
    OBVIOUS
  <1>0. ASSUME UNCHANGED group PROVE Goal
    BY <1>0
  <1>1. ASSUME NEW t \in Tasks, Spawn(t) PROVE Goal
    <2>1. \/ UNCHANGED group
          \/ \E shared \in BOOLEAN : group' = [group EXCEPT ![t] = GroupFor(shared)]
      BY <1>1, FlagsAssumption DEF Spawn
    <2>2. ASSUME NEW shared \in BOOLEAN, group' = [group EXCEPT ![t] = GroupFor(shared)]
          PROVE  Goal
      BY <2>2 DEF GroupFor, GroupState
    <2> QED BY <2>1, <2>2
  <1>2. ASSUME NEW t \in Tasks, DropForce(t) PROVE Goal
    <2>1. PICK delivered \in BOOLEAN : Forced(t, delivered)
      BY <1>2, SignalResultsBoolean DEF DropForce, OwnerForceKill, Forced
    <2> QED BY <2>1, ForcedGroup
  <1>3. ASSUME NEW t \in Tasks, DrainPumps(t) PROVE Goal
    <2>1. UNCHANGED group \/ \E delivered \in BOOLEAN : Forced(t, delivered)
      BY <1>3, DrainPumpsCases DEF OwnerForceStop, Forced
    <2> QED BY <2>1, ForcedGroup
  <1>4. ASSUME NEW t \in Tasks, ErrorForce(t) PROVE Goal
    <2>1. PICK delivered \in BOOLEAN : Forced(t, delivered)
      BY <1>4, SignalResultsBoolean DEF ErrorForce, OwnerForceKill, Forced
    <2> QED BY <2>1, ForcedGroup
  <1>5. ASSUME NEW t \in Tasks, Cleanup(t) PROVE Goal
    <2>1. \/ UNCHANGED group
          \/ \E verified \in BOOLEAN :
                group' = [group EXCEPT ![t].forceRequested = TRUE,
                                       ![t].cleanupVerified = verified]
      BY <1>5, CleanupCases DEF Cleaned
    <2>2. ASSUME NEW verified \in BOOLEAN,
                 group' = [group EXCEPT ![t].forceRequested = TRUE,
                                        ![t].cleanupVerified = verified]
          PROVE  Goal
      BY <2>2 DEF GroupState
    <2> QED BY <2>1, <2>2
  <1>6. ASSUME NEW t \in Tasks, BeginReaping(t) PROVE Goal
    BY <1>6 DEF BeginReaping, BeginState, GroupState
  <1>7. ASSUME NEW t \in Tasks, SettleGroup(t) PROVE Goal
    BY <1>7 DEF SettleGroup, AfterReap, GroupState
  <1>8. ASSUME NEW t \in Tasks, NEW s \in Stoppers, SignalTerm(t, s) PROVE Goal
    BY <1>8 DEF SignalTerm, GroupState
  <1>9. ASSUME NEW t \in Tasks, NEW s \in Stoppers, RequestForce(t, s)
        PROVE  Goal
    BY <1>9 DEF RequestForce, GroupState
  <1>10. ASSUME NEW t \in Tasks, NEW s \in Stoppers, SignalKill(t, s) PROVE Goal
    BY <1>10 DEF SignalKill, GroupState
  <1>11. ASSUME NEW t \in Tasks, NEW s \in Stoppers, SendKill(t, s) PROVE Goal
    BY <1>11, SignalResultsBoolean DEF SendKill, GroupState
  <1>12. ASSUME NEW t \in Tasks,
                \/ Admit(t) \/ RefuseStart(t) \/ Start(t) \/ Recheck(t)
                \/ PublishGroup(t) \/ SpawnWatchdog(t) \/ SpawnWaiter(t)
                \/ DropWait(t) \/ DropClaim(t) \/ DropRemove(t) \/ PollForce(t)
                \/ ObserveExit(t) \/ NoteOwnOutcome(t) \/ ReapBounded(t)
                \/ ReapChild(t) \/ CaptureCompletion(t) \/ CompleteSettled(t)
                \/ Emitted(t) \/ WaiterPanic(t) \/ RecordPendingStop(t)
                \/ ForgetPendingStop(t) \/ StopOwned(t) \/ ClaimInterrupt(t)
                \/ ReleaseInterrupt(t) \/ WatchdogFires(t)
                \/ WatchdogFinishes(t) \/ Fork(t) \/ Exit(t)
         PROVE  UNCHANGED group
    BY <1>12 DEF Admit, groupVars, RefuseStart, Start, Recheck, PublishGroup,
         SpawnWatchdog, SpawnWaiter, DropWait, DropClaim, DropRemove, PollForce,
         ObserveExit, NoteOwnOutcome, ReapBounded, ReapChild, CaptureCompletion,
         CompleteSettled, Emitted, WaiterPanic, RecordPendingStop,
         ForgetPendingStop, StopOwned, ClaimInterrupt, ReleaseInterrupt,
         WatchdogFires, WatchdogFinishes, Fork, Exit
  <1>13. ASSUME NEW t \in Tasks, NEW s \in Stoppers,
                \/ SendTerm(t, s) \/ GraceEnds(t, s) \/ QuietKill(t, s)
                \/ SendQuietKill(t, s)
         PROVE  UNCHANGED group
    BY <1>13 DEF SendTerm, GraceEnds, groupVars, QuietKill, LockToSend,
         SendQuietKill
  <1>14. ASSUME NEW r \in Roots, NEW step \in {"term", "force"},
                \/ StopForRoot(r) \/ StopRevokedTrust(r, step)
         PROVE  UNCHANGED group
    BY <1>14 DEF StopForRoot, groupVars, StopRevokedTrust
  <1>15. ASSUME CloseStartAdmission \/ ShutdownAll PROVE UNCHANGED group
    BY <1>15 DEF CloseStartAdmission, groupVars, ShutdownAll
  <1>16. ASSUME UNCHANGED vars PROVE UNCHANGED group
    BY <1>16 DEF vars, groupVars
  <1> HIDE DEF Goal
  <1>17. ASSUME NEW t \in Tasks, StartStep(t) PROVE Goal
    BY <1>0, <1>1, <1>2, <1>12, <1>17 DEF StartStep
  <1>18. ASSUME NEW t \in Tasks, WaiterStep(t) \/ WaiterPanic(t) PROVE Goal
    BY <1>0, <1>3, <1>4, <1>5, <1>6, <1>7, <1>12, <1>18 DEF WaiterStep
  <1>19. ASSUME NEW t \in Tasks,
                \/ RequestStep(t) \/ WatchdogFinishes(t) \/ Fork(t) \/ Exit(t)
         PROVE  Goal
    BY <1>0, <1>12, <1>19 DEF RequestStep
  <1>20. ASSUME NEW t \in Tasks, NEW s \in Stoppers, StopperStep(t, s)
         PROVE  Goal
    BY <1>0, <1>8, <1>9, <1>10, <1>11, <1>13, <1>20 DEF StopperStep
  <1>21. ASSUME NEW r \in Roots,
                \/ StopForRoot(r) \/ StopRevokedTrust(r, "term")
                \/ StopRevokedTrust(r, "force")
         PROVE  Goal
    BY <1>0, <1>14, <1>21
  <1> QED BY <1>0, <1>15, <1>16, <1>17, <1>18, <1>19, <1>20, <1>21 DEF Next

(* What the owner carries to the completion.                                *)
LEMMA PayloadStep ==
  ASSUME PayloadOK,
         [Next]_vars
  PROVE  PayloadOK'
  <1> DEFINE Goal == PayloadOK'
  <1> SUFFICES Goal
    OBVIOUS
  <1>0. ASSUME UNCHANGED payload PROVE Goal
    BY <1>0 DEF PayloadOK
  <1>1. ASSUME NEW t \in Tasks, DropForce(t) PROVE Goal
    BY <1>1, SignalResultsBoolean DEF DropForce, PayloadOK
  <1>2. ASSUME NEW t \in Tasks, DrainPumps(t) PROVE Goal
    BY <1>2, SignalResultsBoolean DEF DrainPumps, PayloadOK
  <1>3. ASSUME NEW t \in Tasks, ErrorForce(t) PROVE Goal
    BY <1>3, SignalResultsBoolean DEF ErrorForce, PayloadOK
  <1>4. ASSUME NEW t \in Tasks, Cleanup(t) PROVE Goal
    <2>1. \E cleanup \in BOOLEAN : payload' = [payload EXCEPT ![t].cleanup = cleanup]
      BY <1>4, CleanupCases DEF Cleaned
    <2> QED BY <2>1 DEF PayloadOK
  <1>5. ASSUME NEW t \in Tasks, ReapChild(t) PROVE Goal
    BY <1>5 DEF ReapChild, PayloadOK
  <1>6. ASSUME NEW t \in Tasks,
               \/ Admit(t) \/ RefuseStart(t) \/ Start(t) \/ Recheck(t)
               \/ Spawn(t) \/ PublishGroup(t) \/ SpawnWatchdog(t)
               \/ SpawnWaiter(t) \/ DropWait(t) \/ DropClaim(t) \/ DropRemove(t)
               \/ PollForce(t) \/ ObserveExit(t) \/ NoteOwnOutcome(t)
               \/ ReapBounded(t) \/ BeginReaping(t) \/ SettleGroup(t)
               \/ CaptureCompletion(t) \/ CompleteSettled(t) \/ Emitted(t)
               \/ WaiterPanic(t) \/ RecordPendingStop(t) \/ ForgetPendingStop(t)
               \/ StopOwned(t) \/ ClaimInterrupt(t) \/ ReleaseInterrupt(t)
               \/ WatchdogFires(t) \/ WatchdogFinishes(t) \/ Fork(t) \/ Exit(t)
        PROVE  UNCHANGED payload
    BY <1>6 DEF Admit, RefuseStart, Start, Recheck, Spawn, PublishGroup,
         SpawnWatchdog, SpawnWaiter, DropWait, DropClaim, DropRemove, PollForce,
         threadVars, ObserveExit, NoteOwnOutcome, ReapBounded, BeginReaping,
         SettleGroup, CaptureCompletion, CompleteSettled, Emitted, WaiterPanic,
         RecordPendingStop, ForgetPendingStop, StopOwned, ClaimInterrupt,
         ReleaseInterrupt, WatchdogFires, WatchdogFinishes, Fork, Exit
  <1>7. ASSUME NEW t \in Tasks, NEW s \in Stoppers,
               \/ SignalTerm(t, s) \/ SendTerm(t, s) \/ GraceEnds(t, s)
               \/ RequestForce(t, s) \/ SignalKill(t, s) \/ SendKill(t, s)
               \/ QuietKill(t, s) \/ SendQuietKill(t, s)
        PROVE  UNCHANGED payload
    BY <1>7 DEF SignalTerm, LockToSend, SendTerm, GraceEnds, RequestForce,
         SignalKill, SendKill, QuietKill, SendQuietKill
  <1>8. ASSUME NEW r \in Roots, NEW step \in {"term", "force"},
               \/ StopForRoot(r) \/ StopRevokedTrust(r, step)
        PROVE  UNCHANGED payload
    BY <1>8 DEF StopForRoot, StopRevokedTrust
  <1>9. ASSUME CloseStartAdmission \/ ShutdownAll PROVE UNCHANGED payload
    BY <1>9 DEF CloseStartAdmission, threadVars, ShutdownAll
  <1>10. ASSUME UNCHANGED vars PROVE UNCHANGED payload
    BY <1>10 DEF vars, threadVars
  <1> HIDE DEF Goal
  <1>11. ASSUME NEW t \in Tasks, StartStep(t) PROVE Goal
    BY <1>0, <1>1, <1>6, <1>11 DEF StartStep
  <1>12. ASSUME NEW t \in Tasks, WaiterStep(t) \/ WaiterPanic(t) PROVE Goal
    BY <1>0, <1>2, <1>3, <1>4, <1>5, <1>6, <1>12 DEF WaiterStep
  <1>13. ASSUME NEW t \in Tasks,
                \/ RequestStep(t) \/ WatchdogFinishes(t) \/ Fork(t) \/ Exit(t)
         PROVE  Goal
    BY <1>0, <1>6, <1>13 DEF RequestStep
  <1>14. ASSUME NEW t \in Tasks, NEW s \in Stoppers, StopperStep(t, s)
         PROVE  Goal
    BY <1>0, <1>7, <1>14 DEF StopperStep
  <1>15. ASSUME NEW r \in Roots,
                \/ StopForRoot(r) \/ StopRevokedTrust(r, "term")
                \/ StopRevokedTrust(r, "force")
         PROVE  Goal
    BY <1>0, <1>8, <1>15
  <1> QED BY <1>0, <1>9, <1>10, <1>11, <1>12, <1>13, <1>14, <1>15 DEF Next

(* The group mutex is held by exactly the stopper that is about to send: it *)
(* is taken and given back with the steps that enter and leave a send, and no *)
(* stopper is started anew in the middle of one.                            *)
LEMMA LocksStep ==
  ASSUME LocksOK,
         \A t \in Tasks : StartsOnce(t),
         [Next]_vars
  PROVE  LocksOK'
  <1> DEFINE Goal == LocksOK'
  <1> SUFFICES Goal
    OBVIOUS
  <1>0. ASSUME UNCHANGED <<stopper, groupLock>> PROVE Goal
    BY <1>0 DEF LocksOK, StartsOnce, Live
  <1>1. ASSUME NEW t \in Tasks, SpawnWatchdog(t) PROVE Goal
    BY <1>1 DEF SpawnWatchdog, StopperGoto, groupVars, LocksOK, Stoppers,
         StopperSteps, StartsOnce, Live, Unwatched, Unspawned
  <1>2. ASSUME NEW t \in Tasks, StopOwned(t) PROVE Goal
    BY <1>2 DEF StopOwned, Live, StopperGoto, groupVars, LocksOK, Stoppers,
         StopperSteps, StartsOnce
  <1>3. ASSUME NEW t \in Tasks, WatchdogFires(t) PROVE Goal
    BY <1>3 DEF WatchdogFires, Live, StopperGoto, groupVars, LocksOK, Stoppers,
         StopperSteps, StartsOnce
  <1>4. ASSUME NEW t \in Tasks, WatchdogFinishes(t) PROVE Goal
    BY <1>4 DEF WatchdogFinishes, Live, StopperGoto, groupVars, LocksOK,
         Stoppers, StopperSteps, StartsOnce
  <1>5. ASSUME NEW t \in Tasks, NEW s \in Stoppers, SignalTerm(t, s) PROVE Goal
    BY <1>5 DEF SignalTerm, LockToSend, LockFree, StopperGoto, LocksOK,
         Stoppers, StopperSteps, StartsOnce, Live
  <1>6. ASSUME NEW t \in Tasks, NEW s \in Stoppers, SendTerm(t, s) PROVE Goal
    BY <1>6 DEF SendTerm, Unlock, StopperGoto, LocksOK, Stoppers, StopperSteps,
         StartsOnce, Live
  <1>7. ASSUME NEW t \in Tasks, NEW s \in Stoppers, GraceEnds(t, s) PROVE Goal
    BY <1>7 DEF GraceEnds, AfterGrace, StopperGoto, groupVars, LocksOK,
         Stoppers, StopperSteps, StartsOnce, Live
  <1>8. ASSUME NEW t \in Tasks, NEW s \in Stoppers, RequestForce(t, s)
        PROVE  Goal
    BY <1>8 DEF RequestForce, StopperGoto, LocksOK, Stoppers, StopperSteps,
         StartsOnce, Live
  <1>9. ASSUME NEW t \in Tasks, NEW s \in Stoppers, SignalKill(t, s) PROVE Goal
    BY <1>9 DEF SignalKill, LockToSend, LockFree, StopperGoto, LocksOK,
         Stoppers, StopperSteps, StartsOnce, Live
  <1>10. ASSUME NEW t \in Tasks, NEW s \in Stoppers, SendKill(t, s) PROVE Goal
    BY <1>10, SignalResultsBoolean DEF SendKill, Unlock, StopperGoto, LocksOK,
         Stoppers, StopperSteps, StartsOnce, Live
  <1>11. ASSUME NEW t \in Tasks, NEW s \in Stoppers, QuietKill(t, s) PROVE Goal
    BY <1>11 DEF QuietKill, LockToSend, LockFree, StopperGoto, LocksOK,
         Stoppers, StopperSteps, StartsOnce, Live
  <1>12. ASSUME NEW t \in Tasks, NEW s \in Stoppers, SendQuietKill(t, s)
         PROVE  Goal
    BY <1>12, SignalResultsBoolean DEF SendQuietKill, Unlock, StopperGoto,
         LocksOK, Stoppers, StopperSteps, StartsOnce, Live
  <1>13. ASSUME NEW r \in Roots, StopForRoot(r) PROVE Goal
    BY <1>13 DEF StopForRoot, SweepFree, SweepInto, groupVars, Live, LocksOK,
         Stoppers, StopperSteps, StartsOnce
  <1>14. ASSUME NEW r \in Roots, NEW step \in {"term", "force"},
                StopRevokedTrust(r, step)
         PROVE  Goal
    <2>1. stopper' = [x \in Tasks |-> stopper'[x]] /\ UNCHANGED groupLock
      BY <1>14 DEF StopRevokedTrust, groupVars
    <2>2. ASSUME NEW x \in Tasks PROVE SweepStarts(x)
      BY <1>14 DEF StopRevokedTrust, SweepFree, SweepStarts
    <2> QED BY <2>1, <2>2, SweptLocks
  <1>15. ASSUME ShutdownAll PROVE Goal
    BY <1>15 DEF ShutdownAll, Live, SweepFree, SweepInto, groupVars, LocksOK,
         Stoppers, StopperSteps, StartsOnce
  <1>16. ASSUME NEW t \in Tasks,
                \/ Admit(t) \/ RefuseStart(t) \/ Start(t) \/ Recheck(t)
                \/ Spawn(t) \/ PublishGroup(t) \/ SpawnWaiter(t) \/ DropForce(t)
                \/ DropWait(t) \/ DropClaim(t) \/ DropRemove(t) \/ PollForce(t)
                \/ ObserveExit(t) \/ NoteOwnOutcome(t) \/ DrainPumps(t)
                \/ ErrorForce(t) \/ ReapBounded(t) \/ Cleanup(t)
                \/ BeginReaping(t) \/ ReapChild(t) \/ SettleGroup(t)
                \/ CaptureCompletion(t) \/ CompleteSettled(t) \/ Emitted(t)
                \/ WaiterPanic(t) \/ RecordPendingStop(t)
                \/ ForgetPendingStop(t) \/ ClaimInterrupt(t)
                \/ ReleaseInterrupt(t) \/ Fork(t) \/ Exit(t)
         PROVE  UNCHANGED <<stopper, groupLock>>
    BY <1>16 DEF Admit, groupVars, RefuseStart, Start, Recheck, Spawn,
         PublishGroup, SpawnWaiter, DropForce, OwnerForceKill, DropWait,
         DropClaim, DropRemove, PollForce, threadVars, ObserveExit,
         NoteOwnOutcome, DrainPumps, OwnerForceStop, ErrorForce, ReapBounded,
         Cleanup, BeginReaping, ReapChild, SettleGroup, CaptureCompletion,
         CompleteSettled, Emitted, WaiterPanic, RecordPendingStop,
         ForgetPendingStop, ClaimInterrupt, ReleaseInterrupt, Fork, Exit
  <1>17. ASSUME CloseStartAdmission PROVE UNCHANGED <<stopper, groupLock>>
    BY <1>17 DEF CloseStartAdmission, groupVars, threadVars
  <1>18. ASSUME UNCHANGED vars PROVE UNCHANGED <<stopper, groupLock>>
    BY <1>18 DEF vars, groupVars, threadVars
  <1> HIDE DEF Goal
  <1>19. ASSUME NEW t \in Tasks, StartStep(t) PROVE Goal
    BY <1>0, <1>1, <1>16, <1>19 DEF StartStep
  <1>20. ASSUME NEW t \in Tasks, WaiterStep(t) \/ WaiterPanic(t) PROVE Goal
    BY <1>0, <1>16, <1>20 DEF WaiterStep
  <1>21. ASSUME NEW t \in Tasks,
                \/ RequestStep(t) \/ WatchdogFinishes(t) \/ Fork(t) \/ Exit(t)
         PROVE  Goal
    BY <1>0, <1>2, <1>3, <1>4, <1>16, <1>21 DEF RequestStep
  <1>22. ASSUME NEW t \in Tasks, NEW s \in Stoppers, StopperStep(t, s)
         PROVE  Goal
    BY <1>0, <1>5, <1>6, <1>7, <1>8, <1>9, <1>10, <1>11, <1>12, <1>22 DEF
         StopperStep
  <1>23. ASSUME NEW r \in Roots,
                \/ StopForRoot(r) \/ StopRevokedTrust(r, "term")
                \/ StopRevokedTrust(r, "force")
         PROVE  Goal
    BY <1>0, <1>13, <1>14, <1>23
  <1> QED BY <1>0, <1>15, <1>17, <1>18, <1>19, <1>20, <1>21, <1>22, <1>23 DEF
       Next

(* The variables whose types are obvious.                                   *)
LEMMA RestStep ==
  ASSUME RestOK,
         [Next]_vars
  PROVE  RestOK'
  <1> DEFINE Goal == RestOK'
  <1> SUFFICES Goal
    OBVIOUS
  <1>0. ASSUME UNCHANGED <<startsClosed, pendingStops, leader, doomed, members,
                           admitted, outcome, cause, strays, shutdownSwept>>
        PROVE  Goal
    BY <1>0 DEF RestOK
  <1>1. ASSUME NEW t \in Tasks, Admit(t) PROVE Goal
    BY <1>1 DEF Admit, processVars, historyVars, RestOK
  <1>2. ASSUME NEW t \in Tasks, RefuseStart(t) PROVE Goal
    BY <1>2 DEF RefuseStart, MayStart, GiveBack, processVars, RestOK
  <1>3. ASSUME NEW t \in Tasks, Spawn(t) PROVE Goal
    BY <1>3 DEF Spawn, registryVars, historyVars, RestOK
  <1>4. ASSUME NEW t \in Tasks, DropForce(t) PROVE Goal
    BY <1>4, SignalResultsBoolean DEF DropForce, OwnerForceKill, ChildKilled,
         Stray, RestOK
  <1>5. ASSUME NEW t \in Tasks, DropRemove(t) PROVE Goal
    BY <1>5 DEF DropRemove, GiveBack, processVars, RestOK
  <1>6. ASSUME NEW t \in Tasks, PollForce(t) PROVE Goal
    BY <1>6, SignalResultsBoolean DEF PollForce, registryVars, historyVars,
         RestOK
  <1>7. ASSUME NEW t \in Tasks, NoteOwnOutcome(t) PROVE Goal
    BY <1>7 DEF NoteOwnOutcome, Blame, processVars, RestOK
  <1>8. ASSUME NEW t \in Tasks, DrainPumps(t) PROVE Goal
    <2>1. UNCHANGED <<startsClosed, pendingStops, leader, admitted, outcome, cause,
                      shutdownSwept>>
      BY <1>8 DEF DrainPumps, registryVars
    <2>2. \/ UNCHANGED <<doomed, members, strays>>
          \/ \E delivered \in BOOLEAN : KillGroup(t, delivered)
      BY <1>8, DrainPumpsCases DEF OwnerForceStop
    <2>3. ASSUME UNCHANGED <<doomed, members, strays>> PROVE Goal
      BY <2>1, <2>3 DEF RestOK
    <2>4. ASSUME NEW delivered \in BOOLEAN, KillGroup(t, delivered) PROVE Goal
      BY <2>1, <2>4 DEF KillGroup, Stray, RestOK
    <2> QED BY <2>2, <2>3, <2>4
  <1>9. ASSUME NEW t \in Tasks, ErrorForce(t) PROVE Goal
    BY <1>9, SignalResultsBoolean DEF ErrorForce, OwnerForceKill, registryVars,
         ChildKilled, Stray, RestOK
  <1>10. ASSUME NEW t \in Tasks, Cleanup(t) PROVE Goal
    <2>1. UNCHANGED <<startsClosed, pendingStops, leader, admitted, outcome, cause,
                      shutdownSwept>>
      BY <1>10 DEF Cleanup, registryVars
    <2>2. \/ UNCHANGED <<doomed, members, strays>>
          \/ \E delivered \in BOOLEAN : KillGroup(t, delivered)
      BY <1>10, CleanupCases
    <2>3. ASSUME UNCHANGED <<doomed, members, strays>> PROVE Goal
      BY <2>1, <2>3 DEF RestOK
    <2>4. ASSUME NEW delivered \in BOOLEAN, KillGroup(t, delivered) PROVE Goal
      BY <2>1, <2>4 DEF KillGroup, Stray, RestOK
    <2> QED BY <2>2, <2>3, <2>4
  <1>11. ASSUME NEW t \in Tasks, ReapChild(t) PROVE Goal
    BY <1>11 DEF ReapChild, registryVars, historyVars, RestOK
  <1>12. ASSUME NEW t \in Tasks, CompleteSettled(t) PROVE Goal
    BY <1>12 DEF CompleteSettled, GiveBack, TerminalStatus, processVars, RestOK
  <1>13. ASSUME NEW t \in Tasks, RecordPendingStop(t) PROVE Goal
    BY <1>13 DEF RecordPendingStop, processVars, historyVars, RestOK
  <1>14. ASSUME NEW t \in Tasks, ForgetPendingStop(t) PROVE Goal
    BY <1>14 DEF ForgetPendingStop, processVars, historyVars, RestOK
  <1>15. ASSUME NEW t \in Tasks, StopOwned(t) PROVE Goal
    BY <1>15 DEF StopOwned, Live, Blame, processVars, RestOK
  <1>16. ASSUME NEW t \in Tasks, Fork(t) PROVE Goal
    BY <1>16 DEF Fork, registryVars, historyVars, RestOK
  <1>17. ASSUME NEW t \in Tasks, Exit(t) PROVE Goal
    BY <1>17 DEF Exit, registryVars, historyVars, RestOK
  <1>18. ASSUME NEW t \in Tasks, NEW s \in Stoppers, SendTerm(t, s) PROVE Goal
    BY <1>18 DEF SendTerm, Stray, registryVars, processVars, RestOK
  <1>19. ASSUME NEW t \in Tasks, NEW s \in Stoppers, SendKill(t, s) PROVE Goal
    BY <1>19, SignalResultsBoolean DEF SendKill, KillGroup, registryVars, Stray,
         RestOK
  <1>20. ASSUME NEW t \in Tasks, NEW s \in Stoppers, SendQuietKill(t, s)
         PROVE  Goal
    BY <1>20, SignalResultsBoolean DEF SendQuietKill, KillGroup, registryVars,
         Stray, RestOK
  <1>21. ASSUME NEW r \in Roots, StopForRoot(r) PROVE Goal
    BY <1>21 DEF StopForRoot, Targets, Blame, processVars, Live, RestOK
  <1>22. ASSUME NEW r \in Roots, NEW step \in {"term", "force"},
                StopRevokedTrust(r, step)
         PROVE  Goal
    BY <1>22 DEF StopRevokedTrust, KeepsOwnOutcome, Blame, processVars, RestOK
  <1>23. ASSUME CloseStartAdmission PROVE Goal
    BY <1>23 DEF CloseStartAdmission, processVars, historyVars, RestOK
  <1>24. ASSUME ShutdownAll PROVE Goal
    BY <1>24 DEF ShutdownAll, Live, Blame, processVars, RestOK
  <1>25. ASSUME NEW t \in Tasks,
                \/ Start(t) \/ Recheck(t) \/ PublishGroup(t) \/ SpawnWatchdog(t)
                \/ SpawnWaiter(t) \/ DropWait(t) \/ DropClaim(t)
                \/ ObserveExit(t) \/ ReapBounded(t) \/ BeginReaping(t)
                \/ SettleGroup(t) \/ CaptureCompletion(t) \/ Emitted(t)
                \/ WaiterPanic(t) \/ ClaimInterrupt(t) \/ ReleaseInterrupt(t)
                \/ WatchdogFires(t) \/ WatchdogFinishes(t)
         PROVE  UNCHANGED <<startsClosed, pendingStops, leader, doomed, members,
                            admitted, outcome, cause, strays, shutdownSwept>>
    BY <1>25 DEF Start, processVars, historyVars, Recheck, registryVars,
         PublishGroup, SpawnWatchdog, SpawnWaiter, DropWait, DropClaim,
         ObserveExit, ReapBounded, BeginReaping, SettleGroup, CaptureCompletion,
         Emitted, WaiterPanic, ClaimInterrupt, ReleaseInterrupt, WatchdogFires,
         WatchdogFinishes
  <1>26. ASSUME NEW t \in Tasks, NEW s \in Stoppers,
                \/ SignalTerm(t, s) \/ GraceEnds(t, s) \/ RequestForce(t, s)
                \/ SignalKill(t, s) \/ QuietKill(t, s)
         PROVE  UNCHANGED <<startsClosed, pendingStops, leader, doomed, members,
                            admitted, outcome, cause, strays, shutdownSwept>>
    BY <1>26 DEF SignalTerm, LockToSend, registryVars, processVars, historyVars,
         GraceEnds, RequestForce, SignalKill, QuietKill
  <1>27. ASSUME UNCHANGED vars
         PROVE  UNCHANGED <<startsClosed, pendingStops, leader, doomed, members,
                            admitted, outcome, cause, strays, shutdownSwept>>
    BY <1>27 DEF vars, registryVars, processVars, historyVars
  <1> HIDE DEF Goal
  <1>28. ASSUME NEW t \in Tasks, StartStep(t) PROVE Goal
    BY <1>0, <1>1, <1>2, <1>3, <1>4, <1>5, <1>25, <1>28 DEF StartStep
  <1>29. ASSUME NEW t \in Tasks, WaiterStep(t) \/ WaiterPanic(t) PROVE Goal
    BY <1>0, <1>6, <1>7, <1>8, <1>9, <1>10, <1>11, <1>12, <1>25, <1>29 DEF
         WaiterStep
  <1>30. ASSUME NEW t \in Tasks,
                \/ RequestStep(t) \/ WatchdogFinishes(t) \/ Fork(t) \/ Exit(t)
         PROVE  Goal
    BY <1>0, <1>13, <1>14, <1>15, <1>16, <1>17, <1>25, <1>30 DEF RequestStep
  <1>31. ASSUME NEW t \in Tasks, NEW s \in Stoppers, StopperStep(t, s)
         PROVE  Goal
    BY <1>0, <1>18, <1>19, <1>20, <1>26, <1>31 DEF StopperStep
  <1>32. ASSUME NEW r \in Roots,
                \/ StopForRoot(r) \/ StopRevokedTrust(r, "term")
                \/ StopRevokedTrust(r, "force")
         PROVE  Goal
    BY <1>0, <1>21, <1>22, <1>32
  <1> QED BY <1>0, <1>23, <1>24, <1>27, <1>28, <1>29, <1>30, <1>31, <1>32 DEF
       Next

----------------------------------------------------------------------------
(* The layers of the invariant, one lemma each, one step for each action.   *)

(* A stop is accepted once, and a watchdog spawned once.                    *)
LEMMA StartsOnceStep ==
  ASSUME TypeOK,
         \A t \in Tasks : StartsOnce(t),
         [Next]_vars
  PROVE  \A x \in Tasks : StartsOnce(x)'
  <1> DEFINE Goal == \A x \in Tasks : StartsOnce(x)'
  <1> SUFFICES Goal
    OBVIOUS
  <1>0. ASSUME UNCHANGED <<entry, owner, stopper>> PROVE Goal
    BY <1>0 DEF TypeOK, StartsOnce, Live
  <1>1. ASSUME NEW t \in Tasks, Admit(t) PROVE Goal
    BY <1>1 DEF Admit, Goto, TypeOK, StartsOnce, Live, Unwatched, Unspawned
  <1>2. ASSUME NEW t \in Tasks, RefuseStart(t) PROVE Goal
    BY <1>2 DEF RefuseStart, Goto, TypeOK, StartsOnce, Live, Unwatched,
         Unspawned
  <1>3. ASSUME NEW t \in Tasks, Start(t) PROVE Goal
    BY <1>3 DEF Start, NoEntry, Goto, TypeOK, EntryState, StartsOnce, Live,
         Unwatched, Unspawned
  <1>4. ASSUME NEW t \in Tasks, Recheck(t) PROVE Goal
    BY <1>4 DEF Recheck, Goto, registryVars, TypeOK, StartsOnce, Live,
         Unwatched, Unspawned
  <1>5. ASSUME NEW t \in Tasks, Spawn(t) PROVE Goal
    BY <1>5 DEF Spawn, GroupFor, Goto, registryVars, historyVars, TypeOK,
         EntryState, Stoppers, StopperSteps, StartsOnce, Live, Unwatched,
         Unspawned
  <1>6. ASSUME NEW t \in Tasks, PublishGroup(t) PROVE Goal
    <2>1. /\ UNCHANGED stopper /\ owner[t] = "spawned"
          /\ \E step \in {"dropForce", "published"} : Goto(t, step)
          /\ entry' = [entry EXCEPT ![t].group = TRUE] \/ UNCHANGED entry
      BY <1>6 DEF PublishGroup, AfterPublish
    <2>2. \A x \in Tasks : /\ entry'[x].phase = entry[x].phase
                          /\ entry'[x].stopRequested = entry[x].stopRequested
      BY <1>6, PublishedEntry DEF TypeOK
    <2> QED BY <2>1, <2>2 DEF Goto, TypeOK, StartsOnce, Live, Unwatched, Unspawned
  <1>7. ASSUME NEW t \in Tasks, SpawnWatchdog(t) PROVE Goal
    BY <1>7 DEF SpawnWatchdog, StopperGoto, Goto, registryVars, TypeOK,
         Stoppers, StopperSteps, StartsOnce, Live, Unwatched, Unspawned
  <1>8. ASSUME NEW t \in Tasks, SpawnWaiter(t) PROVE Goal
    BY <1>8 DEF SpawnWaiter, Goto, registryVars, TypeOK, StartsOnce, Live,
         Unwatched, Unspawned
  <1>9. ASSUME NEW t \in Tasks, DropForce(t) PROVE Goal
    BY <1>9, SignalResultsBoolean DEF DropForce, Goto, TypeOK, EntryState,
         StartsOnce, Live, Unwatched, Unspawned
  <1>10. ASSUME NEW t \in Tasks, DropWait(t) PROVE Goal
    BY <1>10 DEF DropWait, Goto, registryVars, TypeOK, StartsOnce, Live,
         Unwatched, Unspawned
  <1>11. ASSUME NEW t \in Tasks, DropClaim(t) PROVE Goal
    BY <1>11 DEF DropClaim, Goto, TypeOK, EntryState, StartsOnce, Live,
         Unwatched, Unspawned
  <1>12. ASSUME NEW t \in Tasks, DropRemove(t) PROVE Goal
    BY <1>12 DEF DropRemove, NoEntry, Goto, TypeOK, EntryState, StartsOnce,
         Live, Unwatched, Unspawned
  <1>13. ASSUME NEW t \in Tasks, ObserveExit(t) PROVE Goal
    BY <1>13 DEF ObserveExit, Goto, registryVars, TypeOK, StartsOnce, Live,
         Unwatched, Unspawned
  <1>14. ASSUME NEW t \in Tasks, NoteOwnOutcome(t) PROVE Goal
    BY <1>14 DEF NoteOwnOutcome, Noted, Goto, TypeOK, EntryState, StartsOnce,
         Live, Unwatched, Unspawned
  <1>15. ASSUME NEW t \in Tasks, DrainPumps(t) PROVE Goal
    BY <1>15, SignalResultsBoolean DEF DrainPumps, Goto, registryVars, TypeOK,
         StartsOnce, Live, Unwatched, Unspawned
  <1>16. ASSUME NEW t \in Tasks, ErrorForce(t) PROVE Goal
    BY <1>16, SignalResultsBoolean DEF ErrorForce, Goto, registryVars, TypeOK,
         StartsOnce, Live, Unwatched, Unspawned
  <1>17. ASSUME NEW t \in Tasks, ReapBounded(t) PROVE Goal
    BY <1>17 DEF ReapBounded, Goto, registryVars, TypeOK, StartsOnce, Live,
         Unwatched, Unspawned
  <1>18. ASSUME NEW t \in Tasks, Cleanup(t) PROVE Goal
    BY <1>18, SignalResultsBoolean DEF Cleanup, Goto, registryVars, TypeOK,
         StartsOnce, Live, Unwatched, Unspawned
  <1>19. ASSUME NEW t \in Tasks, BeginReaping(t) PROVE Goal
    BY <1>19 DEF BeginReaping, Goto, registryVars, TypeOK, StartsOnce, Live,
         Unwatched, Unspawned
  <1>20. ASSUME NEW t \in Tasks, ReapChild(t) PROVE Goal
    BY <1>20 DEF ReapChild, Goto, registryVars, TypeOK, StartsOnce, Live,
         Unwatched, Unspawned
  <1>21. ASSUME NEW t \in Tasks, SettleGroup(t) PROVE Goal
    BY <1>21 DEF SettleGroup, Goto, AfterReap, registryVars, TypeOK, StartsOnce,
         Live, Unwatched, Unspawned
  <1>22. ASSUME NEW t \in Tasks, CaptureCompletion(t) PROVE Goal
    BY <1>22 DEF CaptureCompletion, Goto, TypeOK, EntryState, StartsOnce, Live,
         Unwatched, Unspawned
  <1>23. ASSUME NEW t \in Tasks, CompleteSettled(t) PROVE Goal
    BY <1>23 DEF CompleteSettled, Goto, TypeOK, EntryState, StartsOnce, Live,
         Unwatched, Unspawned
  <1>24. ASSUME NEW t \in Tasks, Emitted(t) PROVE Goal
    BY <1>24 DEF Emitted, Goto, registryVars, TypeOK, StartsOnce, Live,
         Unwatched, Unspawned
  <1>25. ASSUME NEW t \in Tasks, WaiterPanic(t) PROVE Goal
    BY <1>25 DEF WaiterPanic, Goto, registryVars, TypeOK, StartsOnce, Live,
         Unwatched, Unspawned
  <1>26. ASSUME NEW t \in Tasks, StopOwned(t) PROVE Goal
    BY <1>26 DEF StopOwned, Live, StopperGoto, TypeOK, EntryState, Stoppers,
         StopperSteps, StartsOnce
  <1>27. ASSUME NEW t \in Tasks, ClaimInterrupt(t) PROVE Goal
    BY <1>27 DEF ClaimInterrupt, Live, threadVars, TypeOK, EntryState,
         StartsOnce
  <1>28. ASSUME NEW t \in Tasks, ReleaseInterrupt(t) PROVE Goal
    BY <1>28 DEF ReleaseInterrupt, Live, threadVars, TypeOK, EntryState,
         StartsOnce
  <1>29. ASSUME NEW t \in Tasks, WatchdogFires(t) PROVE Goal
    BY <1>29 DEF WatchdogFires, Live, StopperGoto, TypeOK, EntryState, Stoppers,
         StopperSteps, StartsOnce
  <1>30. ASSUME NEW t \in Tasks, WatchdogFinishes(t) PROVE Goal
    BY <1>30 DEF WatchdogFinishes, Live, StopperGoto, registryVars, TypeOK,
         Stoppers, StopperSteps, StartsOnce
  <1>31. ASSUME NEW t \in Tasks, NEW s \in Stoppers, SignalTerm(t, s) PROVE Goal
    <2>1. /\ UNCHANGED <<entry, owner>>
          /\ stopper[t][s] = "term"
          /\ \E step \in {"termSend", "grace"} : StopperGoto(t, s, step)
      BY <1>31 DEF SignalTerm, LockToSend, registryVars
    <2> QED BY <2>1 DEF StopperGoto, TypeOK, Stoppers, StopperSteps, StartsOnce, Live
  <1>32. ASSUME NEW t \in Tasks, NEW s \in Stoppers, SendTerm(t, s) PROVE Goal
    BY <1>32 DEF SendTerm, StopperGoto, registryVars, TypeOK, Stoppers,
         StopperSteps, StartsOnce, Live
  <1>33. ASSUME NEW t \in Tasks, NEW s \in Stoppers, GraceEnds(t, s) PROVE Goal
    BY <1>33 DEF GraceEnds, AfterGrace, StopperGoto, registryVars, TypeOK,
         Stoppers, StopperSteps, StartsOnce, Live
  <1>34. ASSUME NEW t \in Tasks, NEW s \in Stoppers, RequestForce(t, s)
         PROVE  Goal
    BY <1>34 DEF RequestForce, StopperGoto, registryVars, TypeOK, Stoppers,
         StopperSteps, StartsOnce, Live
  <1>35. ASSUME NEW t \in Tasks, NEW s \in Stoppers, SignalKill(t, s) PROVE Goal
    <2>1. /\ UNCHANGED <<entry, owner>>
          /\ stopper[t][s] = "kill"
          /\ \E step \in {"killSend", "done"} : StopperGoto(t, s, step)
      BY <1>35 DEF SignalKill, LockToSend, registryVars
    <2> QED BY <2>1 DEF StopperGoto, TypeOK, Stoppers, StopperSteps, StartsOnce, Live
  <1>36. ASSUME NEW t \in Tasks, NEW s \in Stoppers, SendKill(t, s) PROVE Goal
    BY <1>36, SignalResultsBoolean DEF SendKill, StopperGoto, registryVars,
         TypeOK, Stoppers, StopperSteps, StartsOnce, Live
  <1>37. ASSUME NEW t \in Tasks, NEW s \in Stoppers, QuietKill(t, s) PROVE Goal
    <2>1. /\ UNCHANGED <<entry, owner>>
          /\ stopper[t][s] = "quiet"
          /\ \E step \in {"quietSend", "done"} : StopperGoto(t, s, step)
      BY <1>37 DEF QuietKill, LockToSend, registryVars
    <2> QED BY <2>1 DEF StopperGoto, TypeOK, Stoppers, StopperSteps, StartsOnce, Live
  <1>38. ASSUME NEW t \in Tasks, NEW s \in Stoppers, SendQuietKill(t, s)
         PROVE  Goal
    BY <1>38, SignalResultsBoolean DEF SendQuietKill, StopperGoto, registryVars,
         TypeOK, Stoppers, StopperSteps, StartsOnce, Live
  <1>39. ASSUME NEW r \in Roots, StopForRoot(r) PROVE Goal
    BY <1>39 DEF StopForRoot, Targets, SweepFree, ClaimTargets, SweepInto, Live,
         TypeOK, EntryState, Stoppers, StopperSteps, StartsOnce
  <1>40. ASSUME NEW r \in Roots, NEW step \in {"term", "force"},
                StopRevokedTrust(r, step)
         PROVE  Goal
    <2>1. UNCHANGED owner
      BY <1>40 DEF StopRevokedTrust
    <2>2. ASSUME NEW x \in Tasks
          PROVE  /\ entry'[x].phase = entry[x].phase
                 /\ entry[x].stopRequested => entry'[x].stopRequested
      BY <1>40, RevokedEntry DEF TypeOK
    <2>3. ASSUME NEW x \in Tasks PROVE SweepStarts(x)
      BY <1>40 DEF StopRevokedTrust, SweepFree, SweepStarts
    <2>4. ASSUME NEW x \in Tasks
          PROVE  /\ stopper'[x]["stop"] = stopper[x]["stop"]
                 /\ stopper'[x]["watchdog"] = stopper[x]["watchdog"]
      <3>1. stopper[x] \in [Stoppers -> StopperSteps]
        BY DEF TypeOK
      <3> QED BY <2>3, <3>1 DEF SweepStarts, Stoppers
    <2> QED BY <2>1, <2>2, <2>4 DEF StartsOnce, Live
  <1>41. ASSUME ShutdownAll PROVE Goal
    BY <1>41 DEF ShutdownAll, Live, SweepFree, ClaimTargets, SweepInto, TypeOK,
         EntryState, Stoppers, StopperSteps, StartsOnce
  <1>42. ASSUME NEW t \in Tasks,
                \/ PollForce(t) \/ RecordPendingStop(t) \/ ForgetPendingStop(t)
                \/ Fork(t) \/ Exit(t)
         PROVE  UNCHANGED <<entry, owner, stopper>>
    BY <1>42 DEF PollForce, registryVars, threadVars, RecordPendingStop,
         ForgetPendingStop, Fork, Exit
  <1>43. ASSUME CloseStartAdmission PROVE UNCHANGED <<entry, owner, stopper>>
    BY <1>43 DEF CloseStartAdmission, threadVars
  <1>44. ASSUME UNCHANGED vars PROVE UNCHANGED <<entry, owner, stopper>>
    BY <1>44 DEF vars, registryVars, threadVars
  <1> HIDE DEF Goal
  <1>45. ASSUME NEW t \in Tasks, StartStep(t) PROVE Goal
    BY <1>0, <1>1, <1>2, <1>3, <1>4, <1>5, <1>6, <1>7, <1>8, <1>9, <1>10, <1>11,
         <1>12, <1>45 DEF StartStep
  <1>46. ASSUME NEW t \in Tasks, WaiterStep(t) \/ WaiterPanic(t) PROVE Goal
    BY <1>0, <1>13, <1>14, <1>15, <1>16, <1>17, <1>18, <1>19, <1>20, <1>21,
         <1>22, <1>23, <1>24, <1>25, <1>42, <1>46 DEF WaiterStep
  <1>47. ASSUME NEW t \in Tasks,
                \/ RequestStep(t) \/ WatchdogFinishes(t) \/ Fork(t) \/ Exit(t)
         PROVE  Goal
    BY <1>0, <1>26, <1>27, <1>28, <1>29, <1>30, <1>42, <1>47 DEF RequestStep
  <1>48. ASSUME NEW t \in Tasks, NEW s \in Stoppers, StopperStep(t, s)
         PROVE  Goal
    BY <1>0, <1>31, <1>32, <1>33, <1>34, <1>35, <1>36, <1>37, <1>38, <1>48 DEF
         StopperStep
  <1>49. ASSUME NEW r \in Roots,
                \/ StopForRoot(r) \/ StopRevokedTrust(r, "term")
                \/ StopRevokedTrust(r, "force")
         PROVE  Goal
    BY <1>0, <1>39, <1>40, <1>49
  <1> QED BY <1>0, <1>41, <1>43, <1>44, <1>45, <1>46, <1>47, <1>48, <1>49 DEF
       Next

(* Only the owner reaps, from a group that it has taken out of "active" under *)
(* the mutex; the leader of an active group is unreaped.                    *)
LEMMA AnchoredStep ==
  ASSUME TypeOK,
         \A t \in Tasks : Anchored(t),
         [Next]_vars
  PROVE  \A x \in Tasks : Anchored(x)'
  <1> DEFINE Goal == \A x \in Tasks : Anchored(x)'
  <1> SUFFICES Goal
    OBVIOUS
  <1>0. ASSUME UNCHANGED <<owner, group, groupLock, leader, payload>> PROVE Goal
    BY <1>0 DEF TypeOK, Anchored
  <1>1. ASSUME NEW t \in Tasks, Admit(t) PROVE Goal
    BY <1>1 DEF Admit, Goto, processVars, groupVars, TypeOK, Anchored, ExitSeen,
         Unspawned
  <1>2. ASSUME NEW t \in Tasks, RefuseStart(t) PROVE Goal
    BY <1>2 DEF RefuseStart, Goto, processVars, groupVars, TypeOK, Anchored,
         ExitSeen, Unspawned
  <1>3. ASSUME NEW t \in Tasks, Start(t) PROVE Goal
    BY <1>3 DEF Start, Goto, processVars, groupVars, TypeOK, Anchored, ExitSeen,
         Unspawned
  <1>4. ASSUME NEW t \in Tasks, Recheck(t) PROVE Goal
    BY <1>4 DEF Recheck, Goto, processVars, groupVars, TypeOK, Anchored,
         ExitSeen, Unspawned
  <1>5. ASSUME NEW t \in Tasks, Spawn(t) PROVE Goal
    BY <1>5 DEF Spawn, GroupFor, Goto, TypeOK, GroupState, Anchored, ExitSeen,
         Unspawned
  <1>6. ASSUME NEW t \in Tasks, PublishGroup(t) PROVE Goal
    BY <1>6 DEF PublishGroup, Goto, AfterPublish, processVars, groupVars,
         TypeOK, Anchored, ExitSeen, Unspawned
  <1>7. ASSUME NEW t \in Tasks, SpawnWatchdog(t) PROVE Goal
    BY <1>7 DEF SpawnWatchdog, Goto, processVars, groupVars, TypeOK, Stoppers,
         Anchored, ExitSeen, Unspawned
  <1>8. ASSUME NEW t \in Tasks, SpawnWaiter(t) PROVE Goal
    BY <1>8 DEF SpawnWaiter, Goto, processVars, groupVars, TypeOK, Anchored,
         ExitSeen, Unspawned
  <1>9. ASSUME NEW t \in Tasks, DropForce(t) PROVE Goal
    BY <1>9, SignalResultsBoolean DEF DropForce, OwnerForceKill, Goto, LockFree,
         TypeOK, GroupState, Anchored, ExitSeen, Unspawned
  <1>10. ASSUME NEW t \in Tasks, DropWait(t) PROVE Goal
    BY <1>10 DEF DropWait, Goto, processVars, groupVars, TypeOK, Anchored,
         ExitSeen, Unspawned
  <1>11. ASSUME NEW t \in Tasks, DropClaim(t) PROVE Goal
    BY <1>11 DEF DropClaim, Goto, processVars, groupVars, TypeOK, Anchored,
         ExitSeen, Unspawned
  <1>12. ASSUME NEW t \in Tasks, DropRemove(t) PROVE Goal
    BY <1>12 DEF DropRemove, Goto, processVars, groupVars, TypeOK, Anchored,
         ExitSeen, Unspawned
  <1>13. ASSUME NEW t \in Tasks, ObserveExit(t) PROVE Goal
    BY <1>13 DEF ObserveExit, Goto, processVars, groupVars, TypeOK, Anchored,
         ExitSeen, Unspawned
  <1>14. ASSUME NEW t \in Tasks, NoteOwnOutcome(t) PROVE Goal
    BY <1>14 DEF NoteOwnOutcome, Goto, processVars, groupVars, TypeOK, Anchored,
         ExitSeen, Unspawned
  <1>15. ASSUME NEW t \in Tasks, DrainPumps(t) PROVE Goal
    BY <1>15, SignalResultsBoolean DEF DrainPumps, Goto, OwnerForceStop,
         LockFree, TypeOK, GroupState, Anchored, ExitSeen, Unspawned
  <1>16. ASSUME NEW t \in Tasks, ErrorForce(t) PROVE Goal
    BY <1>16, SignalResultsBoolean DEF ErrorForce, OwnerForceKill, Goto,
         LockFree, TypeOK, GroupState, Anchored, ExitSeen, Unspawned
  <1>17. ASSUME NEW t \in Tasks, ReapBounded(t) PROVE Goal
    BY <1>17 DEF ReapBounded, Goto, processVars, groupVars, TypeOK, Anchored,
         ExitSeen, Unspawned
  <1>18. ASSUME NEW t \in Tasks, Cleanup(t) PROVE Goal
    BY <1>18, SignalResultsBoolean DEF Cleanup, Goto, LockFree, CleanupResult,
         TypeOK, GroupState, Anchored, ExitSeen, Unspawned
  <1>19. ASSUME NEW t \in Tasks, BeginReaping(t) PROVE Goal
    BY <1>19 DEF BeginReaping, LockFree, BeginState, Goto, processVars, TypeOK,
         GroupState, Anchored, ExitSeen, Unspawned
  <1>20. ASSUME NEW t \in Tasks, ReapChild(t) PROVE Goal
    BY <1>20 DEF ReapChild, Goto, groupVars, TypeOK, Anchored, ExitSeen,
         Unspawned
  <1>21. ASSUME NEW t \in Tasks, SettleGroup(t) PROVE Goal
    <2>1. /\ owner[t] = "settle" /\ groupLock[t] = "free"
          /\ UNCHANGED <<leader, payload, groupLock>>
          /\ \E step \in {"dropClaim", "errorForce", "complete"} : Goto(t, step)
      BY <1>21 DEF SettleGroup, AfterReap, LockFree, processVars
    <2>2. /\ \A x \in Tasks \ {t} : group'[x] = group[x]
          /\ group'[t].state =
                IF payload[t].broken
                THEN IF group[t].state = "reaping" THEN "active" ELSE group[t].state
                ELSE IF payload[t].cleanup THEN "released" ELSE "uncertain"
      BY <1>21 DEF SettleGroup, TypeOK, GroupState
    <2>3. \A x \in Tasks \ {t} : Anchored(x)'
      BY <2>1, <2>2 DEF Goto, TypeOK, Anchored
    <2>4. Anchored(t)'
      <3>1. owner'[t] \in {"dropClaim", "errorForce", "complete"}
        BY <2>1 DEF Goto, TypeOK
      <3>2. /\ leader'[t] = leader[t] /\ payload'[t] = payload[t]
            /\ groupLock'[t] = "free" /\ group[t].state \in {"reaping", "shared"}
            /\ leader[t] \in {"exited", "reaped"}
            /\ payload[t].broken <=> leader[t] # "reaped"
        BY <2>1 DEF Anchored
      <3> QED BY <2>2, <3>1, <3>2 DEF Anchored, ExitSeen, Unspawned
    <2> QED BY <2>3, <2>4
  <1>22. ASSUME NEW t \in Tasks, CaptureCompletion(t) PROVE Goal
    BY <1>22 DEF CaptureCompletion, Goto, processVars, groupVars, TypeOK,
         Anchored, ExitSeen, Unspawned
  <1>23. ASSUME NEW t \in Tasks, CompleteSettled(t) PROVE Goal
    BY <1>23 DEF CompleteSettled, Goto, processVars, groupVars, TypeOK,
         Anchored, ExitSeen, Unspawned
  <1>24. ASSUME NEW t \in Tasks, Emitted(t) PROVE Goal
    BY <1>24 DEF Emitted, Goto, processVars, groupVars, TypeOK, Anchored,
         ExitSeen, Unspawned
  <1>25. ASSUME NEW t \in Tasks, WaiterPanic(t) PROVE Goal
    BY <1>25 DEF WaiterPanic, Goto, processVars, groupVars, TypeOK, Anchored,
         ExitSeen, Unspawned
  <1>26. ASSUME NEW t \in Tasks, Exit(t) PROVE Goal
    BY <1>26 DEF Exit, groupVars, threadVars, TypeOK, Anchored
  <1>27. ASSUME NEW t \in Tasks, NEW s \in Stoppers, SignalTerm(t, s) PROVE Goal
    BY <1>27 DEF SignalTerm, LockToSend, processVars, LockFree, TypeOK,
         GroupState, Stoppers, Anchored
  <1>28. ASSUME NEW t \in Tasks, NEW s \in Stoppers, SendTerm(t, s) PROVE Goal
    BY <1>28 DEF SendTerm, Unlock, processVars, TypeOK, Stoppers, Anchored
  <1>29. ASSUME NEW t \in Tasks, NEW s \in Stoppers, RequestForce(t, s)
         PROVE  Goal
    BY <1>29 DEF RequestForce, processVars, TypeOK, GroupState, Stoppers,
         Anchored
  <1>30. ASSUME NEW t \in Tasks, NEW s \in Stoppers, SignalKill(t, s) PROVE Goal
    BY <1>30 DEF SignalKill, LockToSend, processVars, LockFree, TypeOK,
         GroupState, Stoppers, Anchored
  <1>31. ASSUME NEW t \in Tasks, NEW s \in Stoppers, SendKill(t, s) PROVE Goal
    BY <1>31, SignalResultsBoolean DEF SendKill, Unlock, TypeOK, GroupState,
         Stoppers, Anchored
  <1>32. ASSUME NEW t \in Tasks, NEW s \in Stoppers, QuietKill(t, s) PROVE Goal
    BY <1>32 DEF QuietKill, LockToSend, processVars, LockFree, TypeOK, Stoppers,
         Anchored
  <1>33. ASSUME NEW t \in Tasks, NEW s \in Stoppers, SendQuietKill(t, s)
         PROVE  Goal
    BY <1>33, SignalResultsBoolean DEF SendQuietKill, Unlock, TypeOK, Stoppers,
         Anchored
  <1>34. ASSUME NEW t \in Tasks,
                \/ PollForce(t) \/ RecordPendingStop(t) \/ ForgetPendingStop(t)
                \/ StopOwned(t) \/ ClaimInterrupt(t) \/ ReleaseInterrupt(t)
                \/ WatchdogFires(t) \/ WatchdogFinishes(t) \/ Fork(t)
         PROVE  UNCHANGED <<owner, group, groupLock, leader, payload>>
    BY <1>34 DEF PollForce, groupVars, threadVars, RecordPendingStop,
         processVars, ForgetPendingStop, StopOwned, ClaimInterrupt,
         ReleaseInterrupt, WatchdogFires, WatchdogFinishes, Fork
  <1>35. ASSUME NEW t \in Tasks, NEW s \in Stoppers, GraceEnds(t, s)
         PROVE  UNCHANGED <<owner, group, groupLock, leader, payload>>
    BY <1>35 DEF GraceEnds, processVars, groupVars
  <1>36. ASSUME NEW r \in Roots, NEW step \in {"term", "force"},
                \/ StopForRoot(r) \/ StopRevokedTrust(r, step)
         PROVE  UNCHANGED <<owner, group, groupLock, leader, payload>>
    BY <1>36 DEF StopForRoot, processVars, groupVars, StopRevokedTrust
  <1>37. ASSUME CloseStartAdmission \/ ShutdownAll
         PROVE  UNCHANGED <<owner, group, groupLock, leader, payload>>
    BY <1>37 DEF CloseStartAdmission, processVars, groupVars, threadVars,
         ShutdownAll
  <1>38. ASSUME UNCHANGED vars
         PROVE  UNCHANGED <<owner, group, groupLock, leader, payload>>
    BY <1>38 DEF vars, processVars, groupVars, threadVars
  <1> HIDE DEF Goal
  <1>39. ASSUME NEW t \in Tasks, StartStep(t) PROVE Goal
    BY <1>0, <1>1, <1>2, <1>3, <1>4, <1>5, <1>6, <1>7, <1>8, <1>9, <1>10, <1>11,
         <1>12, <1>39 DEF StartStep
  <1>40. ASSUME NEW t \in Tasks, WaiterStep(t) \/ WaiterPanic(t) PROVE Goal
    BY <1>0, <1>13, <1>14, <1>15, <1>16, <1>17, <1>18, <1>19, <1>20, <1>21,
         <1>22, <1>23, <1>24, <1>25, <1>34, <1>40 DEF WaiterStep
  <1>41. ASSUME NEW t \in Tasks,
                \/ RequestStep(t) \/ WatchdogFinishes(t) \/ Fork(t) \/ Exit(t)
         PROVE  Goal
    BY <1>0, <1>26, <1>34, <1>41 DEF RequestStep
  <1>42. ASSUME NEW t \in Tasks, NEW s \in Stoppers, StopperStep(t, s)
         PROVE  Goal
    BY <1>0, <1>27, <1>28, <1>29, <1>30, <1>31, <1>32, <1>33, <1>35, <1>42 DEF
         StopperStep
  <1>43. ASSUME NEW r \in Roots,
                \/ StopForRoot(r) \/ StopRevokedTrust(r, "term")
                \/ StopRevokedTrust(r, "force")
         PROVE  Goal
    BY <1>0, <1>36, <1>43
  <1> QED BY <1>0, <1>37, <1>38, <1>39, <1>40, <1>41, <1>42, <1>43 DEF Next

(* Whoever signals has found the group active: as the owner, which does not *)
(* reap meanwhile, or holding the mutex, which keeps the group active.      *)
LEMMA SignalsStep ==
  ASSUME TypeOK,
         \A t \in Tasks : Anchored(t),
         SignalsAnchored,
         [Next]_vars
  PROVE  SignalsAnchored'
  <1> DEFINE Goal == SignalsAnchored'
  <1> SUFFICES Goal
    OBVIOUS
  <1>0. ASSUME UNCHANGED strays PROVE Goal
    BY <1>0 DEF TypeOK, Anchored, SignalsAnchored
  <1>1. ASSUME NEW t \in Tasks, DropForce(t) PROVE Goal
    BY <1>1, SignalResultsBoolean DEF DropForce, OwnerForceKill, Stray, TypeOK,
         Anchored, SignalsAnchored
  <1>2. ASSUME NEW t \in Tasks, DrainPumps(t) PROVE Goal
    BY <1>2, SignalResultsBoolean DEF DrainPumps, Goto, OwnerForceStop,
         registryVars, LockFree, KillGroup, Stray, TypeOK, Stoppers, Anchored,
         SignalsAnchored
  <1>3. ASSUME NEW t \in Tasks, ErrorForce(t) PROVE Goal
    BY <1>3, SignalResultsBoolean DEF ErrorForce, OwnerForceKill, Stray, TypeOK,
         Anchored, SignalsAnchored
  <1>4. ASSUME NEW t \in Tasks, Cleanup(t) PROVE Goal
    BY <1>4, SignalResultsBoolean DEF Cleanup, KillGroup, Stray, TypeOK,
         Anchored, SignalsAnchored
  <1>5. ASSUME NEW t \in Tasks, NEW s \in Stoppers, SendTerm(t, s) PROVE Goal
    BY <1>5 DEF SendTerm, Stray, TypeOK, Stoppers, Anchored, SignalsAnchored
  <1>6. ASSUME NEW t \in Tasks, NEW s \in Stoppers, SendKill(t, s) PROVE Goal
    BY <1>6, SignalResultsBoolean DEF SendKill, KillGroup, Stray, TypeOK,
         Stoppers, Anchored, SignalsAnchored
  <1>7. ASSUME NEW t \in Tasks, NEW s \in Stoppers, SendQuietKill(t, s)
        PROVE  Goal
    BY <1>7, SignalResultsBoolean DEF SendQuietKill, KillGroup, Stray, TypeOK,
         Stoppers, Anchored, SignalsAnchored
  <1>8. ASSUME NEW t \in Tasks,
               \/ Admit(t) \/ RefuseStart(t) \/ Start(t) \/ Recheck(t)
               \/ Spawn(t) \/ PublishGroup(t) \/ SpawnWatchdog(t)
               \/ SpawnWaiter(t) \/ DropWait(t) \/ DropClaim(t) \/ DropRemove(t)
               \/ PollForce(t) \/ ObserveExit(t) \/ NoteOwnOutcome(t)
               \/ ReapBounded(t) \/ BeginReaping(t) \/ ReapChild(t)
               \/ SettleGroup(t) \/ CaptureCompletion(t) \/ CompleteSettled(t)
               \/ Emitted(t) \/ WaiterPanic(t) \/ RecordPendingStop(t)
               \/ ForgetPendingStop(t) \/ StopOwned(t) \/ ClaimInterrupt(t)
               \/ ReleaseInterrupt(t) \/ WatchdogFires(t) \/ WatchdogFinishes(t)
               \/ Fork(t) \/ Exit(t)
        PROVE  UNCHANGED strays
    BY <1>8 DEF Admit, historyVars, RefuseStart, Start, Recheck, Spawn,
         PublishGroup, SpawnWatchdog, SpawnWaiter, DropWait, DropClaim,
         DropRemove, PollForce, ObserveExit, NoteOwnOutcome, ReapBounded,
         BeginReaping, ReapChild, SettleGroup, CaptureCompletion,
         CompleteSettled, Emitted, WaiterPanic, RecordPendingStop,
         ForgetPendingStop, StopOwned, ClaimInterrupt, ReleaseInterrupt,
         WatchdogFires, WatchdogFinishes, Fork, Exit
  <1>9. ASSUME NEW t \in Tasks, NEW s \in Stoppers,
               \/ SignalTerm(t, s) \/ GraceEnds(t, s) \/ RequestForce(t, s)
               \/ SignalKill(t, s) \/ QuietKill(t, s)
        PROVE  UNCHANGED strays
    BY <1>9 DEF SignalTerm, LockToSend, historyVars, GraceEnds, RequestForce,
         SignalKill, QuietKill
  <1>10. ASSUME NEW r \in Roots, NEW step \in {"term", "force"},
                \/ StopForRoot(r) \/ StopRevokedTrust(r, step)
         PROVE  UNCHANGED strays
    BY <1>10 DEF StopForRoot, StopRevokedTrust
  <1>11. ASSUME CloseStartAdmission \/ ShutdownAll PROVE UNCHANGED strays
    BY <1>11 DEF CloseStartAdmission, historyVars, ShutdownAll
  <1>12. ASSUME UNCHANGED vars PROVE UNCHANGED strays
    BY <1>12 DEF vars, historyVars
  <1> HIDE DEF Goal
  <1>13. ASSUME NEW t \in Tasks, StartStep(t) PROVE Goal
    BY <1>0, <1>1, <1>8, <1>13 DEF StartStep
  <1>14. ASSUME NEW t \in Tasks, WaiterStep(t) \/ WaiterPanic(t) PROVE Goal
    BY <1>0, <1>2, <1>3, <1>4, <1>8, <1>14 DEF WaiterStep
  <1>15. ASSUME NEW t \in Tasks,
                \/ RequestStep(t) \/ WatchdogFinishes(t) \/ Fork(t) \/ Exit(t)
         PROVE  Goal
    BY <1>0, <1>8, <1>15 DEF RequestStep
  <1>16. ASSUME NEW t \in Tasks, NEW s \in Stoppers, StopperStep(t, s)
         PROVE  Goal
    BY <1>0, <1>5, <1>6, <1>7, <1>9, <1>16 DEF StopperStep
  <1>17. ASSUME NEW r \in Roots,
                \/ StopForRoot(r) \/ StopRevokedTrust(r, "term")
                \/ StopRevokedTrust(r, "force")
         PROVE  Goal
    BY <1>0, <1>10, <1>17
  <1> QED BY <1>0, <1>11, <1>12, <1>13, <1>14, <1>15, <1>16, <1>17 DEF Next

(* A delivered KILL empties the group and ends its leader, so that nobody is *)
(* left to fork; what is vouched for on a group that is not active does not *)
(* matter before a failed reap, and a failed reap is never released.        *)
LEMMA VouchedStep ==
  ASSUME TypeOK,
         \A t \in Tasks : Anchored(t),
         \A t \in Tasks : Vouched(t),
         [Next]_vars
  PROVE  \A x \in Tasks : Vouched(x)'
  <1> DEFINE Goal == \A x \in Tasks : Vouched(x)'
  <1> SUFFICES Goal
    OBVIOUS
  <1>0. ASSUME UNCHANGED <<owner, members, group, leader, payload, doomed>>
        PROVE  Goal
    BY <1>0 DEF TypeOK, Anchored, Vouched
  <1>1. ASSUME NEW t \in Tasks, Admit(t) PROVE Goal
    BY <1>1 DEF Admit, Goto, processVars, groupVars, TypeOK, Anchored, Vouched,
         ExitSeen, Unspawned
  <1>2. ASSUME NEW t \in Tasks, RefuseStart(t) PROVE Goal
    BY <1>2 DEF RefuseStart, Goto, processVars, groupVars, TypeOK, Anchored,
         Vouched, ExitSeen, Unspawned
  <1>3. ASSUME NEW t \in Tasks, Start(t) PROVE Goal
    BY <1>3 DEF Start, Goto, processVars, groupVars, TypeOK, Anchored, Vouched,
         ExitSeen, Unspawned
  <1>4. ASSUME NEW t \in Tasks, Recheck(t) PROVE Goal
    BY <1>4 DEF Recheck, Goto, processVars, groupVars, TypeOK, Anchored,
         Vouched, ExitSeen, Unspawned
  <1>5. ASSUME NEW t \in Tasks, Spawn(t) PROVE Goal
    BY <1>5 DEF Spawn, GroupFor, Goto, TypeOK, GroupState, Anchored, Vouched,
         ExitSeen, Unspawned
  <1>6. ASSUME NEW t \in Tasks, PublishGroup(t) PROVE Goal
    BY <1>6 DEF PublishGroup, Goto, AfterPublish, processVars, groupVars,
         TypeOK, Anchored, Vouched, ExitSeen, Unspawned
  <1>7. ASSUME NEW t \in Tasks, SpawnWatchdog(t) PROVE Goal
    BY <1>7 DEF SpawnWatchdog, Goto, processVars, groupVars, TypeOK, Anchored,
         Vouched, ExitSeen, Unspawned
  <1>8. ASSUME NEW t \in Tasks, SpawnWaiter(t) PROVE Goal
    BY <1>8 DEF SpawnWaiter, Goto, processVars, groupVars, TypeOK, Anchored,
         Vouched, ExitSeen, Unspawned
  <1>9. ASSUME NEW t \in Tasks, DropForce(t) PROVE Goal
    BY <1>9, SignalResultsBoolean DEF DropForce, OwnerForceKill, Goto,
         ChildKilled, TypeOK, GroupState, Anchored, Vouched, ExitSeen, Unspawned
  <1>10. ASSUME NEW t \in Tasks, DropWait(t) PROVE Goal
    BY <1>10 DEF DropWait, Goto, processVars, groupVars, TypeOK, Anchored,
         Vouched, ExitSeen, Unspawned
  <1>11. ASSUME NEW t \in Tasks, DropClaim(t) PROVE Goal
    BY <1>11 DEF DropClaim, Goto, processVars, groupVars, TypeOK, Anchored,
         Vouched, ExitSeen, Unspawned
  <1>12. ASSUME NEW t \in Tasks, DropRemove(t) PROVE Goal
    BY <1>12 DEF DropRemove, Goto, processVars, groupVars, TypeOK, Anchored,
         Vouched, ExitSeen, Unspawned
  <1>13. ASSUME NEW t \in Tasks, PollForce(t) PROVE Goal
    BY <1>13, SignalResultsBoolean DEF PollForce, groupVars, threadVars, TypeOK,
         Anchored, Vouched
  <1>14. ASSUME NEW t \in Tasks, ObserveExit(t) PROVE Goal
    BY <1>14 DEF ObserveExit, Goto, processVars, groupVars, TypeOK, Anchored,
         Vouched, ExitSeen, Unspawned
  <1>15. ASSUME NEW t \in Tasks, NoteOwnOutcome(t) PROVE Goal
    BY <1>15 DEF NoteOwnOutcome, Goto, processVars, groupVars, TypeOK, Anchored,
         Vouched, ExitSeen, Unspawned
  <1>16. ASSUME NEW t \in Tasks, DrainPumps(t) PROVE Goal
    <2>1. owner[t] = "drain" /\ UNCHANGED leader
      BY <1>16 DEF DrainPumps
    <2>2. ASSUME Goto(t, "cleanup"), UNCHANGED <<group, doomed, members, payload>>
          PROVE  Goal
      <3>1. \A x \in Tasks : owner'[x] = IF x = t THEN "cleanup" ELSE owner[x]
        BY <2>2 DEF Goto, TypeOK
      <3> QED BY <2>1, <2>2, <3>1 DEF Vouched, Unspawned
    <2>3. ASSUME NEW delivered \in BOOLEAN, OwnerForceStop(t, delivered),
                 NEW step \in {"cleanup", "bounded"}, Goto(t, step),
                 \A x \in Tasks : payload'[x].broken = payload[x].broken
                                /\ payload'[x].cleanup = payload[x].cleanup
          PROVE  Goal
      <3>1. Forced(t, delivered) /\ group \in [Tasks -> GroupState]
        BY <2>3 DEF OwnerForceStop, Forced, TypeOK
      <3>2. /\ \A x \in Tasks \ {t} : group'[x] = group[x]
            /\ group'[t].state = group[t].state
            /\ group'[t].shared = group[t].shared
            /\ group'[t].cleanupVerified <=>
                  group[t].cleanupVerified \/ group[t].state # "active" \/ delivered
        BY <3>1, ForcedGroup
      <3> QED BY <2>1, <2>3, <3>2
              DEF OwnerForceStop, KillGroup, Goto, TypeOK, Vouched, Anchored, ExitSeen, Unspawned
    <2>5. PayloadOK
      BY DEF TypeOK, PayloadOK
    <2>4. ASSUME UNCHANGED payload \/ payload' = [payload EXCEPT ![t].what = "failed"]
          PROVE  \A x \in Tasks : payload'[x].broken = payload[x].broken
                               /\ payload'[x].cleanup = payload[x].cleanup
      BY <2>4, <2>5 DEF PayloadOK
    <2> HIDE DEF Goal
    <2> QED BY <1>16, <2>2, <2>3, <2>4, DrainPumpsCases
  <1>17. ASSUME NEW t \in Tasks, ErrorForce(t) PROVE Goal
    BY <1>17, SignalResultsBoolean DEF ErrorForce, OwnerForceKill, Goto,
         ChildKilled, TypeOK, GroupState, Anchored, Vouched, ExitSeen, Unspawned
  <1>18. ASSUME NEW t \in Tasks, ReapBounded(t) PROVE Goal
    BY <1>18 DEF ReapBounded, Goto, processVars, groupVars, TypeOK, Anchored,
         Vouched, ExitSeen, Unspawned
  <1>19. ASSUME NEW t \in Tasks, Cleanup(t) PROVE Goal
    <2>1. owner[t] = "cleanup" /\ Goto(t, "begin") /\ UNCHANGED leader
      BY <1>19 DEF Cleanup
    <2>2. leader[t] = "exited"
      BY <2>1 DEF Anchored, ExitSeen
    <2>3. PayloadOK /\ group \in [Tasks -> GroupState]
      BY DEF TypeOK, PayloadOK
    <2>4. ASSUME group[t].cleanupVerified,
                 payload' = [payload EXCEPT ![t].cleanup = TRUE],
                 UNCHANGED <<group, doomed, members>>
          PROVE  Goal
      <3>1. /\ \A x \in Tasks : payload'[x].broken = payload[x].broken
            /\ \A x \in Tasks \ {t} : payload'[x] = payload[x]
        BY <2>4 DEF TypeOK
      <3> QED BY <2>1, <2>2, <2>4, <3>1 DEF Goto, TypeOK, Vouched, Anchored, Unspawned
    <2>5. ASSUME group[t].state = "active", NEW delivered \in BOOLEAN,
                 KillGroup(t, delivered), Cleaned(t, delivered, delivered)
          PROVE  Goal
      <3>1. /\ \A x \in Tasks \ {t} : group'[x] = group[x] /\ payload'[x] = payload[x]
            /\ group'[t].state = group[t].state
            /\ group'[t].shared = group[t].shared
            /\ group'[t].cleanupVerified = delivered
            /\ payload'[t].cleanup = delivered
            /\ payload'[t].broken = payload[t].broken
        BY <2>3, <2>5, CleanedUp
      <3> QED BY <2>1, <2>2, <2>5, <3>1 DEF KillGroup, Goto, TypeOK, Vouched, Unspawned
    <2>6. ASSUME group[t].state # "active", Cleaned(t, TRUE, group[t].state = "shared"),
                 UNCHANGED <<doomed, members>>
          PROVE  Goal
      <3>1. /\ \A x \in Tasks \ {t} : group'[x] = group[x] /\ payload'[x] = payload[x]
            /\ group'[t].state = group[t].state
            /\ group'[t].shared = group[t].shared
            /\ payload'[t].broken = payload[t].broken
        BY <2>3, <2>6, CleanedUp
      <3> QED BY <2>1, <2>2, <2>6, <3>1 DEF Goto, TypeOK, Vouched, Anchored, Unspawned
    <2> HIDE DEF Goal
    <2> QED BY <1>19, <2>4, <2>5, <2>6, CleanupCases
  <1>20. ASSUME NEW t \in Tasks, BeginReaping(t) PROVE Goal
    BY <1>20 DEF BeginReaping, BeginState, Goto, processVars, TypeOK,
         GroupState, Anchored, Vouched, ExitSeen, Unspawned
  <1>21. ASSUME NEW t \in Tasks, ReapChild(t) PROVE Goal
    BY <1>21 DEF ReapChild, Goto, groupVars, TypeOK, Anchored, Vouched,
         ExitSeen, Unspawned
  <1>22. ASSUME NEW t \in Tasks, SettleGroup(t) PROVE Goal
    BY <1>22 DEF SettleGroup, Goto, AfterReap, processVars, TypeOK, GroupState,
         Anchored, Vouched, ExitSeen, Unspawned
  <1>23. ASSUME NEW t \in Tasks, CaptureCompletion(t) PROVE Goal
    BY <1>23 DEF CaptureCompletion, Goto, processVars, groupVars, TypeOK,
         Anchored, Vouched, ExitSeen, Unspawned
  <1>24. ASSUME NEW t \in Tasks, CompleteSettled(t) PROVE Goal
    BY <1>24 DEF CompleteSettled, Goto, processVars, groupVars, TypeOK,
         Anchored, Vouched, ExitSeen, Unspawned
  <1>25. ASSUME NEW t \in Tasks, Emitted(t) PROVE Goal
    BY <1>25 DEF Emitted, Goto, processVars, groupVars, TypeOK, Anchored,
         Vouched, ExitSeen, Unspawned
  <1>26. ASSUME NEW t \in Tasks, WaiterPanic(t) PROVE Goal
    BY <1>26 DEF WaiterPanic, Goto, processVars, groupVars, TypeOK, Anchored,
         Vouched, ExitSeen, Unspawned
  <1>27. ASSUME NEW t \in Tasks, Fork(t) PROVE Goal
    BY <1>27 DEF Fork, registryVars, groupVars, threadVars, historyVars, TypeOK,
         GroupState, Anchored, Vouched, ExitSeen, Unspawned
  <1>28. ASSUME NEW t \in Tasks, Exit(t) PROVE Goal
    BY <1>28 DEF Exit, groupVars, threadVars, TypeOK, Anchored, Vouched
  <1>29. ASSUME NEW t \in Tasks, NEW s \in Stoppers, SignalTerm(t, s) PROVE Goal
    BY <1>29 DEF SignalTerm, processVars, TypeOK, GroupState, Anchored, Vouched
  <1>30. ASSUME NEW t \in Tasks, NEW s \in Stoppers, RequestForce(t, s)
         PROVE  Goal
    BY <1>30 DEF RequestForce, processVars, TypeOK, GroupState, Anchored,
         Vouched
  <1>31. ASSUME NEW t \in Tasks, NEW s \in Stoppers, SignalKill(t, s) PROVE Goal
    BY <1>31 DEF SignalKill, processVars, TypeOK, GroupState, Anchored, Vouched
  <1>32. ASSUME NEW t \in Tasks, NEW s \in Stoppers, SendKill(t, s) PROVE Goal
    BY <1>32, SignalResultsBoolean DEF SendKill, KillGroup, TypeOK, GroupState,
         Anchored, Vouched
  <1>33. ASSUME NEW t \in Tasks, NEW s \in Stoppers, SendQuietKill(t, s)
         PROVE  Goal
    BY <1>33, SignalResultsBoolean DEF SendQuietKill, KillGroup, TypeOK,
         Anchored, Vouched
  <1>34. ASSUME NEW t \in Tasks,
                \/ RecordPendingStop(t) \/ ForgetPendingStop(t) \/ StopOwned(t)
                \/ ClaimInterrupt(t) \/ ReleaseInterrupt(t) \/ WatchdogFires(t)
                \/ WatchdogFinishes(t)
         PROVE  UNCHANGED <<owner, members, group, leader, payload, doomed>>
    BY <1>34 DEF RecordPendingStop, processVars, groupVars, threadVars,
         ForgetPendingStop, StopOwned, ClaimInterrupt, ReleaseInterrupt,
         WatchdogFires, WatchdogFinishes
  <1>35. ASSUME NEW t \in Tasks, NEW s \in Stoppers,
                \/ SendTerm(t, s) \/ GraceEnds(t, s) \/ QuietKill(t, s)
         PROVE  UNCHANGED <<owner, members, group, leader, payload, doomed>>
    BY <1>35 DEF SendTerm, processVars, GraceEnds, groupVars, QuietKill,
         LockToSend
  <1>36. ASSUME NEW r \in Roots, NEW step \in {"term", "force"},
                \/ StopForRoot(r) \/ StopRevokedTrust(r, step)
         PROVE  UNCHANGED <<owner, members, group, leader, payload, doomed>>
    BY <1>36 DEF StopForRoot, processVars, groupVars, StopRevokedTrust
  <1>37. ASSUME CloseStartAdmission \/ ShutdownAll
         PROVE  UNCHANGED <<owner, members, group, leader, payload, doomed>>
    BY <1>37 DEF CloseStartAdmission, processVars, groupVars, threadVars,
         ShutdownAll
  <1>38. ASSUME UNCHANGED vars
         PROVE  UNCHANGED <<owner, members, group, leader, payload, doomed>>
    BY <1>38 DEF vars, processVars, groupVars, threadVars
  <1> HIDE DEF Goal
  <1>39. ASSUME NEW t \in Tasks, StartStep(t) PROVE Goal
    BY <1>0, <1>1, <1>2, <1>3, <1>4, <1>5, <1>6, <1>7, <1>8, <1>9, <1>10, <1>11,
         <1>12, <1>39 DEF StartStep
  <1>40. ASSUME NEW t \in Tasks, WaiterStep(t) \/ WaiterPanic(t) PROVE Goal
    BY <1>0, <1>13, <1>14, <1>15, <1>16, <1>17, <1>18, <1>19, <1>20, <1>21,
         <1>22, <1>23, <1>24, <1>25, <1>26, <1>40 DEF WaiterStep
  <1>41. ASSUME NEW t \in Tasks,
                \/ RequestStep(t) \/ WatchdogFinishes(t) \/ Fork(t) \/ Exit(t)
         PROVE  Goal
    BY <1>0, <1>27, <1>28, <1>34, <1>41 DEF RequestStep
  <1>42. ASSUME NEW t \in Tasks, NEW s \in Stoppers, StopperStep(t, s)
         PROVE  Goal
    BY <1>0, <1>29, <1>30, <1>31, <1>32, <1>33, <1>35, <1>42 DEF StopperStep
  <1>43. ASSUME NEW r \in Roots,
                \/ StopForRoot(r) \/ StopRevokedTrust(r, "term")
                \/ StopRevokedTrust(r, "force")
         PROVE  Goal
    BY <1>0, <1>36, <1>43
  <1> QED BY <1>0, <1>37, <1>38, <1>39, <1>40, <1>41, <1>42, <1>43 DEF Next

(* The owner reaches the completion with "exited" only over a reap.         *)
LEMMA ReportedStep ==
  ASSUME TypeOK,
         \A t \in Tasks : Anchored(t),
         \A t \in Tasks : Vouched(t),
         \A t \in Tasks : Reported(t),
         [Next]_vars
  PROVE  \A x \in Tasks : Reported(x)'
  <1> DEFINE Goal == \A x \in Tasks : Reported(x)'
  <1> SUFFICES Goal
    OBVIOUS
  <1>0. ASSUME UNCHANGED <<owner, members, leader, payload, outcome>> PROVE Goal
    BY <1>0 DEF TypeOK, Anchored, Vouched, Reported
  <1>1. ASSUME NEW t \in Tasks, Admit(t) PROVE Goal
    BY <1>1 DEF Admit, Goto, processVars, historyVars, TypeOK, Anchored,
         Vouched, Reported, ExitSeen, Unspawned
  <1>2. ASSUME NEW t \in Tasks, RefuseStart(t) PROVE Goal
    BY <1>2 DEF RefuseStart, Goto, processVars, TypeOK, Anchored, Vouched,
         Reported, ExitSeen, Unspawned
  <1>3. ASSUME NEW t \in Tasks, Start(t) PROVE Goal
    BY <1>3 DEF Start, Goto, processVars, historyVars, TypeOK, Anchored,
         Vouched, Reported, ExitSeen, Unspawned
  <1>4. ASSUME NEW t \in Tasks, Recheck(t) PROVE Goal
    BY <1>4 DEF Recheck, Goto, processVars, historyVars, TypeOK, Anchored,
         Vouched, Reported, ExitSeen, Unspawned
  <1>5. ASSUME NEW t \in Tasks, Spawn(t) PROVE Goal
    BY <1>5 DEF Spawn, GroupFor, Goto, registryVars, historyVars, TypeOK,
         Anchored, Vouched, Reported, ExitSeen, Unspawned
  <1>6. ASSUME NEW t \in Tasks, PublishGroup(t) PROVE Goal
    BY <1>6 DEF PublishGroup, Goto, AfterPublish, processVars, historyVars,
         TypeOK, Anchored, Vouched, Reported, ExitSeen, Unspawned
  <1>7. ASSUME NEW t \in Tasks, SpawnWatchdog(t) PROVE Goal
    BY <1>7 DEF SpawnWatchdog, Goto, processVars, historyVars, TypeOK, Anchored,
         Vouched, Reported, ExitSeen, Unspawned
  <1>8. ASSUME NEW t \in Tasks, SpawnWaiter(t) PROVE Goal
    BY <1>8 DEF SpawnWaiter, Goto, processVars, historyVars, TypeOK, Anchored,
         Vouched, Reported, ExitSeen, Unspawned
  <1>9. ASSUME NEW t \in Tasks, DropForce(t) PROVE Goal
    BY <1>9, SignalResultsBoolean DEF DropForce, OwnerForceKill, Goto, TypeOK,
         Anchored, Vouched, Reported, ExitSeen, Unspawned
  <1>10. ASSUME NEW t \in Tasks, DropWait(t) PROVE Goal
    BY <1>10 DEF DropWait, Goto, processVars, historyVars, TypeOK, Anchored,
         Vouched, Reported, ExitSeen, Unspawned
  <1>11. ASSUME NEW t \in Tasks, DropClaim(t) PROVE Goal
    BY <1>11 DEF DropClaim, Goto, processVars, historyVars, TypeOK, Anchored,
         Vouched, Reported, ExitSeen, Unspawned
  <1>12. ASSUME NEW t \in Tasks, DropRemove(t) PROVE Goal
    BY <1>12 DEF DropRemove, Goto, processVars, TypeOK, Anchored, Vouched,
         Reported, ExitSeen, Unspawned
  <1>13. ASSUME NEW t \in Tasks, PollForce(t) PROVE Goal
    BY <1>13, SignalResultsBoolean DEF PollForce, threadVars, historyVars,
         TypeOK, Anchored, Vouched, Reported
  <1>14. ASSUME NEW t \in Tasks, ObserveExit(t) PROVE Goal
    BY <1>14 DEF ObserveExit, Goto, processVars, historyVars, TypeOK, Anchored,
         Vouched, Reported, ExitSeen, Unspawned
  <1>15. ASSUME NEW t \in Tasks, NoteOwnOutcome(t) PROVE Goal
    BY <1>15 DEF NoteOwnOutcome, Goto, processVars, TypeOK, Anchored, Vouched,
         Reported, ExitSeen, Unspawned
  <1>16. ASSUME NEW t \in Tasks, DrainPumps(t) PROVE Goal
    BY <1>16, SignalResultsBoolean DEF DrainPumps, Goto, OwnerForceStop,
         registryVars, LockFree, KillGroup, Stray, TypeOK, Anchored, Vouched,
         Reported, ExitSeen, Unspawned
  <1>17. ASSUME NEW t \in Tasks, ErrorForce(t) PROVE Goal
    BY <1>17, SignalResultsBoolean DEF ErrorForce, OwnerForceKill, Goto, TypeOK,
         Anchored, Vouched, Reported, ExitSeen, Unspawned
  <1>18. ASSUME NEW t \in Tasks, ReapBounded(t) PROVE Goal
    BY <1>18 DEF ReapBounded, Goto, processVars, historyVars, TypeOK, Anchored,
         Vouched, Reported, ExitSeen, Unspawned
  <1>19. ASSUME NEW t \in Tasks, Cleanup(t) PROVE Goal
    BY <1>19, SignalResultsBoolean DEF Cleanup, Goto, KillGroup, CleanupResult,
         TypeOK, Anchored, Vouched, Reported, ExitSeen, Unspawned
  <1>20. ASSUME NEW t \in Tasks, BeginReaping(t) PROVE Goal
    BY <1>20 DEF BeginReaping, Goto, processVars, historyVars, TypeOK, Anchored,
         Vouched, Reported, ExitSeen, Unspawned
  <1>21. ASSUME NEW t \in Tasks, ReapChild(t) PROVE Goal
    BY <1>21 DEF ReapChild, Goto, historyVars, TypeOK, Anchored, Vouched,
         Reported, ExitSeen, Unspawned
  <1>22. ASSUME NEW t \in Tasks, SettleGroup(t) PROVE Goal
    BY <1>22 DEF SettleGroup, Goto, AfterReap, processVars, historyVars, TypeOK,
         Anchored, Vouched, Reported, ExitSeen, Unspawned
  <1>23. ASSUME NEW t \in Tasks, CaptureCompletion(t) PROVE Goal
    BY <1>23 DEF CaptureCompletion, Goto, processVars, historyVars, TypeOK,
         Anchored, Vouched, Reported, ExitSeen, Unspawned
  <1>24. ASSUME NEW t \in Tasks, CompleteSettled(t) PROVE Goal
    BY <1>24 DEF CompleteSettled, TerminalStatus, Goto, processVars, TypeOK,
         Anchored, Vouched, Reported, ExitSeen, Unspawned
  <1>25. ASSUME NEW t \in Tasks, Emitted(t) PROVE Goal
    BY <1>25 DEF Emitted, Goto, processVars, historyVars, TypeOK, Anchored,
         Vouched, Reported, ExitSeen, Unspawned
  <1>26. ASSUME NEW t \in Tasks, WaiterPanic(t) PROVE Goal
    BY <1>26 DEF WaiterPanic, Goto, processVars, historyVars, TypeOK, Anchored,
         Vouched, Reported, ExitSeen, Unspawned
  <1>27. ASSUME NEW t \in Tasks, Fork(t) PROVE Goal
    BY <1>27 DEF Fork, threadVars, historyVars, TypeOK, Anchored, Vouched,
         Reported
  <1>28. ASSUME NEW t \in Tasks, Exit(t) PROVE Goal
    BY <1>28 DEF Exit, threadVars, historyVars, TypeOK, Anchored, Vouched,
         Reported
  <1>29. ASSUME NEW t \in Tasks, NEW s \in Stoppers, SendKill(t, s) PROVE Goal
    BY <1>29, SignalResultsBoolean DEF SendKill, KillGroup, TypeOK, Anchored,
         Vouched, Reported
  <1>30. ASSUME NEW t \in Tasks, NEW s \in Stoppers, SendQuietKill(t, s)
         PROVE  Goal
    BY <1>30, SignalResultsBoolean DEF SendQuietKill, KillGroup, TypeOK,
         Anchored, Vouched, Reported
  <1>31. ASSUME NEW t \in Tasks,
                \/ RecordPendingStop(t) \/ ForgetPendingStop(t) \/ StopOwned(t)
                \/ ClaimInterrupt(t) \/ ReleaseInterrupt(t) \/ WatchdogFires(t)
                \/ WatchdogFinishes(t)
         PROVE  UNCHANGED <<owner, members, leader, payload, outcome>>
    BY <1>31 DEF RecordPendingStop, processVars, threadVars, historyVars,
         ForgetPendingStop, StopOwned, ClaimInterrupt, ReleaseInterrupt,
         WatchdogFires, WatchdogFinishes
  <1>32. ASSUME NEW t \in Tasks, NEW s \in Stoppers,
                \/ SignalTerm(t, s) \/ SendTerm(t, s) \/ GraceEnds(t, s)
                \/ RequestForce(t, s) \/ SignalKill(t, s) \/ QuietKill(t, s)
         PROVE  UNCHANGED <<owner, members, leader, payload, outcome>>
    BY <1>32 DEF SignalTerm, LockToSend, processVars, historyVars, SendTerm,
         GraceEnds, RequestForce, SignalKill, QuietKill
  <1>33. ASSUME NEW r \in Roots, NEW step \in {"term", "force"},
                \/ StopForRoot(r) \/ StopRevokedTrust(r, step)
         PROVE  UNCHANGED <<owner, members, leader, payload, outcome>>
    BY <1>33 DEF StopForRoot, processVars, StopRevokedTrust
  <1>34. ASSUME CloseStartAdmission \/ ShutdownAll
         PROVE  UNCHANGED <<owner, members, leader, payload, outcome>>
    BY <1>34 DEF CloseStartAdmission, processVars, threadVars, historyVars,
         ShutdownAll
  <1>35. ASSUME UNCHANGED vars
         PROVE  UNCHANGED <<owner, members, leader, payload, outcome>>
    BY <1>35 DEF vars, processVars, threadVars, historyVars
  <1> HIDE DEF Goal
  <1>36. ASSUME NEW t \in Tasks, StartStep(t) PROVE Goal
    BY <1>0, <1>1, <1>2, <1>3, <1>4, <1>5, <1>6, <1>7, <1>8, <1>9, <1>10, <1>11,
         <1>12, <1>36 DEF StartStep
  <1>37. ASSUME NEW t \in Tasks, WaiterStep(t) \/ WaiterPanic(t) PROVE Goal
    BY <1>0, <1>13, <1>14, <1>15, <1>16, <1>17, <1>18, <1>19, <1>20, <1>21,
         <1>22, <1>23, <1>24, <1>25, <1>26, <1>37 DEF WaiterStep
  <1>38. ASSUME NEW t \in Tasks,
                \/ RequestStep(t) \/ WatchdogFinishes(t) \/ Fork(t) \/ Exit(t)
         PROVE  Goal
    BY <1>0, <1>27, <1>28, <1>31, <1>38 DEF RequestStep
  <1>39. ASSUME NEW t \in Tasks, NEW s \in Stoppers, StopperStep(t, s)
         PROVE  Goal
    BY <1>0, <1>29, <1>30, <1>32, <1>39 DEF StopperStep
  <1>40. ASSUME NEW r \in Roots,
                \/ StopForRoot(r) \/ StopRevokedTrust(r, "term")
                \/ StopRevokedTrust(r, "force")
         PROVE  Goal
    BY <1>0, <1>33, <1>40
  <1> QED BY <1>0, <1>34, <1>35, <1>36, <1>37, <1>38, <1>39, <1>40 DEF Next

(* The admission goes back after the exit was seen or the child killed.     *)
LEMMA AdmissionStep ==
  ASSUME TypeOK,
         \A t \in Tasks : Anchored(t),
         \A t \in Tasks : Admission(t),
         [Next]_vars
  PROVE  \A x \in Tasks : Admission(x)'
  <1> DEFINE Goal == \A x \in Tasks : Admission(x)'
  <1> SUFFICES Goal
    OBVIOUS
  <1>0. ASSUME UNCHANGED <<owner, leader, admitted, doomed>> PROVE Goal
    BY <1>0 DEF TypeOK, Anchored, Admission
  <1>1. ASSUME NEW t \in Tasks, Admit(t) PROVE Goal
    BY <1>1 DEF Admit, Goto, processVars, TypeOK, Anchored, Admission, Ended,
         ExitSeen, Unspawned
  <1>2. ASSUME NEW t \in Tasks, RefuseStart(t) PROVE Goal
    BY <1>2 DEF RefuseStart, GiveBack, Goto, processVars, TypeOK, Anchored,
         Admission, Ended, ExitSeen, Unspawned
  <1>3. ASSUME NEW t \in Tasks, Start(t) PROVE Goal
    BY <1>3 DEF Start, Goto, processVars, TypeOK, Anchored, Admission, Ended,
         ExitSeen, Unspawned
  <1>4. ASSUME NEW t \in Tasks, Recheck(t) PROVE Goal
    BY <1>4 DEF Recheck, Goto, registryVars, processVars, TypeOK, Anchored,
         Admission, Ended, ExitSeen, Unspawned
  <1>5. ASSUME NEW t \in Tasks, Spawn(t) PROVE Goal
    <2>1. owner[t] = "checked" /\ t \in admitted /\ UNCHANGED <<admitted, doomed>>
      BY <1>5 DEF Spawn, registryVars, Admission, Unspawned
    <2>2. \E step \in {"spawned", "dropClaim"} : Goto(t, step) /\ (step = "dropClaim" => UNCHANGED leader)
      BY <1>5 DEF Spawn
    <2>3. \A x \in Tasks \ {t} : leader'[x] = leader[x]
      <3>1. leader \in [Tasks -> {"none", "running", "exited", "reaped"}]
        BY DEF TypeOK
      <3>2. leader' = [leader EXCEPT ![t] = "running"] \/ leader' = leader
        BY <1>5 DEF Spawn
      <3> QED BY <3>1, <3>2
    <2> QED BY <2>1, <2>2, <2>3 DEF Goto, TypeOK, Anchored, Admission, Ended, Unspawned
  <1>6. ASSUME NEW t \in Tasks, PublishGroup(t) PROVE Goal
    BY <1>6 DEF PublishGroup, Goto, AfterPublish, processVars, TypeOK, Anchored,
         Admission, Ended, ExitSeen, Unspawned
  <1>7. ASSUME NEW t \in Tasks, SpawnWatchdog(t) PROVE Goal
    BY <1>7 DEF SpawnWatchdog, Goto, registryVars, processVars, TypeOK,
         Anchored, Admission, Ended, ExitSeen, Unspawned
  <1>8. ASSUME NEW t \in Tasks, SpawnWaiter(t) PROVE Goal
    BY <1>8 DEF SpawnWaiter, Goto, registryVars, processVars, TypeOK, Anchored,
         Admission, Ended, ExitSeen, Unspawned
  <1>9. ASSUME NEW t \in Tasks, DropForce(t) PROVE Goal
    <2>1. /\ owner[t] = "dropForce" /\ UNCHANGED <<leader, admitted>>
          /\ doomed' = [doomed EXCEPT ![t] = @ \/ leader[t] = "running"]
          /\ \E step \in {"dropWait", "bounded"} : Goto(t, step)
      BY <1>9, SignalResultsBoolean DEF DropForce, OwnerForceKill, ChildKilled, registryVars
    <2>2. /\ \A x \in Tasks : doomed[x] => doomed'[x]
          /\ leader[t] = "running" => doomed'[t]
      <3>1. doomed \in [Tasks -> BOOLEAN]
        BY DEF TypeOK
      <3> QED BY <2>1, <3>1
    <2>3. \A x \in Tasks \ {t} : owner'[x] = owner[x]
      BY <2>1 DEF Goto, TypeOK
    <2>4. owner'[t] \in {"dropWait", "bounded"}
      BY <2>1 DEF Goto, TypeOK
    <2> QED BY <2>1, <2>2, <2>3, <2>4 DEF Admission, Ended, Unspawned
  <1>10. ASSUME NEW t \in Tasks, DropWait(t) PROVE Goal
    BY <1>10 DEF DropWait, Goto, registryVars, processVars, TypeOK, Anchored,
         Admission, Ended, ExitSeen, Unspawned
  <1>11. ASSUME NEW t \in Tasks, DropClaim(t) PROVE Goal
    BY <1>11 DEF DropClaim, Goto, processVars, TypeOK, Anchored, Admission,
         Ended, ExitSeen, Unspawned
  <1>12. ASSUME NEW t \in Tasks, DropRemove(t) PROVE Goal
    BY <1>12 DEF DropRemove, GiveBack, Goto, processVars, TypeOK, Anchored,
         Admission, Ended, ExitSeen, Unspawned
  <1>13. ASSUME NEW t \in Tasks, PollForce(t) PROVE Goal
    BY <1>13, SignalResultsBoolean DEF PollForce, registryVars, threadVars,
         TypeOK, Anchored, Admission
  <1>14. ASSUME NEW t \in Tasks, ObserveExit(t) PROVE Goal
    BY <1>14 DEF ObserveExit, Goto, registryVars, processVars, TypeOK, Anchored,
         Admission, Ended, ExitSeen, Unspawned
  <1>15. ASSUME NEW t \in Tasks, NoteOwnOutcome(t) PROVE Goal
    BY <1>15 DEF NoteOwnOutcome, Goto, processVars, TypeOK, Anchored, Admission,
         Ended, ExitSeen, Unspawned
  <1>16. ASSUME NEW t \in Tasks, DrainPumps(t) PROVE Goal
    BY <1>16, SignalResultsBoolean DEF DrainPumps, Goto, OwnerForceStop,
         registryVars, LockFree, KillGroup, Stray, TypeOK, Anchored, Admission,
         Ended, ExitSeen, Unspawned
  <1>17. ASSUME NEW t \in Tasks, ErrorForce(t) PROVE Goal
    <2>1. /\ owner[t] = "errorForce" /\ UNCHANGED <<leader, admitted>>
          /\ doomed' = [doomed EXCEPT ![t] = @ \/ leader[t] = "running"]
          /\ \E step \in {"dropWait", "bounded"} : Goto(t, step)
      BY <1>17, SignalResultsBoolean DEF ErrorForce, OwnerForceKill, ChildKilled, registryVars
    <2>2. /\ \A x \in Tasks : doomed[x] => doomed'[x]
          /\ leader[t] = "running" => doomed'[t]
      <3>1. doomed \in [Tasks -> BOOLEAN]
        BY DEF TypeOK
      <3> QED BY <2>1, <3>1
    <2>3. \A x \in Tasks \ {t} : owner'[x] = owner[x]
      BY <2>1 DEF Goto, TypeOK
    <2>4. owner'[t] \in {"dropWait", "bounded"}
      BY <2>1 DEF Goto, TypeOK
    <2> QED BY <2>1, <2>2, <2>3, <2>4 DEF Admission, Ended, Unspawned
  <1>18. ASSUME NEW t \in Tasks, ReapBounded(t) PROVE Goal
    BY <1>18 DEF ReapBounded, Goto, registryVars, processVars, TypeOK, Anchored,
         Admission, Ended, ExitSeen, Unspawned
  <1>19. ASSUME NEW t \in Tasks, Cleanup(t) PROVE Goal
    BY <1>19, SignalResultsBoolean DEF Cleanup, Goto, KillGroup, registryVars,
         TypeOK, Anchored, Admission, Ended, ExitSeen, Unspawned
  <1>20. ASSUME NEW t \in Tasks, BeginReaping(t) PROVE Goal
    BY <1>20 DEF BeginReaping, Goto, registryVars, processVars, TypeOK,
         Anchored, Admission, Ended, ExitSeen, Unspawned
  <1>21. ASSUME NEW t \in Tasks, ReapChild(t) PROVE Goal
    BY <1>21 DEF ReapChild, Goto, registryVars, TypeOK, Anchored, Admission,
         Ended, ExitSeen, Unspawned
  <1>22. ASSUME NEW t \in Tasks, SettleGroup(t) PROVE Goal
    BY <1>22 DEF SettleGroup, Goto, AfterReap, registryVars, processVars,
         TypeOK, Anchored, Admission, Ended, ExitSeen, Unspawned
  <1>23. ASSUME NEW t \in Tasks, CaptureCompletion(t) PROVE Goal
    BY <1>23 DEF CaptureCompletion, Goto, processVars, TypeOK, Anchored,
         Admission, Ended, ExitSeen, Unspawned
  <1>24. ASSUME NEW t \in Tasks, CompleteSettled(t) PROVE Goal
    BY <1>24 DEF CompleteSettled, GiveBack, Goto, processVars, TypeOK, Anchored,
         Admission, Ended, ExitSeen, Unspawned
  <1>25. ASSUME NEW t \in Tasks, Emitted(t) PROVE Goal
    BY <1>25 DEF Emitted, Goto, registryVars, processVars, TypeOK, Anchored,
         Admission, Ended, ExitSeen, Unspawned
  <1>26. ASSUME NEW t \in Tasks, WaiterPanic(t) PROVE Goal
    BY <1>26 DEF WaiterPanic, Goto, registryVars, processVars, TypeOK, Anchored,
         Admission, Ended, ExitSeen, Unspawned
  <1>27. ASSUME NEW t \in Tasks, Exit(t) PROVE Goal
    BY <1>27 DEF Exit, registryVars, threadVars, TypeOK, Anchored, Admission
  <1>28. ASSUME NEW t \in Tasks, NEW s \in Stoppers, SendKill(t, s) PROVE Goal
    BY <1>28, SignalResultsBoolean DEF SendKill, KillGroup, registryVars,
         TypeOK, Anchored, Admission
  <1>29. ASSUME NEW t \in Tasks, NEW s \in Stoppers, SendQuietKill(t, s)
         PROVE  Goal
    BY <1>29, SignalResultsBoolean DEF SendQuietKill, KillGroup, registryVars,
         TypeOK, Anchored, Admission
  <1>30. ASSUME NEW t \in Tasks,
                \/ RecordPendingStop(t) \/ ForgetPendingStop(t) \/ StopOwned(t)
                \/ ClaimInterrupt(t) \/ ReleaseInterrupt(t) \/ WatchdogFires(t)
                \/ WatchdogFinishes(t) \/ Fork(t)
         PROVE  UNCHANGED <<owner, leader, admitted, doomed>>
    BY <1>30 DEF RecordPendingStop, processVars, threadVars, ForgetPendingStop,
         StopOwned, ClaimInterrupt, ReleaseInterrupt, WatchdogFires,
         WatchdogFinishes, registryVars, Fork
  <1>31. ASSUME NEW t \in Tasks, NEW s \in Stoppers,
                \/ SignalTerm(t, s) \/ SendTerm(t, s) \/ GraceEnds(t, s)
                \/ RequestForce(t, s) \/ SignalKill(t, s) \/ QuietKill(t, s)
         PROVE  UNCHANGED <<owner, leader, admitted, doomed>>
    BY <1>31 DEF SignalTerm, LockToSend, registryVars, processVars, SendTerm,
         GraceEnds, RequestForce, SignalKill, QuietKill
  <1>32. ASSUME NEW r \in Roots, NEW step \in {"term", "force"},
                \/ StopForRoot(r) \/ StopRevokedTrust(r, step)
         PROVE  UNCHANGED <<owner, leader, admitted, doomed>>
    BY <1>32 DEF StopForRoot, processVars, StopRevokedTrust
  <1>33. ASSUME CloseStartAdmission \/ ShutdownAll
         PROVE  UNCHANGED <<owner, leader, admitted, doomed>>
    BY <1>33 DEF CloseStartAdmission, processVars, threadVars, ShutdownAll
  <1>34. ASSUME UNCHANGED vars
         PROVE  UNCHANGED <<owner, leader, admitted, doomed>>
    BY <1>34 DEF vars, registryVars, processVars, threadVars
  <1> HIDE DEF Goal
  <1>35. ASSUME NEW t \in Tasks, StartStep(t) PROVE Goal
    BY <1>0, <1>1, <1>2, <1>3, <1>4, <1>5, <1>6, <1>7, <1>8, <1>9, <1>10, <1>11,
         <1>12, <1>35 DEF StartStep
  <1>36. ASSUME NEW t \in Tasks, WaiterStep(t) \/ WaiterPanic(t) PROVE Goal
    BY <1>0, <1>13, <1>14, <1>15, <1>16, <1>17, <1>18, <1>19, <1>20, <1>21,
         <1>22, <1>23, <1>24, <1>25, <1>26, <1>36 DEF WaiterStep
  <1>37. ASSUME NEW t \in Tasks,
                \/ RequestStep(t) \/ WatchdogFinishes(t) \/ Fork(t) \/ Exit(t)
         PROVE  Goal
    BY <1>0, <1>27, <1>30, <1>37 DEF RequestStep
  <1>38. ASSUME NEW t \in Tasks, NEW s \in Stoppers, StopperStep(t, s)
         PROVE  Goal
    BY <1>0, <1>28, <1>29, <1>31, <1>38 DEF StopperStep
  <1>39. ASSUME NEW r \in Roots,
                \/ StopForRoot(r) \/ StopRevokedTrust(r, "term")
                \/ StopRevokedTrust(r, "force")
         PROVE  Goal
    BY <1>0, <1>32, <1>39
  <1> QED BY <1>0, <1>33, <1>34, <1>35, <1>36, <1>37, <1>38, <1>39 DEF Next

(* An entry is claimed before it goes, and a start that is still under way  *)
(* has its entry.                                                           *)
LEMMA PresentStep ==
  ASSUME TypeOK,
         \A t \in Tasks : Anchored(t),
         \A t \in Tasks : Admission(t),
         \A t \in Tasks : Present(t),
         [Next]_vars
  PROVE  \A x \in Tasks : Present(x)'
  <1> DEFINE Goal == \A x \in Tasks : Present(x)'
  <1> SUFFICES Goal
    OBVIOUS
  <1>0. ASSUME UNCHANGED <<owner, leader, doomed, entry>> PROVE Goal
    BY <1>0 DEF TypeOK, Anchored, Admission, Present, Live
  <1>1. ASSUME NEW t \in Tasks, Admit(t) PROVE Goal
    BY <1>1 DEF Admit, Goto, processVars, TypeOK, Anchored, Admission, Present,
         Apart, Live, Ended, ExitSeen, Unspawned
  <1>2. ASSUME NEW t \in Tasks, RefuseStart(t) PROVE Goal
    BY <1>2 DEF RefuseStart, Goto, processVars, TypeOK, Anchored, Admission,
         Present, Apart, Live, Ended, ExitSeen, Unspawned
  <1>3. ASSUME NEW t \in Tasks, Start(t) PROVE Goal
    BY <1>3 DEF Start, NoEntry, Goto, processVars, TypeOK, EntryState, Anchored,
         Admission, Present, Apart, Live, Ended, ExitSeen, Unspawned
  <1>4. ASSUME NEW t \in Tasks, Recheck(t) PROVE Goal
    BY <1>4 DEF Recheck, Goto, registryVars, processVars, TypeOK, Anchored,
         Admission, Present, Apart, Live, Ended, ExitSeen, Unspawned
  <1>5. ASSUME NEW t \in Tasks, Spawn(t) PROVE Goal
    BY <1>5 DEF Spawn, GroupFor, Goto, registryVars, historyVars, TypeOK,
         EntryState, Anchored, Admission, Present, Apart, Live, Ended, ExitSeen,
         Unspawned
  <1>6. ASSUME NEW t \in Tasks, PublishGroup(t) PROVE Goal
    <2>1. /\ UNCHANGED <<leader, doomed>> /\ owner[t] = "spawned"
          /\ \E step \in {"dropForce", "published"} : Goto(t, step)
      BY <1>6 DEF PublishGroup, AfterPublish, processVars
    <2>2. \A x \in Tasks : /\ entry'[x].phase = entry[x].phase
                          /\ entry'[x].claimed = entry[x].claimed
      BY <1>6, PublishedEntry DEF TypeOK
    <2>3. /\ owner'[t] \in {"dropForce", "published"}
          /\ \A x \in Tasks \ {t} : owner'[x] = owner[x]
      BY <2>1, GotoTask DEF TypeOK
    <2> QED BY <2>1, <2>2, <2>3 DEF Present, Live, Apart
  <1>7. ASSUME NEW t \in Tasks, SpawnWatchdog(t) PROVE Goal
    <2>1. /\ UNCHANGED <<leader, doomed, entry>>
          /\ owner[t] = "published"
          /\ \E step \in {"guarded", "dropForce"} : Goto(t, step)
      BY <1>7 DEF SpawnWatchdog, processVars, registryVars
    <2>2. owner'[t] \in {"guarded", "dropForce"} /\ \A x \in Tasks \ {t} : owner'[x] = owner[x]
      BY <2>1, GotoTask DEF TypeOK
    <2> QED BY <2>1, <2>2 DEF Present, Live, Apart
  <1>8. ASSUME NEW t \in Tasks, SpawnWaiter(t) PROVE Goal
    <2>1. /\ UNCHANGED <<leader, doomed, entry>>
          /\ owner[t] = "guarded"
          /\ \E step \in {"poll", "dropForce"} : Goto(t, step)
      BY <1>8 DEF SpawnWaiter, processVars, registryVars
    <2>2. owner'[t] \in {"poll", "dropForce"} /\ \A x \in Tasks \ {t} : owner'[x] = owner[x]
      BY <2>1, GotoTask DEF TypeOK
    <2> QED BY <2>1, <2>2 DEF Present, Live, Apart
  <1>9. ASSUME NEW t \in Tasks, DropForce(t) PROVE Goal
    BY <1>9, SignalResultsBoolean DEF DropForce, OwnerForceKill, Goto,
         ChildKilled, TypeOK, EntryState, Anchored, Admission, Present, Apart,
         Live, Ended, ExitSeen, Unspawned
  <1>10. ASSUME NEW t \in Tasks, DropWait(t) PROVE Goal
    BY <1>10 DEF DropWait, Goto, registryVars, processVars, TypeOK, Anchored,
         Admission, Present, Apart, Live, Ended, ExitSeen, Unspawned
  <1>11. ASSUME NEW t \in Tasks, DropClaim(t) PROVE Goal
    BY <1>11 DEF DropClaim, Goto, processVars, TypeOK, EntryState, Anchored,
         Admission, Present, Apart, Live, Ended, ExitSeen, Unspawned
  <1>12. ASSUME NEW t \in Tasks, DropRemove(t) PROVE Goal
    BY <1>12 DEF DropRemove, NoEntry, Goto, processVars, TypeOK, EntryState,
         Anchored, Admission, Present, Apart, Live, Ended, ExitSeen, Unspawned
  <1>13. ASSUME NEW t \in Tasks, PollForce(t) PROVE Goal
    BY <1>13, SignalResultsBoolean DEF PollForce, registryVars, threadVars,
         TypeOK, Anchored, Admission, Present, Live
  <1>14. ASSUME NEW t \in Tasks, ObserveExit(t) PROVE Goal
    <2>1. /\ UNCHANGED <<leader, doomed, entry>>
          /\ owner[t] = "poll"
          /\ \E step \in {"own", "ownError"} : Goto(t, step)
      BY <1>14 DEF ObserveExit, processVars, registryVars
    <2>2. owner'[t] \in {"own", "ownError"} /\ \A x \in Tasks \ {t} : owner'[x] = owner[x]
      BY <2>1, GotoTask DEF TypeOK
    <2> QED BY <2>1, <2>2 DEF Present, Live, Apart
  <1>15. ASSUME NEW t \in Tasks, NoteOwnOutcome(t) PROVE Goal
    BY <1>15 DEF NoteOwnOutcome, Noted, Goto, processVars, TypeOK, EntryState,
         Anchored, Admission, Present, Apart, Live, Ended, ExitSeen, Unspawned
  <1>16. ASSUME NEW t \in Tasks, DrainPumps(t) PROVE Goal
    BY <1>16, SignalResultsBoolean DEF DrainPumps, Goto, OwnerForceStop,
         registryVars, LockFree, KillGroup, Stray, TypeOK, EntryState, Anchored,
         Admission, Present, Apart, Live, Ended, ExitSeen, Unspawned
  <1>17. ASSUME NEW t \in Tasks, ErrorForce(t) PROVE Goal
    BY <1>17, SignalResultsBoolean DEF ErrorForce, OwnerForceKill, Goto,
         registryVars, ChildKilled, TypeOK, Anchored, Admission, Present, Apart,
         Live, Ended, ExitSeen, Unspawned
  <1>18. ASSUME NEW t \in Tasks, ReapBounded(t) PROVE Goal
    BY <1>18 DEF ReapBounded, Goto, registryVars, processVars, groupVars,
         historyVars, TypeOK, EntryState, Anchored, Admission, Present, Apart,
         Live, Ended, ExitSeen, Unspawned
  <1>19. ASSUME NEW t \in Tasks, Cleanup(t) PROVE Goal
    BY <1>19, SignalResultsBoolean DEF Cleanup, Goto, KillGroup, registryVars,
         TypeOK, Anchored, Admission, Present, Apart, Live, Ended, ExitSeen,
         Unspawned
  <1>20. ASSUME NEW t \in Tasks, BeginReaping(t) PROVE Goal
    BY <1>20 DEF BeginReaping, Goto, registryVars, processVars, TypeOK,
         Anchored, Admission, Present, Apart, Live, Ended, ExitSeen, Unspawned
  <1>21. ASSUME NEW t \in Tasks, ReapChild(t) PROVE Goal
    BY <1>21 DEF ReapChild, Goto, registryVars, TypeOK, Anchored, Admission,
         Present, Apart, Live, Ended, ExitSeen, Unspawned
  <1>22. ASSUME NEW t \in Tasks, SettleGroup(t) PROVE Goal
    BY <1>22 DEF SettleGroup, Goto, AfterReap, registryVars, processVars,
         TypeOK, Anchored, Admission, Present, Apart, Live, Ended, ExitSeen,
         Unspawned
  <1>23. ASSUME NEW t \in Tasks, CaptureCompletion(t) PROVE Goal
    BY <1>23 DEF CaptureCompletion, Goto, processVars, TypeOK, EntryState,
         Anchored, Admission, Present, Apart, Live, Ended, ExitSeen, Unspawned
  <1>24. ASSUME NEW t \in Tasks, CompleteSettled(t) PROVE Goal
    BY <1>24 DEF CompleteSettled, Goto, processVars, TypeOK, EntryState,
         Anchored, Admission, Present, Apart, Live, Ended, ExitSeen, Unspawned
  <1>25. ASSUME NEW t \in Tasks, Emitted(t) PROVE Goal
    BY <1>25 DEF Emitted, Goto, registryVars, processVars, TypeOK, Anchored,
         Admission, Present, Apart, Live, Ended, ExitSeen, Unspawned
  <1>26. ASSUME NEW t \in Tasks, WaiterPanic(t) PROVE Goal
    BY <1>26 DEF WaiterPanic, Goto, registryVars, processVars, TypeOK, Anchored,
         Admission, Present, Apart, Live, Ended, ExitSeen, Unspawned
  <1>27. ASSUME NEW t \in Tasks, StopOwned(t) PROVE Goal
    BY <1>27 DEF StopOwned, Live, processVars, TypeOK, EntryState, Anchored,
         Admission, Present
  <1>28. ASSUME NEW t \in Tasks, ClaimInterrupt(t) PROVE Goal
    BY <1>28 DEF ClaimInterrupt, Live, processVars, threadVars, TypeOK,
         EntryState, Anchored, Admission, Present
  <1>29. ASSUME NEW t \in Tasks, ReleaseInterrupt(t) PROVE Goal
    BY <1>29 DEF ReleaseInterrupt, Live, processVars, threadVars, TypeOK,
         EntryState, Anchored, Admission, Present
  <1>30. ASSUME NEW t \in Tasks, WatchdogFires(t) PROVE Goal
    BY <1>30 DEF WatchdogFires, Live, processVars, TypeOK, EntryState, Anchored,
         Admission, Present
  <1>31. ASSUME NEW t \in Tasks, Exit(t) PROVE Goal
    BY <1>31 DEF Exit, registryVars, threadVars, TypeOK, Anchored, Admission,
         Present, Live
  <1>32. ASSUME NEW t \in Tasks, NEW s \in Stoppers, SendKill(t, s) PROVE Goal
    BY <1>32, SignalResultsBoolean DEF SendKill, KillGroup, registryVars,
         TypeOK, Anchored, Admission, Present, Live
  <1>33. ASSUME NEW t \in Tasks, NEW s \in Stoppers, SendQuietKill(t, s)
         PROVE  Goal
    BY <1>33, SignalResultsBoolean DEF SendQuietKill, KillGroup, registryVars,
         TypeOK, Anchored, Admission, Present, Live
  <1>34. ASSUME NEW r \in Roots, StopForRoot(r) PROVE Goal
    BY <1>34 DEF StopForRoot, Targets, ClaimTargets, processVars, Live, TypeOK,
         EntryState, Anchored, Admission, Present
  <1>35. ASSUME NEW r \in Roots, NEW step \in {"term", "force"},
                StopRevokedTrust(r, step)
         PROVE  Goal
    <2>1. UNCHANGED <<leader, doomed, owner>>
      BY <1>35 DEF StopRevokedTrust, processVars
    <2>2. \A x \in Tasks : /\ entry'[x].phase = entry[x].phase
                          /\ entry'[x].claimed = entry[x].claimed
      BY <1>35, RevokedEntry DEF TypeOK
    <2> QED BY <2>1, <2>2 DEF Present, Live
  <1>36. ASSUME ShutdownAll PROVE Goal
    BY <1>36 DEF ShutdownAll, Live, ClaimTargets, processVars, TypeOK,
         EntryState, Anchored, Admission, Present
  <1>37. ASSUME NEW t \in Tasks,
                \/ RecordPendingStop(t) \/ ForgetPendingStop(t)
                \/ WatchdogFinishes(t) \/ Fork(t)
         PROVE  UNCHANGED <<owner, leader, doomed, entry>>
    BY <1>37 DEF RecordPendingStop, processVars, threadVars, ForgetPendingStop,
         WatchdogFinishes, registryVars, Fork
  <1>38. ASSUME NEW t \in Tasks, NEW s \in Stoppers,
                \/ SignalTerm(t, s) \/ SendTerm(t, s) \/ GraceEnds(t, s)
                \/ RequestForce(t, s) \/ SignalKill(t, s) \/ QuietKill(t, s)
         PROVE  UNCHANGED <<owner, leader, doomed, entry>>
    BY <1>38 DEF SignalTerm, LockToSend, registryVars, processVars, SendTerm,
         GraceEnds, RequestForce, SignalKill, QuietKill
  <1>39. ASSUME CloseStartAdmission
         PROVE  UNCHANGED <<owner, leader, doomed, entry>>
    BY <1>39 DEF CloseStartAdmission, processVars, threadVars
  <1>40. ASSUME UNCHANGED vars PROVE UNCHANGED <<owner, leader, doomed, entry>>
    BY <1>40 DEF vars, registryVars, processVars, threadVars
  <1> HIDE DEF Goal
  <1>41. ASSUME NEW t \in Tasks, StartStep(t) PROVE Goal
    BY <1>0, <1>1, <1>2, <1>3, <1>4, <1>5, <1>6, <1>7, <1>8, <1>9, <1>10, <1>11,
         <1>12, <1>41 DEF StartStep
  <1>42. ASSUME NEW t \in Tasks, WaiterStep(t) \/ WaiterPanic(t) PROVE Goal
    BY <1>0, <1>13, <1>14, <1>15, <1>16, <1>17, <1>18, <1>19, <1>20, <1>21,
         <1>22, <1>23, <1>24, <1>25, <1>26, <1>42 DEF WaiterStep
  <1>43. ASSUME NEW t \in Tasks,
                \/ RequestStep(t) \/ WatchdogFinishes(t) \/ Fork(t) \/ Exit(t)
         PROVE  Goal
    BY <1>0, <1>27, <1>28, <1>29, <1>30, <1>31, <1>37, <1>43 DEF RequestStep
  <1>44. ASSUME NEW t \in Tasks, NEW s \in Stoppers, StopperStep(t, s)
         PROVE  Goal
    BY <1>0, <1>32, <1>33, <1>38, <1>44 DEF StopperStep
  <1>45. ASSUME NEW r \in Roots,
                \/ StopForRoot(r) \/ StopRevokedTrust(r, "term")
                \/ StopRevokedTrust(r, "force")
         PROVE  Goal
    BY <1>0, <1>34, <1>35, <1>45
  <1> QED BY <1>0, <1>36, <1>39, <1>40, <1>41, <1>42, <1>43, <1>44, <1>45 DEF
       Next

(* The shutdown sweeps after the starts are closed: nobody registers later. *)
LEMMA SweptStep ==
  ASSUME TypeOK,
         Swept,
         [Next]_vars
  PROVE  Swept'
  <1> DEFINE Goal == Swept'
  <1> SUFFICES Goal
    OBVIOUS
  <1>0. ASSUME UNCHANGED <<entry, startsClosed, shutdownSwept>> PROVE Goal
    BY <1>0 DEF TypeOK, Swept, Live
  <1>1. ASSUME NEW t \in Tasks, Start(t) PROVE Goal
    BY <1>1 DEF Start, MayStart, NoEntry, historyVars, TypeOK, EntryState,
         Swept, Live
  <1>2. ASSUME NEW t \in Tasks, PublishGroup(t) PROVE Goal
    <2>1. UNCHANGED <<startsClosed, shutdownSwept>>
      BY <1>2 DEF PublishGroup, historyVars
    <2>2. \A x \in Tasks : /\ entry'[x].phase = entry[x].phase
                          /\ entry'[x].stopRequested = entry[x].stopRequested
      BY <1>2, PublishedEntry DEF TypeOK
    <2> QED BY <2>1, <2>2 DEF Swept, Live
  <1>3. ASSUME NEW t \in Tasks, DropForce(t) PROVE Goal
    BY <1>3, SignalResultsBoolean DEF DropForce, TypeOK, EntryState, Swept, Live
  <1>4. ASSUME NEW t \in Tasks, DropClaim(t) PROVE Goal
    BY <1>4 DEF DropClaim, historyVars, TypeOK, EntryState, Swept, Live
  <1>5. ASSUME NEW t \in Tasks, DropRemove(t) PROVE Goal
    BY <1>5 DEF DropRemove, NoEntry, TypeOK, EntryState, Swept, Live
  <1>6. ASSUME NEW t \in Tasks, NoteOwnOutcome(t) PROVE Goal
    BY <1>6 DEF NoteOwnOutcome, Noted, TypeOK, EntryState, Swept, Live
  <1>7. ASSUME NEW t \in Tasks, CaptureCompletion(t) PROVE Goal
    BY <1>7 DEF CaptureCompletion, historyVars, TypeOK, EntryState, Swept, Live
  <1>8. ASSUME NEW t \in Tasks, CompleteSettled(t) PROVE Goal
    BY <1>8 DEF CompleteSettled, TypeOK, EntryState, Swept, Live
  <1>9. ASSUME NEW t \in Tasks, StopOwned(t) PROVE Goal
    BY <1>9 DEF StopOwned, Live, TypeOK, EntryState, Swept
  <1>10. ASSUME NEW t \in Tasks, ClaimInterrupt(t) PROVE Goal
    BY <1>10 DEF ClaimInterrupt, Live, historyVars, TypeOK, EntryState, Swept
  <1>11. ASSUME NEW t \in Tasks, ReleaseInterrupt(t) PROVE Goal
    BY <1>11 DEF ReleaseInterrupt, Live, historyVars, TypeOK, EntryState, Swept
  <1>12. ASSUME NEW t \in Tasks, WatchdogFires(t) PROVE Goal
    BY <1>12 DEF WatchdogFires, Live, historyVars, TypeOK, EntryState, Swept
  <1>13. ASSUME NEW r \in Roots, StopForRoot(r) PROVE Goal
    BY <1>13 DEF StopForRoot, Targets, ClaimTargets, Live, TypeOK, EntryState,
         Swept
  <1>14. ASSUME NEW r \in Roots, NEW step \in {"term", "force"},
                StopRevokedTrust(r, step)
         PROVE  Goal
    <2>1. UNCHANGED <<startsClosed, shutdownSwept>>
      BY <1>14 DEF StopRevokedTrust
    <2>2. ASSUME Swept, shutdownSwept, NEW x \in Tasks, Live(x)' PROVE entry'[x].stopRequested
      <3>1. /\ entry'[x].phase = entry[x].phase
            /\ \/ entry'[x].stopRequested = entry[x].stopRequested
               \/ entry'[x].stopRequested
        BY <1>14, RevokedEntry DEF TypeOK
      <3>2. entry[x].stopRequested
        BY <2>2, <3>1 DEF Swept, Live
      <3> QED BY <3>1, <3>2
    <2> QED BY <2>1, <2>2 DEF Swept
  <1>15. ASSUME CloseStartAdmission PROVE Goal
    BY <1>15 DEF CloseStartAdmission, historyVars, TypeOK, Swept, Live
  <1>16. ASSUME ShutdownAll PROVE Goal
    BY <1>16 DEF ShutdownAll, Live, ClaimTargets, TypeOK, EntryState, Swept
  <1>17. ASSUME NEW t \in Tasks,
                \/ Admit(t) \/ RefuseStart(t) \/ Recheck(t) \/ Spawn(t)
                \/ SpawnWatchdog(t) \/ SpawnWaiter(t) \/ DropWait(t)
                \/ PollForce(t) \/ ObserveExit(t) \/ DrainPumps(t)
                \/ ErrorForce(t) \/ ReapBounded(t) \/ Cleanup(t)
                \/ BeginReaping(t) \/ ReapChild(t) \/ SettleGroup(t)
                \/ Emitted(t) \/ WaiterPanic(t) \/ RecordPendingStop(t)
                \/ ForgetPendingStop(t) \/ WatchdogFinishes(t) \/ Fork(t)
                \/ Exit(t)
         PROVE  UNCHANGED <<entry, startsClosed, shutdownSwept>>
    BY <1>17 DEF Admit, historyVars, RefuseStart, Recheck, registryVars, Spawn,
         SpawnWatchdog, SpawnWaiter, DropWait, PollForce, ObserveExit,
         DrainPumps, OwnerForceStop, ErrorForce, OwnerForceKill, ReapBounded,
         Cleanup, BeginReaping, ReapChild, SettleGroup, Emitted, WaiterPanic,
         RecordPendingStop, ForgetPendingStop, WatchdogFinishes, Fork, Exit
  <1>18. ASSUME NEW t \in Tasks, NEW s \in Stoppers,
                \/ SignalTerm(t, s) \/ SendTerm(t, s) \/ GraceEnds(t, s)
                \/ RequestForce(t, s) \/ SignalKill(t, s) \/ SendKill(t, s)
                \/ QuietKill(t, s) \/ SendQuietKill(t, s)
         PROVE  UNCHANGED <<entry, startsClosed, shutdownSwept>>
    BY <1>18 DEF SignalTerm, LockToSend, registryVars, historyVars, SendTerm,
         GraceEnds, RequestForce, SignalKill, SendKill, QuietKill, SendQuietKill
  <1>19. ASSUME UNCHANGED vars
         PROVE  UNCHANGED <<entry, startsClosed, shutdownSwept>>
    BY <1>19 DEF vars, registryVars, historyVars
  <1> HIDE DEF Goal
  <1>20. ASSUME NEW t \in Tasks, StartStep(t) PROVE Goal
    BY <1>0, <1>1, <1>2, <1>3, <1>4, <1>5, <1>17, <1>20 DEF StartStep
  <1>21. ASSUME NEW t \in Tasks, WaiterStep(t) \/ WaiterPanic(t) PROVE Goal
    BY <1>0, <1>6, <1>7, <1>8, <1>17, <1>21 DEF WaiterStep
  <1>22. ASSUME NEW t \in Tasks,
                \/ RequestStep(t) \/ WatchdogFinishes(t) \/ Fork(t) \/ Exit(t)
         PROVE  Goal
    BY <1>0, <1>9, <1>10, <1>11, <1>12, <1>17, <1>22 DEF RequestStep
  <1>23. ASSUME NEW t \in Tasks, NEW s \in Stoppers, StopperStep(t, s)
         PROVE  Goal
    BY <1>0, <1>18, <1>23 DEF StopperStep
  <1>24. ASSUME NEW r \in Roots,
                \/ StopForRoot(r) \/ StopRevokedTrust(r, "term")
                \/ StopRevokedTrust(r, "force")
         PROVE  Goal
    BY <1>0, <1>13, <1>14, <1>24
  <1> QED BY <1>0, <1>15, <1>16, <1>19, <1>20, <1>21, <1>22, <1>23, <1>24 DEF
       Next

(* The flags of the entry are set with the cause, or keep what was first.   *)
LEMMA BlamedStep ==
  ASSUME TypeOK,
         \A t \in Tasks : StartsOnce(t),
         \A t \in Tasks : Present(t),
         \A t \in Tasks : Blamed(t),
         [Next]_vars
  PROVE  \A x \in Tasks : Blamed(x)'
  <1> DEFINE Goal == \A x \in Tasks : Blamed(x)'
  <1> SUFFICES Goal
    OBVIOUS
  <1>0. ASSUME UNCHANGED <<owner, entry, cause, outcome>> PROVE Goal
    BY <1>0 DEF TypeOK, StartsOnce, Present, Blamed, Live
  <1>1. ASSUME NEW t \in Tasks, Admit(t) PROVE Goal
    BY <1>1 DEF Admit, Goto, historyVars, TypeOK, StartsOnce, Present, Blamed,
         Live
  <1>2. ASSUME NEW t \in Tasks, RefuseStart(t) PROVE Goal
    BY <1>2 DEF RefuseStart, Goto, TypeOK, StartsOnce, Present, Blamed, Live
  <1>3. ASSUME NEW t \in Tasks, Start(t) PROVE Goal
    BY <1>3 DEF Start, NoEntry, Goto, historyVars, TypeOK, EntryState,
         StartsOnce, Present, Blamed, Live
  <1>4. ASSUME NEW t \in Tasks, Recheck(t) PROVE Goal
    BY <1>4 DEF Recheck, Goto, registryVars, historyVars, TypeOK, StartsOnce,
         Present, Blamed, Live
  <1>5. ASSUME NEW t \in Tasks, Spawn(t) PROVE Goal
    BY <1>5 DEF Spawn, GroupFor, Goto, registryVars, historyVars, TypeOK,
         EntryState, StartsOnce, Present, Blamed, Live
  <1>6. ASSUME NEW t \in Tasks, PublishGroup(t) PROVE Goal
    <2>1. /\ UNCHANGED <<cause, outcome>> /\ owner[t] = "spawned"
          /\ \E step \in {"dropForce", "published"} : Goto(t, step)
      BY <1>6 DEF PublishGroup, AfterPublish, historyVars
    <2>2. \A x \in Tasks : /\ entry'[x].phase = entry[x].phase
                          /\ entry'[x].authority = entry[x].authority
                          /\ entry'[x].stopRequested = entry[x].stopRequested
      BY <1>6, PublishedEntry DEF TypeOK
    <2>3. /\ owner'[t] \in {"dropForce", "published"}
          /\ \A x \in Tasks \ {t} : owner'[x] = owner[x]
      BY <2>1, GotoTask DEF TypeOK
    <2> QED BY <2>1, <2>2, <2>3 DEF StartsOnce, Blamed, Live
  <1>7. ASSUME NEW t \in Tasks, SpawnWatchdog(t) PROVE Goal
    BY <1>7 DEF SpawnWatchdog, Goto, registryVars, historyVars, TypeOK,
         StartsOnce, Present, Blamed, Live
  <1>8. ASSUME NEW t \in Tasks, SpawnWaiter(t) PROVE Goal
    BY <1>8 DEF SpawnWaiter, Goto, registryVars, historyVars, TypeOK,
         StartsOnce, Present, Blamed, Live
  <1>9. ASSUME NEW t \in Tasks, DropForce(t) PROVE Goal
    BY <1>9, SignalResultsBoolean DEF DropForce, Goto, TypeOK, EntryState,
         StartsOnce, Present, Blamed, Live
  <1>10. ASSUME NEW t \in Tasks, DropWait(t) PROVE Goal
    BY <1>10 DEF DropWait, Goto, registryVars, historyVars, TypeOK, StartsOnce,
         Present, Blamed, Live
  <1>11. ASSUME NEW t \in Tasks, DropClaim(t) PROVE Goal
    BY <1>11 DEF DropClaim, Goto, historyVars, TypeOK, EntryState, StartsOnce,
         Present, Blamed, Live
  <1>12. ASSUME NEW t \in Tasks, DropRemove(t) PROVE Goal
    BY <1>12 DEF DropRemove, NoEntry, Goto, TypeOK, EntryState, StartsOnce,
         Present, Blamed, Live
  <1>13. ASSUME NEW t \in Tasks, ObserveExit(t) PROVE Goal
    BY <1>13 DEF ObserveExit, Goto, registryVars, historyVars, TypeOK,
         StartsOnce, Present, Blamed, Live
  <1>14. ASSUME NEW t \in Tasks, NoteOwnOutcome(t) PROVE Goal
    BY <1>14 DEF NoteOwnOutcome, Noted, Blame, Goto, TypeOK, EntryState,
         StartsOnce, Present, Blamed, Live
  <1>15. ASSUME NEW t \in Tasks, DrainPumps(t) PROVE Goal
    BY <1>15, SignalResultsBoolean DEF DrainPumps, Goto, registryVars, TypeOK,
         StartsOnce, Present, Blamed, Live
  <1>16. ASSUME NEW t \in Tasks, ErrorForce(t) PROVE Goal
    BY <1>16, SignalResultsBoolean DEF ErrorForce, Goto, registryVars, TypeOK,
         StartsOnce, Present, Blamed, Live
  <1>17. ASSUME NEW t \in Tasks, ReapBounded(t) PROVE Goal
    BY <1>17 DEF ReapBounded, Goto, registryVars, historyVars, TypeOK,
         StartsOnce, Present, Blamed, Live
  <1>18. ASSUME NEW t \in Tasks, Cleanup(t) PROVE Goal
    BY <1>18, SignalResultsBoolean DEF Cleanup, Goto, registryVars, TypeOK,
         StartsOnce, Present, Blamed, Live
  <1>19. ASSUME NEW t \in Tasks, BeginReaping(t) PROVE Goal
    BY <1>19 DEF BeginReaping, Goto, registryVars, historyVars, TypeOK,
         StartsOnce, Present, Blamed, Live
  <1>20. ASSUME NEW t \in Tasks, ReapChild(t) PROVE Goal
    BY <1>20 DEF ReapChild, Goto, registryVars, historyVars, TypeOK, StartsOnce,
         Present, Blamed, Live
  <1>21. ASSUME NEW t \in Tasks, SettleGroup(t) PROVE Goal
    BY <1>21 DEF SettleGroup, Goto, AfterReap, registryVars, historyVars,
         TypeOK, StartsOnce, Present, Blamed, Live
  <1>22. ASSUME NEW t \in Tasks, CaptureCompletion(t) PROVE Goal
    BY <1>22 DEF CaptureCompletion, Goto, historyVars, TypeOK, EntryState,
         StartsOnce, Present, Blamed, Live
  <1>23. ASSUME NEW t \in Tasks, CompleteSettled(t) PROVE Goal
    BY <1>23 DEF CompleteSettled, TerminalStatus, Goto, TypeOK, EntryState,
         StartsOnce, Present, Blamed, Live
  <1>24. ASSUME NEW t \in Tasks, Emitted(t) PROVE Goal
    BY <1>24 DEF Emitted, Goto, registryVars, historyVars, TypeOK, StartsOnce,
         Present, Blamed, Live
  <1>25. ASSUME NEW t \in Tasks, WaiterPanic(t) PROVE Goal
    BY <1>25 DEF WaiterPanic, Goto, registryVars, historyVars, TypeOK,
         StartsOnce, Present, Blamed, Live
  <1>26. ASSUME NEW t \in Tasks, StopOwned(t) PROVE Goal
    <2>1. /\ Live(t) /\ ~entry[t].stopRequested
          /\ entry' = [entry EXCEPT ![t].stopRequested = TRUE]
          /\ UNCHANGED <<owner, outcome>>
      BY <1>26 DEF StopOwned
    <2>2. \A x \in Tasks : cause'[x] = IF x = t /\ cause[x] = "none" THEN "stop" ELSE cause[x]
      BY <1>26 DEF StopOwned, Blame
    <2>3. /\ \A x \in Tasks \ {t} : entry'[x] = entry[x]
          /\ entry'[t].phase = entry[t].phase
          /\ entry'[t].authority = entry[t].authority
          /\ entry'[t].stopRequested
      BY <2>1 DEF TypeOK, EntryState
    <2> QED BY <2>1, <2>2, <2>3 DEF StartsOnce, Blamed, Live
  <1>27. ASSUME NEW t \in Tasks, ClaimInterrupt(t) PROVE Goal
    BY <1>27 DEF ClaimInterrupt, Live, threadVars, historyVars, TypeOK,
         EntryState, StartsOnce, Present, Blamed
  <1>28. ASSUME NEW t \in Tasks, ReleaseInterrupt(t) PROVE Goal
    BY <1>28 DEF ReleaseInterrupt, Live, threadVars, historyVars, TypeOK,
         EntryState, StartsOnce, Present, Blamed
  <1>29. ASSUME NEW t \in Tasks, WatchdogFires(t) PROVE Goal
    BY <1>29 DEF WatchdogFires, Live, historyVars, TypeOK, EntryState,
         StartsOnce, Present, Blamed
  <1>30. ASSUME NEW r \in Roots, StopForRoot(r) PROVE Goal
    <2> DEFINE S == Targets(r)
    <2>1. ClaimTargets(S) /\ Blame(S, "stop") /\ UNCHANGED <<owner, outcome>>
      BY <1>30 DEF StopForRoot
    <2> HIDE DEF S
    <2>2. \A x \in Tasks : cause'[x] = IF x \in S /\ cause[x] = "none" THEN "stop" ELSE cause[x]
      BY <2>1 DEF Blame
    <2>3. \A x \in S : Live(x)
      BY DEF S, Targets
    <2>4. ASSUME NEW x \in Tasks, x \notin S PROVE Blamed(x)'
      <3>1. entry'[x] = entry[x] /\ cause'[x] = cause[x]
        BY <2>1, <2>2, <2>4, ClaimedEntry DEF TypeOK
      <3> QED BY <2>1, <3>1 DEF Blamed, Live
    <2>5. ASSUME NEW x \in Tasks, x \in S PROVE Blamed(x)'
      <3>1. /\ entry'[x].phase = entry[x].phase
            /\ entry'[x].authority = entry[x].authority
            /\ entry'[x].stopRequested
        BY <2>1, <2>5, ClaimedEntry DEF TypeOK
      <3>2. cause'[x] = IF cause[x] = "none" THEN "stop" ELSE cause[x]
        BY <2>2, <2>5
      <3> QED BY <2>1, <2>3, <2>5, <3>1, <3>2 DEF StartsOnce, Blamed, Live
    <2> QED BY <2>4, <2>5
  <1>31. ASSUME NEW r \in Roots, NEW step \in {"term", "force"},
                StopRevokedTrust(r, step)
         PROVE  Goal
    <2>1. UNCHANGED <<owner, outcome>>
      BY <1>31 DEF StopRevokedTrust
    <2>2. ASSUME NEW x \in Tasks PROVE Blamed(x)'
      <3>1. /\ entry'[x].phase = entry[x].phase
            /\ \/ /\ entry'[x].stopRequested = entry[x].stopRequested
                  /\ entry'[x].authority = entry[x].authority
                  /\ cause'[x] = cause[x]
               \/ /\ Live(x) /\ entry[x].authority # "own"
                  /\ entry'[x].stopRequested
                  /\ entry'[x].authority = Attributed(entry[x])
                  /\ cause'[x] = IF cause[x] = "none" THEN "revoke" ELSE cause[x]
        BY <1>31, RevokedEntry DEF TypeOK
      <3>2. CASE /\ entry'[x].stopRequested = entry[x].stopRequested
                 /\ entry'[x].authority = entry[x].authority
                 /\ cause'[x] = cause[x]
        BY <2>1, <3>1, <3>2 DEF Blamed, Live
      <3>3. CASE /\ Live(x) /\ entry[x].authority # "own"
                 /\ entry'[x].stopRequested
                 /\ entry'[x].authority = Attributed(entry[x])
                 /\ cause'[x] = IF cause[x] = "none" THEN "revoke" ELSE cause[x]
        <4>1. CASE entry[x].stopRequested
          BY <2>1, <3>1, <3>3, <4>1 DEF StartsOnce, Blamed, Live, Attributed
        <4>2. CASE ~entry[x].stopRequested
          <5>1. cause[x] \in {"none", "own", "stop", "revoke"}
            BY DEF TypeOK
          <5> QED BY <2>1, <3>1, <3>3, <4>2, <5>1 DEF StartsOnce, Blamed, Live, Attributed
        <4> QED BY <4>1, <4>2
      <3> QED BY <3>1, <3>2, <3>3
    <2> QED BY <2>2
  <1>32. ASSUME ShutdownAll PROVE Goal
    <2> DEFINE S == {u \in Tasks : Live(u)}
    <2>1. ClaimTargets(S) /\ Blame(S, "stop") /\ UNCHANGED <<owner, outcome>>
      BY <1>32 DEF ShutdownAll
    <2> HIDE DEF S
    <2>2. \A x \in Tasks : cause'[x] = IF x \in S /\ cause[x] = "none" THEN "stop" ELSE cause[x]
      BY <2>1 DEF Blame
    <2>3. \A x \in S : Live(x)
      BY DEF S, Targets
    <2>4. ASSUME NEW x \in Tasks, x \notin S PROVE Blamed(x)'
      <3>1. entry'[x] = entry[x] /\ cause'[x] = cause[x]
        BY <2>1, <2>2, <2>4, ClaimedEntry DEF TypeOK
      <3> QED BY <2>1, <3>1 DEF Blamed, Live
    <2>5. ASSUME NEW x \in Tasks, x \in S PROVE Blamed(x)'
      <3>1. /\ entry'[x].phase = entry[x].phase
            /\ entry'[x].authority = entry[x].authority
            /\ entry'[x].stopRequested
        BY <2>1, <2>5, ClaimedEntry DEF TypeOK
      <3>2. cause'[x] = IF cause[x] = "none" THEN "stop" ELSE cause[x]
        BY <2>2, <2>5
      <3> QED BY <2>1, <2>3, <2>5, <3>1, <3>2 DEF StartsOnce, Blamed, Live
    <2> QED BY <2>4, <2>5
  <1>33. ASSUME NEW t \in Tasks,
                \/ PollForce(t) \/ RecordPendingStop(t) \/ ForgetPendingStop(t)
                \/ WatchdogFinishes(t) \/ Fork(t) \/ Exit(t)
         PROVE  UNCHANGED <<owner, entry, cause, outcome>>
    BY <1>33 DEF PollForce, registryVars, threadVars, historyVars,
         RecordPendingStop, ForgetPendingStop, WatchdogFinishes, Fork, Exit
  <1>34. ASSUME NEW t \in Tasks, NEW s \in Stoppers,
                \/ SignalTerm(t, s) \/ SendTerm(t, s) \/ GraceEnds(t, s)
                \/ RequestForce(t, s) \/ SignalKill(t, s) \/ SendKill(t, s)
                \/ QuietKill(t, s) \/ SendQuietKill(t, s)
         PROVE  UNCHANGED <<owner, entry, cause, outcome>>
    BY <1>34 DEF SignalTerm, LockToSend, registryVars, historyVars, SendTerm,
         GraceEnds, RequestForce, SignalKill, SendKill, QuietKill, SendQuietKill
  <1>35. ASSUME CloseStartAdmission
         PROVE  UNCHANGED <<owner, entry, cause, outcome>>
    BY <1>35 DEF CloseStartAdmission, threadVars, historyVars
  <1>36. ASSUME UNCHANGED vars PROVE UNCHANGED <<owner, entry, cause, outcome>>
    BY <1>36 DEF vars, registryVars, threadVars, historyVars
  <1> HIDE DEF Goal
  <1>37. ASSUME NEW t \in Tasks, StartStep(t) PROVE Goal
    BY <1>0, <1>1, <1>2, <1>3, <1>4, <1>5, <1>6, <1>7, <1>8, <1>9, <1>10, <1>11,
         <1>12, <1>37 DEF StartStep
  <1>38. ASSUME NEW t \in Tasks, WaiterStep(t) \/ WaiterPanic(t) PROVE Goal
    BY <1>0, <1>13, <1>14, <1>15, <1>16, <1>17, <1>18, <1>19, <1>20, <1>21,
         <1>22, <1>23, <1>24, <1>25, <1>33, <1>38 DEF WaiterStep
  <1>39. ASSUME NEW t \in Tasks,
                \/ RequestStep(t) \/ WatchdogFinishes(t) \/ Fork(t) \/ Exit(t)
         PROVE  Goal
    BY <1>0, <1>26, <1>27, <1>28, <1>29, <1>33, <1>39 DEF RequestStep
  <1>40. ASSUME NEW t \in Tasks, NEW s \in Stoppers, StopperStep(t, s)
         PROVE  Goal
    BY <1>0, <1>34, <1>40 DEF StopperStep
  <1>41. ASSUME NEW r \in Roots,
                \/ StopForRoot(r) \/ StopRevokedTrust(r, "term")
                \/ StopRevokedTrust(r, "force")
         PROVE  Goal
    BY <1>0, <1>30, <1>31, <1>41
  <1> QED BY <1>0, <1>32, <1>35, <1>36, <1>37, <1>38, <1>39, <1>40, <1>41 DEF
       Next

----------------------------------------------------------------------------
(* The layers together.                                                     *)

(* The parts are the whole.                                                 *)
LEMMA TypeByParts ==
  TypeOK <=> /\ owner \in [Tasks -> OwnerSteps]
             /\ entry \in [Tasks -> EntryState]
             /\ group \in [Tasks -> GroupState]
             /\ PayloadOK /\ LocksOK /\ RestOK
  BY DEF TypeOK, PayloadOK, LocksOK, RestOK

(* Every step keeps the types.                                              *)
LEMMA TypeStep ==
  ASSUME TypeOK, \A t \in Tasks : StartsOnce(t), [Next]_vars
  PROVE  TypeOK'
  <1>1. /\ owner \in [Tasks -> OwnerSteps]
        /\ entry \in [Tasks -> EntryState]
        /\ group \in [Tasks -> GroupState]
        /\ PayloadOK /\ LocksOK /\ RestOK
    BY TypeByParts
  <1>2. owner' \in [Tasks -> OwnerSteps] /\ entry' \in [Tasks -> EntryState]
    BY <1>1, OwnerStep, EntryStep
  <1>3. group' \in [Tasks -> GroupState]
    BY <1>1, GroupStep
  <1>4. PayloadOK' /\ LocksOK' /\ RestOK'
    BY <1>1, PayloadStep, LocksStep, RestStep
  <1> QED BY <1>2, <1>3, <1>4 DEF TypeOK, PayloadOK, LocksOK, RestOK

(* A registry with no tasks satisfies the invariant.                        *)
LEMMA SupervisorInit == Init => SupervisorInvariant
  <1> SUFFICES ASSUME Init PROVE SupervisorInvariant
    OBVIOUS
  <1>1. owner \in [Tasks -> OwnerSteps] /\ PayloadOK /\ RestOK
    BY DEF Init, OwnerSteps, PayloadOK, RestOK
  <1>2. entry \in [Tasks -> EntryState] /\ group \in [Tasks -> GroupState]
    BY DEF Init, EntryState, NoEntry, GroupState, NoGroup
  <1>3. LocksOK
    BY DEF Init, LocksOK, Stoppers, StopperSteps
  <1>4. TypeOK
    BY <1>1, <1>2, <1>3, TypeByParts
  <1>5. \A t \in Tasks : StartsOnce(t) /\ Present(t) /\ Blamed(t)
    BY DEF Init, StartsOnce, Present, Blamed, Live, NoEntry, Stoppers, Unwatched,
           Unspawned, Apart
  <1>6. \A t \in Tasks : Anchored(t) /\ Vouched(t)
    BY DEF Init, Anchored, Vouched, NoGroup, ExitSeen, Unspawned
  <1>7. \A t \in Tasks : Reported(t) /\ Admission(t)
    BY DEF Init, Reported, Admission, Unspawned, Ended
  <1>8. SignalsAnchored /\ Swept
    BY DEF Init, SignalsAnchored, Swept
  <1> QED BY <1>4, <1>5, <1>6, <1>7, <1>8 DEF SupervisorInvariant

(* Every step keeps the invariant, layer by layer.                          *)
LEMMA SupervisorStep == SupervisorInvariant /\ [Next]_vars => SupervisorInvariant'
  <1> SUFFICES ASSUME SupervisorInvariant, [Next]_vars PROVE SupervisorInvariant'
    OBVIOUS
  <1>1. /\ TypeOK /\ SignalsAnchored /\ Swept
        /\ \A t \in Tasks : StartsOnce(t)
        /\ \A t \in Tasks : Anchored(t)
        /\ \A t \in Tasks : Vouched(t)
        /\ \A t \in Tasks : Reported(t)
        /\ \A t \in Tasks : Admission(t)
        /\ \A t \in Tasks : Present(t)
        /\ \A t \in Tasks : Blamed(t)
    BY DEF SupervisorInvariant
  <1>2. TypeOK'
    BY <1>1, TypeStep
  <1>3. \A t \in Tasks : StartsOnce(t)'
    BY <1>1, StartsOnceStep
  <1>4. (\A t \in Tasks : Anchored(t)') /\ SignalsAnchored'
    BY <1>1, AnchoredStep, SignalsStep
  <1>5. \A t \in Tasks : Vouched(t)'
    BY <1>1, VouchedStep
  <1>6. \A t \in Tasks : Reported(t)'
    BY <1>1, ReportedStep
  <1>7. \A t \in Tasks : Admission(t)'
    BY <1>1, AdmissionStep
  <1>8. (\A t \in Tasks : Present(t)') /\ Swept'
    BY <1>1, PresentStep, SweptStep
  <1>9. \A t \in Tasks : Blamed(t)'
    BY <1>1, BlamedStep
  <1> QED BY <1>2, <1>3, <1>4, <1>5, <1>6, <1>7, <1>8, <1>9 DEF SupervisorInvariant

----------------------------------------------------------------------------
(* The theorems.                                                            *)

(* For every set of tasks and roots and with any of the failures, the       *)
(* supervisor stays in its inductive invariant.                             *)
THEOREM SupervisorInvariance == Spec => []SupervisorInvariant
  BY SupervisorInit, SupervisorStep, PTL DEF Spec

(* The types, and: exactly the stopper that is about to send holds the      *)
(* group's mutex.                                                           *)
THEOREM SupervisorTypes == Spec => []TypeOK
  <1>1. SupervisorInvariant => TypeOK
    BY DEF SupervisorInvariant
  <1> QED BY <1>1, SupervisorInvariance, PTL

(* No signal sent through AgentProcessGroup reaches a group whose leader is *)
(* already reaped: the owner leaves "active" before it reaps, under the     *)
(* mutex that a sender holds from its read of the state to its send.        *)
THEOREM SignalsStayAnchored == Spec => []SignalsAnchored
  <1>1. SupervisorInvariant => SignalsAnchored
    BY DEF SupervisorInvariant
  <1> QED BY <1>1, SupervisorInvariance, PTL

(* A group is released only when nobody is left in it, although the flag    *)
(* that vouches for the cleanup is raised by several threads and on groups  *)
(* that are not active.                                                     *)
THEOREM ReleaseIsSound == Spec => []ReleasedGroupIsEmpty
  <1>1. SupervisorInvariant => ReleasedGroupIsEmpty
    BY DEF SupervisorInvariant, Vouched, ReleasedGroupIsEmpty
  <1> QED BY <1>1, SupervisorInvariance, PTL

(* A task is reported as exited or stopped only when its leader is reaped   *)
(* and its group empty.                                                     *)
THEOREM ReportsAreReal == Spec => []ReportedExitIsReal
  <1>1. SupervisorInvariant => ReportedExitIsReal
    BY DEF SupervisorInvariant, Reported, ReportedExitIsReal
  <1> QED BY <1>1, SupervisorInvariance, PTL

(* The place in the admission registry is given back only when the process  *)
(* is gone or has been killed.                                              *)
THEOREM AdmissionIsHeld == Spec => []AdmissionOutlivesProcess
  <1>1. SupervisorInvariant => AdmissionOutlivesProcess
    BY DEF SupervisorInvariant, Admission, AdmissionOutlivesProcess
  <1> QED BY <1>1, SupervisorInvariance, PTL

(* After the shutdown's sweep no process runs that is neither being stopped *)
(* nor killed.                                                              *)
THEOREM ShutdownIsComplete == Spec => []ShutdownCoversEveryStart
  <1>1. SupervisorInvariant => ShutdownCoversEveryStart
    BY DEF SupervisorInvariant, Present, Swept, ShutdownCoversEveryStart
  <1> QED BY <1>1, SupervisorInvariance, PTL

(* A task counts as stopped by a revocation of trust exactly when the       *)
(* revocation came first.                                                   *)
THEOREM RevocationIsAttributed == Spec => []RevocationAttribution
  <1>1. SupervisorInvariant => RevocationAttribution
    BY DEF SupervisorInvariant, Blamed, RevocationAttribution
  <1> QED BY <1>1, SupervisorInvariance, PTL

===============================================================================
