---------------------------- MODULE AgentTurnStart ----------------------------
(***************************************************************************)
(* One thread of the renderer starting its turns (agentTurnStartRunner.ts, *)
(* agentThreadStartFlow.ts, agentFollowUpFlow.ts, the stop of              *)
(* useAgentTurnDispatch.ts) against the command side of the backend        *)
(* (start_agent_task, stop_agent_task, acknowledge_agent_task_start and    *)
(* agent_task_pending_stops.rs).                                           *)
(*                                                                         *)
(* The runner is one asynchronous function: it awaits the start call, the  *)
(* acknowledgement, and the stop or the worktree removal that cleans up    *)
(* after a start nobody wants any more.  Between two awaits it runs        *)
(* alone, so each continuation is one action.  While it waits, the user    *)
(* presses Stop, the project is reopened, the thread disappears or is      *)
(* archived, the agent exits and reports, and calls or replies are lost.   *)
(*                                                                         *)
(* The checks of the launch authority and of the provider that precede the *)
(* start call run in the same turn of the event loop as the dispatch; a    *)
(* dispatch that fails them leaves nothing behind and is left out.         *)
(***************************************************************************)
EXTENDS Naturals, FiniteSets

CONSTANTS
    MaxTurns,     \* turns dispatched in the thread
    Places,       \* where a new thread runs: "inPlace", "created", "reused" worktree
    MaxTroubles   \* lost calls and replies, authority losses and vanished threads

ASSUME TurnStartAssumption ==
    /\ MaxTurns \in Nat \ {0}
    /\ Places \subseteq {"inPlace", "created", "reused"}
    /\ MaxTroubles \in Nat

Turns == 1..MaxTurns

VARIABLES
    thread,       \* the thread in the renderer's store
    turn,         \* its turns: what status each one shows
    runner,       \* the start that is under way, or the last one
    call,         \* the gateway call the runner awaits
    stopRequested, \* the stopRequested of the runner's entry in startIntents
    userStops,    \* stop calls of the Stop button that are under way
    task,         \* what the backend holds for each turn
    pendingStops, \* stops the backend recorded for tasks it does not know yet
    hosted,       \* turns that StartThread put in a worktree, their own or another thread's
    removed,      \* turns whose created worktree was removed again
    retained,     \* turns whose worktree is kept as uncertain
    told,         \* turns for which a failed start or stop was reported
    warned,       \* turns for which "The agent could not be stopped." was shown
    unstopped,    \* turns whose stop, sent by the runner, was not confirmed
    detached,     \* turns whose live output could not be attached
    asked,        \* turns for which the user pressed Stop
    troubles

rendererVars == <<thread, turn, runner, call, stopRequested>>
backendVars == <<task, pendingStops>>
reportVars == <<retained, removed, told, warned, unstopped, detached>>
historyVars == <<hosted, asked>>
vars == <<rendererVars, userStops, backendVars, reportVars, historyVars, troubles>>

Failed == {"rejected", "uncertain", "abandoned", "misnamed"}
Terminal == Failed \cup {"exited", "stopped"}
Running == {"pending", "running"}
NoCall == [op |-> "none", reply |-> "none"]
NoTask == [state |-> "none", named |-> TRUE, stopAsked |-> FALSE,
           acknowledged |-> FALSE, reported |-> FALSE]
Idle(t) == [turn |-> t, busy |-> FALSE, place |-> "inPlace", shown |-> FALSE,
            owned |-> FALSE, byUser |-> FALSE, acknowledged |-> FALSE]

TypeOK ==
    /\ thread \in {"none", "open", "archived", "gone"}
    /\ \A t \in Turns : turn[t] \in {"absent"} \cup Running \cup Terminal
    /\ runner.turn \in 0..MaxTurns /\ runner.place \in {"inPlace", "created", "reused"}
    /\ call.op \in {"none", "start", "acknowledge", "abandon", "halt", "attach",
                    "stopMisnamed", "remove"}
    /\ call.reply \in {"none", "waiting", "ok", "rejected", "restart", "unclear",
                       "misnamed", "error"}
    /\ (call = NoCall) <=> ~runner.busy
    /\ stopRequested \in BOOLEAN
    /\ \A s \in userStops : s.turn \in Turns /\ s.recorded \in BOOLEAN
    /\ \A t \in Turns : task[t].state \in {"none", "starting", "live", "dead"}
    /\ pendingStops \cup retained \cup removed \cup hosted \cup asked \subseteq Turns
    /\ told \cup warned \cup unstopped \cup detached \subseteq Turns
    /\ troubles \in 0..MaxTroubles

Init ==
    /\ thread \in {"none", "open"}
    /\ turn = [t \in Turns |-> "absent"]
    /\ runner = Idle(0)
    /\ call = NoCall
    /\ stopRequested = FALSE
    /\ userStops = {}
    /\ task = [t \in Turns |-> NoTask]
    /\ pendingStops = {}
    /\ hosted = {} /\ removed = {} /\ retained = {} /\ told = {} /\ warned = {}
    /\ unstopped = {} /\ detached = {} /\ asked = {}
    /\ troubles = 0

Trouble == troubles < MaxTroubles /\ troubles' = troubles + 1

-----------------------------------------------------------------------------
(* The runner's helpers.                                                   *)

Now == runner.turn

RunningTurn == {t \in Turns : turn[t] \in Running}

(* applyTurnStatusEvent: a settled turn keeps its status, a missing one has none. *)
Settled(t, status) ==
    IF turn[t] \in Running THEN [turn EXCEPT ![t] = status] ELSE turn

(* registeredTurnLoss: the turn the runner registered is still in an open thread. *)
Registered == thread = "open" /\ turn[Now] # "absent"

Owned == runner.owned /\ (runner.shown => Registered)

StillOwned == ~stopRequested /\ Owned

Await(op) == call' = [op |-> op, reply |-> "waiting"]

(* Mutant: the runner ends and leaves its call behind. *)
End_call_kept ==
    /\ runner' = Idle(Now)
    /\ UNCHANGED call
    /\ stopRequested' = FALSE

(* runAgentTurnStart's finally: the intent ends with the runner. *)
End ==
    /\ runner' = Idle(Now)
    /\ call' = NoCall
    /\ stopRequested' = FALSE

Retained == IF runner.place = "inPlace" THEN retained ELSE retained \cup {Now}

(* A start nobody owns any more is stopped; its turn says why, unless the user stopped it. *)
Abandon ==
    /\ runner' = [runner EXCEPT !.byUser = stopRequested]
    /\ turn' = IF stopRequested THEN turn ELSE Settled(Now, "abandoned")
    /\ Await("abandon")
    /\ UNCHANGED <<thread, stopRequested, retained, removed, warned, unstopped, detached>>

(* A stop of a turn that is still shown is handed to the backend, whose terminal event *)
(* settles the turn.                                                                   *)
Release(acknowledged) ==
    IF stopRequested /\ runner.shown /\ Owned
    THEN /\ runner' = [runner EXCEPT !.acknowledged = acknowledged]
         /\ Await("halt")
         /\ UNCHANGED <<thread, turn, stopRequested, reportVars>>
    ELSE Abandon /\ UNCHANGED told

-----------------------------------------------------------------------------
(* Dispatching a turn.                                                     *)

(* startAgentThread: the thread and its first turn are registered after the start. *)
StartThread(place) ==
    /\ thread = "none" /\ ~runner.busy /\ Now < MaxTurns
    /\ runner' = [Idle(Now + 1) EXCEPT !.busy = TRUE, !.owned = TRUE, !.place = place]
    /\ stopRequested' = FALSE
    /\ Await("start")
    /\ hosted' = IF place = "inPlace" THEN hosted ELSE hosted \cup {Now + 1}
    /\ UNCHANGED <<thread, turn, userStops, backendVars, reportVars, asked, troubles>>

(* sendAgentFollowUp: refused while a turn runs or another send is in flight; the turn is *)
(* registered before the start.                                                           *)
SendFollowUp ==
    /\ thread = "open" /\ ~runner.busy /\ Now < MaxTurns
    /\ RunningTurn = {}
    /\ runner' = [Idle(Now + 1) EXCEPT !.busy = TRUE, !.owned = TRUE, !.shown = TRUE]
    /\ turn' = [turn EXCEPT ![Now + 1] = "pending"]
    /\ stopRequested' = FALSE
    /\ Await("start")
    /\ UNCHANGED <<thread, userStops, backendVars, reportVars, historyVars, troubles>>

Reply(op) == call.op = op /\ call.reply # "waiting"

Definite == {"rejected", "restart"}

(* Mutant: every failure is taken for definite. *)
StartFailedAfterStop_all_definite ==
    /\ Reply("start") /\ call.reply \in Definite \cup {"unclear"}
    /\ stopRequested
    /\ turn' = Settled(Now, "stopped")
    /\ End
    /\ UNCHANGED <<thread, reportVars, userStops, backendVars, historyVars, troubles>>

(* The start failed although the user had pressed Stop meanwhile. *)
StartFailedAfterStop ==
    /\ Reply("start") /\ call.reply \in Definite \cup {"unclear"}
    /\ stopRequested
    /\ IF call.reply \in Definite
       THEN /\ turn' = Settled(Now, "stopped")
            /\ End
            /\ UNCHANGED <<thread, reportVars>>
       ELSE /\ Abandon
            /\ told' = told \cup {Now}
    /\ UNCHANGED <<userStops, backendVars, historyVars, troubles>>

(* The session would have to be restarted first: the turn is withdrawn. *)
StartNeedsRestart ==
    /\ Reply("start") /\ call.reply = "restart"
    /\ ~stopRequested
    /\ turn' = Settled(Now, "stopped")
    /\ End
    /\ UNCHANGED <<thread, userStops, backendVars, reportVars, historyVars, troubles>>

(* Mutant: every failure allows the created worktree to be removed. *)
StartFailed_all_definite ==
    /\ Reply("start") /\ call.reply \in {"rejected", "unclear"}
    /\ ~stopRequested
    /\ turn' = Settled(Now, IF call.reply = "rejected" THEN "rejected" ELSE "uncertain")
    /\ retained' = IF call.reply = "rejected" THEN retained ELSE Retained
    /\ told' = IF runner.owned THEN told \cup {Now} ELSE told
    /\ IF runner.place = "created"
       THEN Await("remove") /\ UNCHANGED <<runner, stopRequested>>
       ELSE End
    /\ UNCHANGED <<thread, userStops, backendVars, removed, warned, unstopped, detached,
                   historyVars, troubles>>

(* reportStartFailure: only a definite rejection allows the created worktree to be removed; *)
(* the notice is shown as long as the launch authority is current.                          *)
StartFailed ==
    /\ Reply("start") /\ call.reply \in {"rejected", "unclear"}
    /\ ~stopRequested
    /\ LET definite == call.reply = "rejected" IN
       /\ turn' = Settled(Now, IF definite THEN "rejected" ELSE "uncertain")
       /\ retained' = IF definite THEN retained ELSE Retained
       /\ told' = IF runner.owned THEN told \cup {Now} ELSE told
       /\ IF definite /\ runner.place = "created"
          THEN Await("remove") /\ UNCHANGED <<runner, stopRequested>>
          ELSE End
    /\ UNCHANGED <<thread, userStops, backendVars, removed, warned, unstopped, detached,
                   historyVars, troubles>>

(* compensateCreatedWorktree answers. *)
WorktreeRemoved ==
    /\ Reply("remove")
    /\ End
    /\ UNCHANGED <<thread, turn, userStops, backendVars, reportVars, historyVars, troubles>>

(* The backend answered with another task id: the requested one is stopped. *)
StartMisnamed ==
    /\ Reply("start") /\ call.reply = "misnamed"
    /\ Await("stopMisnamed")
    /\ UNCHANGED <<thread, turn, runner, stopRequested, userStops, backendVars, reportVars,
                   historyVars, troubles>>

MisnamedStopped ==
    /\ Reply("stopMisnamed")
    /\ retained' = Retained
    /\ turn' = Settled(Now, "misnamed")
    /\ told' = IF runner.owned THEN told \cup {Now} ELSE told
    /\ End
    /\ UNCHANGED <<thread, userStops, backendVars, removed, warned, unstopped, detached,
                   historyVars, troubles>>

(* The task runs.  Ownership is checked again, a new thread is registered now. *)
StartSucceeded ==
    /\ Reply("start") /\ call.reply = "ok"
    /\ IF ~StillOwned
       THEN Release(FALSE)
       ELSE /\ IF runner.shown
               THEN UNCHANGED <<thread, turn, runner>>
               ELSE /\ thread' = "open"
                    /\ turn' = [turn EXCEPT ![Now] = "pending"]
                    /\ runner' = [runner EXCEPT !.shown = TRUE]
            /\ Await("acknowledge")
            /\ UNCHANGED <<stopRequested, reportVars>>
    /\ UNCHANGED <<userStops, backendVars, historyVars, troubles>>

(* Mutant: ownership is not checked again after the acknowledgement. *)
Acknowledged_unchecked ==
    /\ Reply("acknowledge")
    /\ detached' = IF call.reply = "ok" THEN detached ELSE detached \cup {Now}
    /\ End
    /\ UNCHANGED <<thread, turn, removed, retained, told, warned, unstopped, userStops,
                   backendVars, historyVars, troubles>>

(* The acknowledgement answers: a turn without live output stays, with a warning. *)
Acknowledged ==
    /\ Reply("acknowledge")
    /\ IF ~StillOwned
       THEN Release(call.reply = "ok")
       ELSE /\ detached' = IF call.reply = "ok" THEN detached ELSE detached \cup {Now}
            /\ End
            /\ UNCHANGED <<thread, turn, removed, retained, told, warned, unstopped>>
    /\ UNCHANGED <<userStops, backendVars, historyVars, troubles>>

(* Mutant: the worktree of an abandoned start is not kept. *)
Abandoned_unretained ==
    /\ Reply("abandon")
    /\ turn' = IF runner.byUser THEN Settled(Now, "stopped") ELSE turn
    /\ unstopped' = IF call.reply = "ok" THEN unstopped ELSE unstopped \cup {Now}
    /\ End
    /\ UNCHANGED <<thread, userStops, backendVars, retained, removed, told, warned, detached,
                   historyVars, troubles>>

(* abandon after its stop: the worktree stays uncertain whatever the stop answered. *)
Abandoned ==
    /\ Reply("abandon")
    /\ retained' = Retained
    /\ turn' = IF runner.byUser THEN Settled(Now, "stopped") ELSE turn
    /\ unstopped' = IF call.reply = "ok" THEN unstopped ELSE unstopped \cup {Now}
    /\ End
    /\ UNCHANGED <<thread, userStops, backendVars, removed, told, warned, detached,
                   historyVars, troubles>>

(* Mutant: a task that was stopped unacknowledged stays unacknowledged. *)
Halted_unattached ==
    /\ Reply("halt")
    /\ IF call.reply = "ok"
       THEN UNCHANGED <<turn, reportVars>>
       ELSE /\ told' = told \cup {Now}
            /\ unstopped' = unstopped \cup {Now}
            /\ retained' = Retained
            /\ turn' = Settled(Now, "stopped")
            /\ UNCHANGED <<removed, warned, detached>>
    /\ End
    /\ UNCHANGED <<thread, userStops, backendVars, historyVars, troubles>>

(* stopStartedTurn after its stop: an unacknowledged task is acknowledged, because only then *)
(* does the backend report its end.                                                          *)
Halted ==
    /\ Reply("halt")
    /\ IF call.reply = "ok"
       THEN /\ IF runner.acknowledged
               THEN End
               ELSE Await("attach") /\ UNCHANGED <<runner, stopRequested>>
            /\ UNCHANGED <<turn, reportVars>>
       ELSE /\ told' = told \cup {Now}
            /\ unstopped' = unstopped \cup {Now}
            /\ retained' = Retained
            /\ turn' = Settled(Now, "stopped")
            /\ End
            /\ UNCHANGED <<removed, warned, detached>>
    /\ UNCHANGED <<thread, userStops, backendVars, historyVars, troubles>>

(* ... and when that fails, the runner settles the turn itself. *)
Attached ==
    /\ Reply("attach")
    /\ turn' = IF call.reply = "ok" THEN turn ELSE Settled(Now, "stopped")
    /\ told' = IF call.reply = "ok" THEN told ELSE told \cup {Now}
    /\ End
    /\ UNCHANGED <<thread, userStops, backendVars, removed, retained, warned, unstopped,
                   detached, historyVars, troubles>>

Runner ==
    \/ StartFailedAfterStop \/ StartNeedsRestart \/ StartFailed \/ WorktreeRemoved
    \/ StartMisnamed \/ MisnamedStopped \/ StartSucceeded
    \/ Acknowledged \/ Abandoned \/ Halted \/ Attached

-----------------------------------------------------------------------------
(* The backend's commands.                                                 *)

Answer(reply) == call' = [call EXCEPT !.reply = reply]
Waiting(op) == call.op = op /\ call.reply = "waiting"

(* stop_owned: an unknown task's stop is recorded for the start that may still come. *)
Stop(t) ==
    IF task[t].state = "none" \/ ~task[t].named
    THEN pendingStops' = pendingStops \cup {t} /\ UNCHANGED task
    ELSE /\ task' = IF task[t].state = "dead" THEN task
                    ELSE [task EXCEPT ![t].stopAsked = TRUE]
         /\ UNCHANGED pendingStops

(* start_agent_task refuses while it prepares: no task exists, a recorded stop is discarded. *)
RefuseStart(reply) ==
    /\ Waiting("start") /\ task[Now].state = "none"
    /\ reply = "restart" => runner.shown
    /\ pendingStops' = pendingStops \ {Now}
    /\ Answer(reply)
    /\ UNCHANGED <<thread, turn, runner, stopRequested, userStops, task, reportVars, historyVars,
                   troubles>>

(* AgentTaskRegistry::start takes a recorded stop, or publishes the entry. *)
TakeRecordedStop ==
    /\ Waiting("start") /\ task[Now].state = "none"
    /\ Now \in pendingStops
    /\ pendingStops' = pendingStops \ {Now}
    /\ Answer("rejected")
    /\ UNCHANGED <<thread, turn, runner, stopRequested, userStops, task, reportVars, historyVars,
                   troubles>>

PublishTask ==
    /\ Waiting("start") /\ task[Now].state = "none"
    /\ Now \notin pendingStops
    /\ task' = [task EXCEPT ![Now].state = "starting"]
    /\ UNCHANGED <<rendererVars, userStops, pendingStops, reportVars, historyVars, troubles>>

(* start_published: a stop that came in withdraws the entry again, as does a failed spawn. *)
SpawnTask ==
    /\ Waiting("start") /\ task[Now].state = "starting"
    /\ \/ /\ task[Now].stopAsked
          /\ task' = [task EXCEPT ![Now] = NoTask]
          /\ Answer("rejected")
       \/ /\ task' = [task EXCEPT ![Now] = NoTask]
          /\ Answer("unclear")
       \/ /\ ~task[Now].stopAsked
          /\ task' = [task EXCEPT ![Now].state = "live"]
          /\ Answer("ok")
    /\ UNCHANGED <<thread, turn, runner, stopRequested, userStops, pendingStops, reportVars,
                   historyVars, troubles>>

(* The task runs, and the reply is lost or names another task. *)
SpawnUnclear ==
    /\ Trouble
    /\ Waiting("start") /\ task[Now].state = "starting" /\ ~task[Now].stopAsked
    /\ \/ /\ task' = [task EXCEPT ![Now].state = "live"]
          /\ Answer("unclear")
       \/ /\ task' = [task EXCEPT ![Now].state = "live", ![Now].named = FALSE]
          /\ Answer("misnamed")
    /\ UNCHANGED <<thread, turn, runner, stopRequested, userStops, pendingStops, reportVars,
                   historyVars>>

StopCalls == {"abandon", "halt", "stopMisnamed"}

AnswerStop ==
    /\ call.op \in StopCalls /\ call.reply = "waiting"
    /\ Stop(Now)
    /\ Answer("ok")
    /\ UNCHANGED <<thread, turn, runner, stopRequested, userStops, reportVars, historyVars, troubles>>

(* The runner's stop is lost on the way there, or its answer on the way back. *)
LoseStop ==
    /\ Trouble
    /\ call.op \in StopCalls /\ call.reply = "waiting"
    /\ Stop(Now) \/ UNCHANGED backendVars
    /\ Answer("error")
    /\ UNCHANGED <<thread, turn, runner, stopRequested, userStops, reportVars, historyVars>>

AcknowledgeCalls == {"acknowledge", "attach"}

(* begin_acknowledgement: events flow from now on; an unknown task is refused. *)
AnswerAcknowledge ==
    /\ call.op \in AcknowledgeCalls /\ call.reply = "waiting"
    /\ IF task[Now].state = "none" \/ ~task[Now].named
       THEN Answer("error") /\ UNCHANGED task
       ELSE Answer("ok") /\ task' = [task EXCEPT ![Now].acknowledged = TRUE]
    /\ UNCHANGED <<thread, turn, runner, stopRequested, userStops, pendingStops, reportVars,
                   historyVars, troubles>>

LoseAcknowledge ==
    /\ Trouble
    /\ call.op \in AcknowledgeCalls /\ call.reply = "waiting"
    /\ task' = task \/ task' = [task EXCEPT ![Now].acknowledged = TRUE]
    /\ Answer("error")
    /\ UNCHANGED <<thread, turn, runner, stopRequested, userStops, pendingStops, reportVars,
                   historyVars>>

RemoveWorktree ==
    /\ Waiting("remove")
    /\ \/ removed' = removed \cup {Now} /\ Answer("ok")
       \/ UNCHANGED removed /\ Answer("error")
    /\ UNCHANGED <<thread, turn, runner, stopRequested, userStops, backendVars, retained, told,
                   warned, unstopped, detached, historyVars, troubles>>

(* The agent's process ends, by itself or because it was stopped. *)
TaskEnds(t) ==
    /\ task[t].state = "live"
    /\ task' = [task EXCEPT ![t].state = "dead"]
    /\ UNCHANGED <<rendererVars, userStops, pendingStops, reportVars, historyVars, troubles>>

(* The status events of an acknowledged task reach the store. *)
ReportRunning(t) ==
    /\ task[t].acknowledged /\ task[t].state # "none" /\ turn[t] = "pending"
    /\ turn' = [turn EXCEPT ![t] = "running"]
    /\ UNCHANGED <<thread, runner, call, stopRequested, userStops, backendVars, reportVars,
                   historyVars, troubles>>

ReportEnd(t) ==
    /\ task[t].acknowledged /\ task[t].state = "dead" /\ ~task[t].reported
    /\ turn[t] # "pending"
    /\ task' = [task EXCEPT ![t].reported = TRUE]
    /\ turn' = Settled(t, IF task[t].stopAsked THEN "stopped" ELSE "exited")
    /\ UNCHANGED <<thread, runner, call, stopRequested, userStops, pendingStops, reportVars,
                   historyVars, troubles>>

-----------------------------------------------------------------------------
(* The user and the rest of the window.                                    *)

(* The Stop button: the intent is recorded for a start that is under way, and the backend is *)
(* told at once.                                                                             *)
PressStop(t) ==
    /\ thread = "open" /\ turn[t] \in Running
    /\ \A s \in userStops : s.turn # t
    /\ LET recorded == runner.busy /\ Now = t IN
       /\ stopRequested' = (recorded \/ stopRequested)
       /\ userStops' = userStops \cup {[turn |-> t, recorded |-> recorded]}
    /\ asked' = asked \cup {t}
    /\ UNCHANGED <<thread, turn, runner, call, backendVars, reportVars, hosted, troubles>>

UserStopArrives(s) ==
    /\ Stop(s.turn)
    /\ userStops' = userStops \ {s}
    /\ UNCHANGED <<rendererVars, reportVars, historyVars, troubles>>

(* The call fails; the failure is shown unless the runner took the stop over. *)
UserStopFails(s) ==
    /\ Trouble
    /\ Stop(s.turn) \/ UNCHANGED backendVars
    /\ userStops' = userStops \ {s}
    /\ warned' = IF s.recorded THEN warned ELSE warned \cup {s.turn}
    /\ UNCHANGED <<rendererVars, retained, removed, told, unstopped, detached, historyVars>>

(* The project is closed or reopened, its repository leaves, the queued send is superseded. *)
LoseAuthority ==
    /\ Trouble
    /\ runner.busy /\ runner.owned
    /\ runner' = [runner EXCEPT !.owned = FALSE]
    /\ UNCHANGED <<thread, turn, call, stopRequested, userStops, backendVars, reportVars, historyVars>>

ThreadVanishes ==
    /\ Trouble
    /\ thread = "open"
    /\ thread' = "gone"
    /\ turn' = [t \in Turns |-> "absent"]
    /\ UNCHANGED <<runner, call, stopRequested, userStops, backendVars, reportVars, historyVars>>

(* archiveThread refuses while a turn runs. *)
ArchiveThread ==
    /\ thread = "open" /\ RunningTurn = {}
    /\ thread' = "archived"
    /\ UNCHANGED <<turn, runner, call, stopRequested, userStops, backendVars, reportVars, historyVars,
                   troubles>>

-----------------------------------------------------------------------------
Backend ==
    \/ \E reply \in {"rejected", "restart", "unclear"} : RefuseStart(reply)
    \/ TakeRecordedStop \/ PublishTask \/ SpawnTask
    \/ AnswerStop \/ AnswerAcknowledge \/ RemoveWorktree
    \/ \E t \in Turns : ReportRunning(t) \/ ReportEnd(t)

Obey == \E t \in Turns : task[t].stopAsked /\ TaskEnds(t)

Network == SpawnUnclear \/ LoseStop \/ LoseAcknowledge
           \/ \E s \in userStops : UserStopFails(s)

User ==
    \/ \E place \in Places : StartThread(place)
    \/ SendFollowUp
    \/ \E t \in Turns : PressStop(t)
    \/ LoseAuthority \/ ThreadVanishes \/ ArchiveThread
    \/ \E t \in Turns : TaskEnds(t)

Progress == Runner \/ Backend \/ Obey

StopButton == \E s \in userStops : UserStopArrives(s)

Next == Progress \/ StopButton \/ Network \/ User

Spec == Init /\ [][Next]_vars

(* Continuations run, commands answer, events are delivered, and a process that was told to *)
(* stop ends (the escalation of the task supervisor).  Users and networks promise nothing.   *)
FairSpec == Spec /\ WF_vars(Progress) /\ WF_vars(StopButton)

-----------------------------------------------------------------------------
(* Properties.                                                             *)

Unattended(t) ==
    /\ task[t].state = "live" /\ ~task[t].stopAsked
    /\ ~(runner.busy /\ Now = t)
    /\ turn[t] \notin Running

(* An agent that runs although its turn is over was announced: its turn says that it may   *)
(* still run, or a failed start or stop was shown.  Every way out of the start runner that  *)
(* may leave a process behind takes part in this, and none relies on the Stop button's own  *)
(* call.  Excused is a stop that abandon sent and whose failure it discards.                *)
NoForgottenAgent ==
    \A t \in Turns :
        Unattended(t) /\ turn[t] # "absent" =>
            turn[t] \in {"uncertain", "abandoned", "misnamed"} \/ t \in told \cup unstopped

(* ... and the worktree that a thread's first turn started it in is kept from pruning, also *)
(* when the thread was never registered.  Follow-ups are no part of `hosted`: the worktree  *)
(* of their thread is protected by the thread's registration alone, which this module does  *)
(* not model.  Nor is a thread that vanished while the start was under way.                 *)
RetainedWhileRunning ==
    \A t \in hosted : Unattended(t) /\ thread # "gone" => t \in retained

(* A worktree that the start created is removed again only when no agent was started in it *)
(* and none can be: the rejection the runner took for definite was.                        *)
RemovedWorktreeIsIdle ==
    \A t \in removed : task[t].state = "none" /\ ~(Waiting("start") /\ Now = t)

(* The worktree in which StartThread started a turn is neither pruned nor removed under     *)
(* its agent, as long as the thread does not vanish; follow-ups: see RetainedWhileRunning.  *)
WorktreesAreSafe == RetainedWhileRunning /\ RemovedWorktreeIsIdle

StopExcused(t) == t \in warned \cup unstopped \/ ~task[t].named

(* Stop is never lost in the start window: the agent ends up stopped or is never started, *)
(* or the user was told that it could not be stopped.  A failed stop call is kept silent   *)
(* while the runner holds the intent, so the runner has to make it good.                   *)
StopTakesHold ==
    \A t \in Turns :
        t \in asked ~> \/ task[t].state \notin {"starting", "live"} /\ ~(runner.busy /\ Now = t)
                       \/ StopExcused(t)

(* A stopped turn leaves the running state: by the backend's event, for which the runner *)
(* acknowledges a task it only just stopped, or by the runner itself.  Excused is a turn  *)
(* whose output never was attached, which the user was told about.                        *)
StoppedTurnSettles ==
    \A t \in Turns :
        t \in asked ~> turn[t] \notin Running \/ t \in warned \cup detached

(* What Stop promises of a turn in its start window: of the agent and of the turn.        *)
StopIsKept == StopTakesHold /\ StoppedTurnSettles
=============================================================================
