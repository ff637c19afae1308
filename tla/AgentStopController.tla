-------------------------- MODULE AgentStopController --------------------------
(****************************************************************************)
(* The Stop button of the composer: useAgentStopController.ts with its      *)
(* policy (agentStopPolicy.ts), the composer that shows one thread at a     *)
(* time (useAgentComposerStop.ts) and the interrupt it sends                *)
(* (useAgentThreadSessionLifecycle.ts, agent_task_interrupt.rs).            *)
(*                                                                          *)
(* A press interrupts a turn that works, asks for a confirmation when only  *)
(* background tasks are left, and stops the agent hard otherwise; a second  *)
(* press stops it hard.  The interrupt is awaited: meanwhile turns end and  *)
(* start, the user shows another thread and presses there.  The effects     *)
(* that withdraw a confirmation run after React has rendered the change,    *)
(* so a press may come before them, but not the render that follows it.     *)
(*                                                                          *)
(* How the hard stop reaches the agent is AgentTurnStart's subject.         *)
(****************************************************************************)
EXTENDS Naturals, SequencesExt

CONSTANTS
    Threads,
    MaxTurns,      \* bound of the model: turns of each thread
    MaxPresses,    \* bound of the model: presses of Stop
    MaxSwitches,   \* bound of the model: how often another thread is shown
    MaxRemembered  \* MAX_REMEMBERED_INTERRUPTS

ASSUME StopControllerAssumption ==
    /\ MaxTurns \in [Threads -> Nat] /\ MaxRemembered \in Nat \ {0}
    /\ {MaxPresses, MaxSwitches} \subseteq Nat

VARIABLES
    selected,     \* the thread the composer shows
    turn,         \* per thread, its last turn
    session,      \* threads whose session runs background tasks
    seen,         \* what the composer's effects were run for
    early,        \* Stop was pressed on a view whose effects have not run yet
    arm,          \* armRef
    banner,       \* pending.confirmation
    interrupted,  \* interruptedRef, oldest first
    attempt,      \* pendingInterruptRef: the number of the awaited call, or 0
    calls,        \* interrupts that have not been settled
    presses, switches,
    marks         \* per thread, what happened to its running turn: see Marks

threadVars == <<turn, session>>
controllerVars == <<arm, banner, interrupted, attempt>>
effectVars == <<seen, early>>
vars == <<selected, threadVars, effectVars, controllerVars, calls, presses, switches, marks>>

(* Stop was pressed for the turn; it was interrupted or stopped without a confirmation; it   *)
(* was pressed for again after that; the controller stopped it hard; its agent took an       *)
(* interrupt; the backend stopped it because the interrupt could not be written; the user    *)
(* left while the interrupt was awaited, or it is no longer remembered.                      *)
Marks == {"pressed", "urgent", "again", "stopped", "told", "reaped", "lapsed"}

NoTurn == 0
Nothing == <<>>
NoArm == [thread |-> Nothing, turn |-> NoTurn, live |-> FALSE]
NoBanner == [kind |-> "none", thread |-> Nothing, turn |-> NoTurn]
NotYet == [n |-> NoTurn, running |-> FALSE, foreground |-> FALSE, tasks |-> FALSE]

-----------------------------------------------------------------------------
(* What the composer shows.                                                *)

(* readRunningTurn: the running turn of a thread, as long as it is the selected one. *)
RunningTurn(thread) ==
    IF thread = selected /\ turn[thread].running THEN turn[thread].n ELSE NoTurn

(* runningThreadId with runningTurnId, and the idle session. *)
View ==
    [run |-> RunningTurn(selected),
     idle |-> RunningTurn(selected) = NoTurn /\ selected \in session,
     thread |-> selected]

(* stopConfirmationView: a banner about another thread or turn is not shown. *)
Visible ==
    /\ banner.thread = selected
    /\ IF banner.kind = "confirmSession" THEN View.idle
       ELSE banner.kind # "none" /\ banner.turn = View.run /\ View.run # NoTurn

TypeOK ==
    /\ selected \in Threads /\ seen.thread \in Threads /\ early \in BOOLEAN
    /\ \A thread \in Threads :
        /\ turn[thread].n \in 0..MaxTurns[thread]
        /\ turn[thread].foreground \/ turn[thread].tasks => turn[thread].running
    /\ session \subseteq Threads
    /\ arm = NoArm \/ (arm.thread \in Threads /\ arm.turn \in 0..MaxTurns[arm.thread])
    /\ banner.kind \in {"none", "confirmBackground", "confirmSession", "interrupting"}
    /\ Len(interrupted) <= MaxRemembered
    /\ attempt # 0 => \E call \in calls : call.id = attempt
    /\ presses \in 0..MaxPresses /\ switches \in 0..MaxSwitches
    /\ \A thread \in Threads :
        marks[thread] \subseteq Marks /\ (marks[thread] # {} => turn[thread].running)

Init ==
    /\ selected \in Threads
    /\ turn = [thread \in Threads |-> NotYet]
    /\ session = {}
    /\ seen = [run |-> NoTurn, idle |-> FALSE, thread |-> selected] /\ early = FALSE
    /\ arm = NoArm /\ banner = NoBanner /\ interrupted = <<>> /\ attempt = 0
    /\ calls = {}
    /\ presses = 0 /\ switches = 0
    /\ marks = [thread \in Threads |-> {}]

-----------------------------------------------------------------------------
(* The controller's helpers.                                               *)

CancelStop == arm' = NoArm /\ banner' = NoBanner

Mark(thread, new) == marks' = [marks EXCEPT ![thread] = @ \cup new]

(* hardStop: the running turn of the thread is stopped, an awaited interrupt forgotten. *)
HardStop(thread, new) ==
    /\ attempt' = 0
    /\ CancelStop
    /\ Mark(thread, new \cup {"stopped"})

(* Mutant: an arm counts for every turn of its thread. *)
ArmLive_any_turn(thread, n) == arm.live /\ arm.thread = thread

(* agentStopArmIsLive *)
ArmLive(thread, n) == arm.live /\ arm.thread = thread /\ arm.turn = n

Remembered(thread, n) == Contains(interrupted, <<thread, n>>)

Places(thread) == {i \in 1..Len(interrupted) : interrupted[i][1] = thread}

(* A Map has one entry for a thread, if any. *)
OfOther(thread) ==
    IF Places(thread) = {} THEN interrupted
    ELSE RemoveAt(interrupted, CHOOSE i \in Places(thread) : TRUE)

(* Mutant: nothing is evicted. *)
Remember_all(thread, n) == Append(OfOther(thread), <<thread, n>>)

(* rememberInterrupt: a thread's newer interrupt replaces the older, the oldest is evicted. *)
Remember(thread, n) ==
    LET all == Append(OfOther(thread), <<thread, n>>) IN
    IF Len(all) > MaxRemembered THEN Tail(all) ELSE all

(* forgetInterrupt *)
Forget(thread, n) ==
    IF Remembered(thread, n) THEN OfOther(thread) ELSE interrupted

-----------------------------------------------------------------------------
(* requestStop, by what decideAgentStop decides for the thread on the screen. *)

Pressing ==
    /\ presses < MaxPresses
    /\ presses' = presses + 1
    /\ early' = (seen # View)
    /\ UNCHANGED <<selected, turn, seen, switches>>

(* ... about its running turn. *)
Shown == RunningTurn(selected)

PressMarks ==
    {"pressed"} \cup IF "urgent" \in marks[selected] THEN {"again"} ELSE {}

StopsAtOnce == ArmLive(selected, Shown) \/ Remembered(selected, Shown)

PressHard ==
    /\ Shown # NoTurn /\ Pressing
    /\ \/ StopsAtOnce
       \/ ~turn[selected].foreground /\ ~turn[selected].tasks
    /\ HardStop(selected, PressMarks \cup {"urgent"})
    /\ UNCHANGED <<session, interrupted, calls>>

(* startInterrupt *)
PressInterrupt ==
    /\ Shown # NoTurn /\ Pressing
    /\ ~StopsAtOnce /\ turn[selected].foreground
    /\ interrupted' = Remember(selected, Shown)
    /\ attempt' = presses'
    /\ CancelStop
    /\ calls' = calls \cup {[id |-> presses', thread |-> selected, turn |-> Shown,
                             reply |-> "waiting"]}
    /\ marks' = [thread \in Threads |->
                   IF thread = selected THEN marks[thread] \cup PressMarks \cup {"urgent"}
                   ELSE IF turn[thread].running /\ Remembered(thread, turn[thread].n)
                           /\ ~Contains(interrupted', <<thread, turn[thread].n>>)
                   THEN marks[thread] \cup {"lapsed"}
                   ELSE marks[thread]]
    /\ UNCHANGED session

PressConfirm ==
    /\ Shown # NoTurn /\ Pressing
    /\ ~StopsAtOnce /\ ~turn[selected].foreground /\ turn[selected].tasks
    /\ arm' = [thread |-> selected, turn |-> Shown, live |-> TRUE]
    /\ banner' = [kind |-> "confirmBackground", thread |-> selected, turn |-> Shown]
    /\ Mark(selected, PressMarks)
    /\ UNCHANGED <<session, interrupted, attempt, calls>>

(* ... about the tasks of an idle session. *)
PressSession ==
    /\ View.idle
    /\ Pressing
    /\ IF ArmLive(selected, NoTurn)
       THEN CancelStop /\ session' = session \ {selected}
       ELSE /\ arm' = [thread |-> selected, turn |-> NoTurn, live |-> TRUE]
            /\ banner' = [kind |-> "confirmSession", thread |-> selected, turn |-> NoTurn]
            /\ UNCHANGED session
    /\ UNCHANGED <<interrupted, attempt, calls, marks>>

(* The buttons of the banner: stop everything, keep running, stop the session's tasks. *)
StopNow ==
    /\ Visible /\ Shown # NoTurn /\ Pressing
    /\ HardStop(selected, PressMarks \cup {"urgent"})
    /\ UNCHANGED <<session, interrupted, calls>>

Untouched == <<selected, turn, effectVars, interrupted, attempt, calls, presses, switches, marks>>

(* Mutant: dismissing the banner forgets the interrupt, too. *)
KeepRunning_forgets ==
    /\ Visible
    /\ CancelStop
    /\ interrupted' = OfOther(selected)
    /\ UNCHANGED <<selected, threadVars, effectVars, attempt, calls, presses, switches, marks>>

KeepRunning ==
    /\ Visible
    /\ CancelStop
    /\ UNCHANGED session /\ UNCHANGED Untouched

StopTasks ==
    /\ Visible /\ banner.kind = "confirmSession"
    /\ CancelStop
    /\ session' = session \ {selected}
    /\ UNCHANGED Untouched

-----------------------------------------------------------------------------
(* Timers and effects.                                                     *)

(* AGENT_STOP_CONFIRMATION_WINDOW_MS have passed since the press. *)
WindowPasses ==
    /\ arm.live
    /\ arm' = [arm EXCEPT !.live = FALSE]
    /\ UNCHANGED <<session, banner>> /\ UNCHANGED Untouched

(* The timer of a banner fires at the deadline or later. *)
TimerFires ==
    /\ banner # NoBanner /\ ~arm.live
    /\ CancelStop
    /\ UNCHANGED session /\ UNCHANGED Untouched

(* The effects' clean-up: what was shown running, or idle with tasks, has changed. *)
RunEffects ==
    /\ seen # View \/ early
    /\ seen' = View /\ early' = FALSE
    /\ IF \/ seen.run # NoTurn /\ <<seen.thread, seen.run>> # <<selected, View.run>>
          \/ seen.idle /\ ~(View.idle /\ seen.thread = selected)
       THEN CancelStop
       ELSE UNCHANGED <<arm, banner>>
    /\ UNCHANGED <<selected, threadVars, interrupted, attempt, calls, presses, switches, marks>>

-----------------------------------------------------------------------------
(* The interrupt.                                                          *)

Runs(thread, n) == turn[thread].running /\ turn[thread].n = n

Replied(call, reply) == calls' = (calls \ {call}) \cup {[call EXCEPT !.reply = reply]}

(* claim_interrupt and the write to the agent's input: accepted; refused, because the task  *)
(* cannot be interrupted or not any more; stopped, because the write failed.  The call may  *)
(* also fail, before or after.                                                              *)
AnswerInterrupt(call) ==
    /\ call.reply = "waiting"
    /\ \/ /\ Runs(call.thread, call.turn) /\ "stopped" \notin marks[call.thread]
          /\ Replied(call, "accepted") \/ Replied(call, "refused")
          /\ Mark(call.thread, {"told"})
       \/ Replied(call, "refused") /\ UNCHANGED marks
       \/ /\ Runs(call.thread, call.turn)
          /\ Replied(call, "refused")
          /\ Mark(call.thread, {"reaped"})
    /\ UNCHANGED <<selected, threadVars, effectVars, controllerVars, presses, switches>>

(* Mutant: any running turn of the thread is settled. *)
SettleInterrupt_any_turn(call) ==
    /\ call.reply # "waiting"
    /\ calls' = calls \ {call}
    /\ IF attempt # call.id
       THEN UNCHANGED <<controllerVars, marks>>
       ELSE IF RunningTurn(call.thread) = NoTurn
       THEN /\ attempt' = 0
            /\ interrupted' = Forget(call.thread, call.turn)
            /\ UNCHANGED <<arm, banner, marks>>
       ELSE IF call.reply = "refused"
       THEN /\ interrupted' = Forget(call.thread, call.turn)
            /\ HardStop(call.thread, {})
       ELSE /\ attempt' = 0
            /\ \/ UNCHANGED banner  \* the deadline of the banner has passed already
               \/ banner' = [kind |-> "interrupting", thread |-> call.thread, turn |-> call.turn]
            /\ UNCHANGED <<arm, interrupted, marks>>
    /\ UNCHANGED <<selected, threadVars, effectVars, presses, switches>>

(* Mutant: a refusal is not followed by anything. *)
SettleInterrupt_unheeded(call) ==
    /\ call.reply # "waiting"
    /\ calls' = calls \ {call}
    /\ IF attempt # call.id
       THEN UNCHANGED <<controllerVars, marks>>
       ELSE IF RunningTurn(call.thread) # call.turn
       THEN /\ attempt' = 0
            /\ interrupted' = Forget(call.thread, call.turn)
            /\ UNCHANGED <<arm, banner, marks>>
       ELSE IF call.reply = "refused"
       THEN attempt' = 0 /\ UNCHANGED <<arm, banner, interrupted, marks>>
       ELSE /\ attempt' = 0
            /\ \/ UNCHANGED banner  \* the deadline of the banner has passed already
               \/ banner' = [kind |-> "interrupting", thread |-> call.thread, turn |-> call.turn]
            /\ UNCHANGED <<arm, interrupted, marks>>
    /\ UNCHANGED <<selected, threadVars, effectVars, presses, switches>>

(* settleInterrupt, with the answer of interrupt(), which is false once the turn has ended. *)
SettleInterrupt(call) ==
    /\ call.reply # "waiting"
    /\ calls' = calls \ {call}
    /\ IF attempt # call.id
       THEN UNCHANGED <<controllerVars, marks>>
       ELSE IF RunningTurn(call.thread) # call.turn
       THEN /\ attempt' = 0
            /\ interrupted' = Forget(call.thread, call.turn)
            /\ UNCHANGED <<arm, banner, marks>>
       ELSE IF call.reply = "refused"
       THEN /\ interrupted' = Forget(call.thread, call.turn)
            /\ HardStop(call.thread, {})
       ELSE /\ attempt' = 0
            /\ \/ UNCHANGED banner  \* the deadline of the banner has passed already
               \/ banner' = [kind |-> "interrupting", thread |-> call.thread, turn |-> call.turn]
            /\ UNCHANGED <<arm, interrupted, marks>>
    /\ UNCHANGED <<selected, threadVars, effectVars, presses, switches>>

-----------------------------------------------------------------------------
(* The threads and the user's navigation.                                  *)

Elsewhere == <<selected, effectVars, controllerVars, calls, presses, switches>>

(* React runs the effects of a view before it renders the next one: what was pressed on a *)
(* view meets its effects.                                                                 *)
MayRender(thread) == thread = selected => ~early

TurnStarts(thread) ==
    /\ MayRender(thread)
    /\ ~turn[thread].running /\ turn[thread].n < MaxTurns[thread]
    /\ turn' = [turn EXCEPT ![thread] = [n |-> @.n + 1, running |-> TRUE, foreground |-> TRUE,
                                         tasks |-> FALSE]]
    /\ UNCHANGED <<session, marks>> /\ UNCHANGED Elsewhere

(* The agent answers, resumes, and starts and ends background tasks. *)
TurnProceeds(thread) ==
    /\ turn[thread].running
    /\ \/ turn' = [turn EXCEPT ![thread].foreground = ~@]
       \/ turn' = [turn EXCEPT ![thread].tasks = ~@]
    /\ UNCHANGED <<session, marks>> /\ UNCHANGED Elsewhere

Stopping(thread) == marks[thread] \cap {"stopped", "reaped"} # {}

(* A turn ends; the tasks it leaves behind go on in its session unless it was stopped. *)
TurnEnds(thread) ==
    /\ MayRender(thread)
    /\ turn[thread].running
    /\ turn' = [turn EXCEPT ![thread] = [NotYet EXCEPT !.n = turn[thread].n]]
    /\ marks' = [marks EXCEPT ![thread] = {}]
    /\ session' = IF turn[thread].tasks /\ ~Stopping(thread) THEN session \cup {thread}
                  ELSE session
    /\ UNCHANGED Elsewhere

SessionEnds(thread) ==
    /\ MayRender(thread) /\ thread \in session
    /\ session' = session \ {thread}
    /\ UNCHANGED <<turn, marks>> /\ UNCHANGED Elsewhere

(* The user goes on from a view that was rendered. *)
SelectThread(thread) ==
    /\ seen = View
    /\ switches < MaxSwitches /\ thread # selected
    /\ selected' = thread
    /\ switches' = switches + 1
    /\ marks' = [h \in Threads |->
                   IF \E call \in calls : call.thread = h /\ Runs(h, call.turn)
                   THEN marks[h] \cup {"lapsed"} ELSE marks[h]]
    /\ UNCHANGED <<threadVars, effectVars, controllerVars, calls, presses>>

-----------------------------------------------------------------------------
Progress ==
    \/ \E call \in calls : AnswerInterrupt(call) \/ SettleInterrupt(call)
    \/ RunEffects
    \/ \E thread \in Threads : Stopping(thread) /\ TurnEnds(thread)

Press == PressHard \/ PressInterrupt \/ PressConfirm \/ PressSession

Next ==
    \/ Progress
    \/ Press \/ StopNow \/ KeepRunning \/ StopTasks
    \/ WindowPasses \/ TimerFires
    \/ \E thread \in Threads :
         \/ TurnStarts(thread) \/ TurnProceeds(thread) \/ TurnEnds(thread)
         \/ SessionEnds(thread) \/ SelectThread(thread)

Spec == Init /\ [][Next]_vars

(* Calls are answered, promises continue, effects run and a stopped agent ends. *)
FairSpec == Spec /\ WF_vars(Progress)

-----------------------------------------------------------------------------
(* Properties.                                                             *)

(* A hard stop reaches a turn the user pressed Stop for: an interrupt that is refused after *)
(* its turn has ended does not stop the turn that came next.                                *)
StopsOnlyWhatWasAsked ==
    \A thread \in Threads : "stopped" \in marks[thread] => "pressed" \in marks[thread]

(* Background work is stopped only while the confirmation for this very turn, or for this   *)
(* session, is pending, or after the user wanted the turn stopped while it still worked:    *)
(* neither a press from an earlier turn or another thread nor an expired one counts.        *)
NothingDiesUnconfirmed ==
    [][\A thread \in Threads :
         /\ "stopped" \in marks'[thread] \ marks[thread]
            /\ ~turn[thread].foreground /\ turn[thread].tasks =>
              \/ "urgent" \in marks[thread]
              \/ banner.thread = thread /\ banner.turn = turn[thread].n
         /\ thread \in session \ session' /\ presses' # presses =>
              banner.kind = "confirmSession" /\ banner.thread = thread /\ arm.live]_vars

(* Pressing Stop again for a turn that was asked to interrupt stops it hard, also when the  *)
(* banner was dismissed; excused are turns the user left meanwhile and forgotten ones.      *)
SecondPressStops ==
    \A thread \in Threads :
        "again" \in marks[thread] => marks[thread] \cap {"stopped", "lapsed"} # {}

(* A turn is stopped hard for presses of its own only, and for the second one it is.        *)
HardStopsMatchPresses == StopsOnlyWhatWasAsked /\ SecondPressStops

Felt(thread) == marks[thread] \cap {"stopped", "told", "reaped"} # {}

(* A press for a working turn is felt by its agent, or its turn ends, unless the user shows *)
(* another thread before the interrupt is answered.                                         *)
PressIsFelt ==
    \A thread \in Threads : \A n \in 1..MaxTurns[thread] :
        Runs(thread, n) /\ "urgent" \in marks[thread] ~>
            Felt(thread) \/ "lapsed" \in marks[thread] \/ ~Runs(thread, n)

(* The same without the excuse: an interrupt that is refused or fails is followed by the    *)
(* hard stop, whatever thread is shown when the answer comes.                               *)
RefusedInterruptHardStops ==
    \A thread \in Threads :
        "urgent" \in marks[thread] /\ ~Felt(thread) =>
            \E call \in calls : call.thread = thread /\ call.turn = turn[thread].n
=============================================================================
