------------------------- MODULE AgentTurnStartProofs -------------------------
(***************************************************************************)
(* Proofs about AgentTurnStart for any number of turns, of lost calls and  *)
(* of lost owners.  The inductive invariant is a conjunction of layers:    *)
(* the shape of the state, the turns that are still to come, what the      *)
(* runner knows of its task at each of its awaits, and what a runner that  *)
(* has ended leaves behind.                                                *)
(***************************************************************************)
EXTENDS AgentTurnStart, TLAPS

USE DEF Now

Statuses == {"absent"} \cup Running \cup Terminal

Ops == {"start", "acknowledge", "abandon", "halt", "attach", "stopMisnamed", "remove"}
Replies == {"waiting", "ok", "rejected", "restart", "unclear", "misnamed", "error"}

RunnerState ==
    [turn : 0..MaxTurns, busy : BOOLEAN, place : {"inPlace", "created", "reused"},
     shown : BOOLEAN, owned : BOOLEAN, byUser : BOOLEAN, acknowledged : BOOLEAN]

TaskState ==
    [state : {"none", "starting", "live", "dead"}, named : BOOLEAN, stopAsked : BOOLEAN,
     acknowledged : BOOLEAN, reported : BOOLEAN]

RendererOK ==
    /\ thread \in {"none", "open", "archived", "gone"}
    /\ turn \in [Turns -> Statuses]
    /\ runner \in RunnerState
    /\ IF runner.busy THEN Now \in Turns /\ call \in [op : Ops, reply : Replies]
                      ELSE call = NoCall
    /\ stopRequested \in BOOLEAN
    /\ userStops \subseteq [turn : Turns, recorded : BOOLEAN]

TasksOK == task \in [Turns -> TaskState]

ReportsOK ==
    /\ pendingStops \subseteq Turns /\ retained \subseteq Turns /\ removed \subseteq Turns
    /\ hosted \subseteq Turns /\ asked \subseteq Turns
    /\ told \subseteq Turns /\ warned \subseteq Turns
    /\ unstopped \subseteq Turns /\ detached \subseteq Turns
    /\ troubles \in 0..MaxTroubles

(* Of a turn that was not dispatched yet there is nothing.                 *)
AheadIsEmpty ==
    \A t \in Turns : t > Now =>
        task[t] = NoTask /\ turn[t] = "absent" /\ t \notin hosted \cup removed

(* A new thread is registered by its own runner.                           *)
UnshownHasNoThread ==
    runner.busy /\ ~runner.shown => thread = "none" /\ turn[Now] = "absent"

Alive(t) == task[t].state = "live" /\ ~task[t].stopAsked

Shows(t) == turn[t] \in Running \cup {"absent"}

(* What the runner may rely on when its call answers: a definite rejection *)
(* left no task, a confirmed stop reached the task, and nobody else settles *)
(* a turn whose start it still awaits.                                     *)
CallKnows ==
    /\ call.op = "start" /\ call.reply \in Definite => task[Now].state = "none"
    /\ call.op = "remove" => task[Now].state = "none"
    /\ runner.busy /\ call.op # "stopMisnamed"
       /\ (call.op = "start" => call.reply # "misnamed") => task[Now].named
    /\ call.op \in {"start", "stopMisnamed"} => Shows(Now) /\ ~task[Now].acknowledged
    /\ call.op = "acknowledge" => runner.shown /\ (Shows(Now) \/ task[Now].state # "live")
    /\ call.op \in {"abandon", "halt"} /\ call.reply = "ok" => ~Alive(Now)
    /\ call.op = "attach" => ~Alive(Now)
    /\ runner.busy /\ Now \in hosted => runner.place # "inPlace"

RemovedIsOver ==
    \A t \in removed : /\ t <= Now /\ task[t].state = "none"
                       /\ t = Now => call.op # "start"

(* What a runner that has ended leaves behind needs no strengthening.      *)
StartInvariant ==
    /\ RendererOK /\ TasksOK /\ ReportsOK
    /\ AheadIsEmpty /\ UnshownHasNoThread /\ CallKnows
    /\ NoForgottenAgent /\ RetainedWhileRunning /\ RemovedIsOver

-----------------------------------------------------------------------------
(* The runner.                                                             *)

LEMMA SettledIs ==
  ASSUME RendererOK, NEW t \in Turns, NEW status \in Terminal
  PROVE  /\ Settled(t, status) \in [Turns -> Statuses]
         /\ \A x \in Turns : Settled(t, status)[x] =
              IF x = t /\ turn[x] \in Running THEN status ELSE turn[x]
  BY DEF Settled, RendererOK, Statuses

LEMMA Ended ==
  ASSUME RendererOK, runner.busy, End
  PROVE  /\ runner' \in RunnerState /\ runner'.turn = Now /\ ~runner'.busy
         /\ Now \in Turns
         /\ call' = NoCall /\ call'.op = "none" /\ call'.reply = "none"
         /\ stopRequested' = FALSE
  <1>1. Now \in Turns /\ Now \in 0..MaxTurns
    BY DEF RendererOK, RunnerState
  <1>2. runner' = Idle(Now) /\ call' = NoCall /\ stopRequested' = FALSE
    BY DEF End
  <1> QED BY <1>1, <1>2 DEF Idle, NoCall, RunnerState

(* Every way out of the runner leaves nothing unannounced, if it leaves    *)
(* nothing unannounced of its own turn.                                    *)
LEMMA Leaves ==
  ASSUME StartInvariant, runner.busy, End,
         UNCHANGED <<thread, userStops, backendVars, historyVars, troubles, removed>>,
         \/ turn' = turn
         \/ \E status \in Terminal : turn' = Settled(Now, status),
         retained \subseteq retained' /\ retained' \subseteq retained \cup {Now},
         told \subseteq told' /\ told' \subseteq told \cup {Now},
         unstopped \subseteq unstopped' /\ unstopped' \subseteq unstopped \cup {Now},
         detached' \subseteq detached \cup {Now}, UNCHANGED warned,
         Alive(Now) => \/ turn'[Now] \in Running \cup {"absent", "uncertain",
                                                       "abandoned", "misnamed"}
                       \/ Now \in told' \cup unstopped',
         Alive(Now) /\ Now \in hosted =>
            turn'[Now] \in Running \/ thread = "gone" \/ Now \in retained'
  PROVE  StartInvariant'
  <1>1. /\ RendererOK /\ TasksOK /\ ReportsOK
        /\ AheadIsEmpty /\ UnshownHasNoThread /\ CallKnows
        /\ NoForgottenAgent /\ RetainedWhileRunning /\ RemovedIsOver
    BY DEF StartInvariant
  <1>2. /\ runner' \in RunnerState /\ runner'.turn = Now /\ ~runner'.busy
        /\ Now \in Turns
        /\ call' = NoCall /\ call'.op = "none" /\ call'.reply = "none"
        /\ stopRequested' = FALSE
    BY <1>1, Ended
  <1>3. UNCHANGED <<task, pendingStops, hosted, asked>>
    BY DEF backendVars, historyVars
  <1>4. /\ turn' \in [Turns -> Statuses]
        /\ \A x \in Turns \ {Now} : turn'[x] = turn[x]
    BY <1>1, <1>2, SettledIs DEF RendererOK
  <1>5. RendererOK' /\ TasksOK' /\ ReportsOK'
    BY <1>1, <1>2, <1>3, <1>4 DEF RendererOK, TasksOK, ReportsOK
  <1>6. AheadIsEmpty'
    <2>1. ASSUME NEW t \in Turns, t > Now PROVE t # Now
      BY <2>1 DEF Turns
    <2> QED BY <1>1, <1>2, <1>3, <1>4, <2>1 DEF AheadIsEmpty
  <1>7. UnshownHasNoThread' /\ CallKnows'
    BY <1>2 DEF UnshownHasNoThread, CallKnows, Definite
  <1>8. RemovedIsOver'
    BY <1>1, <1>2, <1>3 DEF RemovedIsOver
  <1>9. NoForgottenAgent'
    <2> SUFFICES ASSUME NEW t \in Turns, Unattended(t)', turn'[t] # "absent"
                 PROVE  \/ turn'[t] \in {"uncertain", "abandoned", "misnamed"}
                        \/ t \in told' \cup unstopped'
      BY DEF NoForgottenAgent
    <2>1. CASE t = Now
      BY <1>3, <2>1 DEF Unattended, Alive
    <2>2. CASE t # Now
      BY <1>1, <1>3, <1>4, <2>2 DEF Unattended, NoForgottenAgent
    <2> QED BY <2>1, <2>2
  <1>10. RetainedWhileRunning'
    <2> SUFFICES ASSUME NEW t \in hosted, Unattended(t)', thread # "gone"
                 PROVE  t \in retained'
      BY <1>3 DEF RetainedWhileRunning
    <2>0. t \in Turns
      BY <1>1 DEF ReportsOK
    <2>1. CASE t = Now
      BY <1>3, <2>1 DEF Unattended, Alive
    <2>2. CASE t # Now
      BY <1>1, <1>3, <1>4, <2>0, <2>2 DEF Unattended, RetainedWhileRunning
    <2> QED BY <2>1, <2>2
  <1> QED BY <1>5, <1>6, <1>7, <1>8, <1>9, <1>10 DEF StartInvariant

(* What the next call of the runner relies on.                             *)
Fits(op) ==
    /\ op = "remove" => task[Now].state = "none"
    /\ op = "attach" => ~Alive(Now)
    /\ op # "stopMisnamed" => task[Now].named
    /\ op = "stopMisnamed" =>
           ~task[Now].acknowledged /\ turn'[Now] \in Running \cup {"absent"}
    /\ op = "acknowledge" => runner'.shown /\ turn'[Now] \in Running \cup {"absent"}

LEMMA Calls ==
  ASSUME StartInvariant, runner.busy, NEW op \in Ops \ {"start"}, Await(op),
         UNCHANGED <<userStops, backendVars, historyVars, troubles, removed, warned>>,
         \/ thread' = thread /\ turn' = turn
         \/ thread' = thread /\ \E status \in Terminal : turn' = Settled(Now, status)
         \/ ~runner.shown /\ thread' = "open" /\ turn' = [turn EXCEPT ![Now] = "pending"],
         runner' \in RunnerState, runner'.busy, runner'.turn = Now,
         runner'.place = runner.place,
         stopRequested' \in BOOLEAN,
         retained \subseteq retained' /\ retained' \subseteq retained \cup {Now},
         told \subseteq told' /\ told' \subseteq told \cup {Now},
         UNCHANGED <<unstopped, detached>>,
         runner'.shown \/ (thread' = thread /\ ~runner.shown),
         Fits(op)
  PROVE  StartInvariant'
  <1>1. /\ RendererOK /\ TasksOK /\ ReportsOK
        /\ AheadIsEmpty /\ UnshownHasNoThread /\ CallKnows
        /\ NoForgottenAgent /\ RetainedWhileRunning /\ RemovedIsOver
    BY DEF StartInvariant
  <1>2. Now \in Turns
    BY <1>1 DEF RendererOK
  <1>3. /\ UNCHANGED <<task, pendingStops, hosted, asked>>
        /\ call' = [op |-> op, reply |-> "waiting"]
    BY DEF backendVars, historyVars, Await
  <1>4. /\ turn' \in [Turns -> Statuses]
        /\ \A x \in Turns \ {Now} : turn'[x] = turn[x]
    <2>1. CASE turn' = [turn EXCEPT ![Now] = "pending"]
      BY <1>1, <1>2, <2>1 DEF RendererOK, Statuses, Running
    <2>2. CASE \/ turn' = turn
               \/ \E status \in Terminal : turn' = Settled(Now, status)
      BY <1>1, <1>2, <2>2, SettledIs DEF RendererOK
    <2> QED BY <2>1, <2>2
  <1>5. RendererOK' /\ TasksOK' /\ ReportsOK'
    <2>1. call' \in [op : Ops, reply : Replies]
      BY <1>3 DEF Replies
    <2>2. thread' \in {"none", "open", "archived", "gone"}
      BY <1>1 DEF RendererOK
    <2> QED BY <1>1, <1>2, <1>3, <1>4, <2>1, <2>2 DEF RendererOK, TasksOK, ReportsOK
  <1>6. AheadIsEmpty'
    <2>1. ASSUME NEW t \in Turns, t > Now PROVE t # Now
      BY <2>1 DEF Turns
    <2> QED BY <1>1, <1>2, <1>3, <1>4, <2>1 DEF AheadIsEmpty
  <1>7. UnshownHasNoThread'
    <2> SUFFICES ASSUME ~runner'.shown PROVE thread' = "none" /\ turn'[Now] = "absent"
      BY DEF UnshownHasNoThread
    <2>1. ~runner.shown /\ thread = "none" /\ turn[Now] = "absent" /\ thread' = "none"
      BY <1>1 DEF UnshownHasNoThread
    <2>2. turn' = turn \/ \E status \in Terminal : turn' = Settled(Now, status)
      BY <2>1
    <2> QED BY <1>1, <1>2, <2>1, <2>2, SettledIs DEF Running
  <1>8. CallKnows'
    BY <1>1, <1>2, <1>3 DEF CallKnows, Alive, Shows, Fits
  <1>9. RemovedIsOver'
    BY <1>1, <1>3 DEF RemovedIsOver
  <1>10. NoForgottenAgent'
    <2> SUFFICES ASSUME NEW t \in Turns, Unattended(t)', turn'[t] # "absent"
                 PROVE  \/ turn'[t] \in {"uncertain", "abandoned", "misnamed"}
                        \/ t \in told' \cup unstopped'
      BY DEF NoForgottenAgent
    <2>1. t # Now
      BY DEF Unattended
    <2> QED BY <1>1, <1>3, <1>4, <2>1 DEF Unattended, NoForgottenAgent
  <1>11. RetainedWhileRunning'
    <2> SUFFICES ASSUME NEW t \in hosted, Unattended(t)', thread' # "gone"
                 PROVE  t \in retained'
      BY <1>3 DEF RetainedWhileRunning
    <2>0. t \in Turns /\ t # Now
      BY <1>1 DEF ReportsOK, Unattended
    <2>1. thread # "gone"
      BY <1>1 DEF UnshownHasNoThread
    <2> QED BY <1>1, <1>3, <1>4, <2>0, <2>1 DEF Unattended, RetainedWhileRunning
  <1> QED BY <1>5, <1>6, <1>7, <1>8, <1>9, <1>10, <1>11 DEF StartInvariant

(* What the runner knows when a call of its own has answered.              *)
LEMMA Known ==
  ASSUME StartInvariant, NEW op \in Ops, call.op = op
  PROVE  /\ runner.busy /\ runner \in RunnerState /\ Now \in Turns
         /\ RendererOK /\ CallKnows /\ ReportsOK
         /\ Now \in hosted => runner.place # "inPlace"
         /\ op # "stopMisnamed" /\ (op = "start" => call.reply # "misnamed") =>
               task[Now].named
  <1>1. RendererOK /\ CallKnows /\ ReportsOK
    BY DEF StartInvariant
  <1>2. runner.busy
    BY <1>1 DEF RendererOK, NoCall, Ops
  <1> QED BY <1>1, <1>2 DEF RendererOK, CallKnows

LEMMA AbandonKeeps ==
  ASSUME StartInvariant, runner.busy, Abandon, task[Now].named,
         told' = told \/ told' = told \cup {Now},
         UNCHANGED <<userStops, backendVars, historyVars, troubles>>
  PROVE  StartInvariant'
  <1>1. RendererOK /\ runner \in RunnerState
    BY DEF StartInvariant, RendererOK
  <1>2. /\ Await("abandon") /\ "abandon" \in Ops \ {"start"}
        /\ UNCHANGED <<thread, stopRequested, retained, removed, warned, unstopped, detached>>
    BY DEF Abandon, Ops
  <1>3. runner' = [runner EXCEPT !.byUser = stopRequested]
    BY DEF Abandon
  <1>4. /\ runner' \in RunnerState /\ runner'.busy = runner.busy /\ runner'.turn = Now
        /\ runner'.place = runner.place /\ runner'.shown = runner.shown
    BY <1>1, <1>3 DEF RendererOK, RunnerState
  <1>5. turn' = turn \/ \E status \in Terminal : turn' = Settled(Now, status)
    BY DEF Abandon, Terminal, Failed
  <1>6. stopRequested' \in BOOLEAN
    BY <1>1, <1>2 DEF RendererOK
  <1>7. runner'.shown \/ (thread' = thread /\ ~runner.shown)
    BY <1>1, <1>2, <1>4 DEF RunnerState
  <1> HIDE DEF Now
  <1>8. retained \subseteq retained' /\ retained' \subseteq retained \cup {Now}
    BY <1>2
  <1>9. told \subseteq told' /\ told' \subseteq told \cup {Now}
    OBVIOUS
  <1>10. Fits("abandon")
    BY DEF Fits
  <1> QED BY <1>2, <1>4, <1>5, <1>6, <1>7, <1>8, <1>9, <1>10, Calls

LEMMA ReleaseKeeps ==
  ASSUME StartInvariant, runner.busy, NEW confirmed \in BOOLEAN, Release(confirmed),
         task[Now].named,
         UNCHANGED <<userStops, backendVars, historyVars, troubles>>
  PROVE  StartInvariant'
  <1>1. CASE stopRequested /\ runner.shown /\ Owned
    <2>1. RendererOK /\ runner \in RunnerState
      BY DEF StartInvariant, RendererOK
    <2>2. /\ Await("halt") /\ "halt" \in Ops \ {"start"}
          /\ UNCHANGED <<thread, turn, stopRequested, retained, removed, told, warned,
                         unstopped, detached>>
      BY <1>1 DEF Release, Ops, reportVars
    <2>3. runner' = [runner EXCEPT !.acknowledged = confirmed]
      BY <1>1 DEF Release
    <2>4. /\ runner' \in RunnerState /\ runner'.busy = runner.busy /\ runner'.turn = Now
          /\ runner'.place = runner.place /\ runner'.shown = runner.shown
      BY <2>1, <2>3 DEF RendererOK, RunnerState
    <2>5. stopRequested' \in BOOLEAN
      BY <2>1, <2>2 DEF RendererOK
    <2>6. Fits("halt")
      BY DEF Fits
    <2> QED BY <1>1, <2>2, <2>4, <2>5, <2>6, Calls
  <1>2. CASE ~(stopRequested /\ runner.shown /\ Owned)
    BY <1>2, AbandonKeeps DEF Release
  <1> QED BY <1>1, <1>2

LEMMA RetainedGrows ==
  /\ retained \subseteq Retained /\ Retained \subseteq retained \cup {Now}
  /\ runner.place # "inPlace" => Now \in Retained
  BY DEF Retained

LEMMA StartFailedAfterStopKeeps ==
  ASSUME StartInvariant, StartFailedAfterStop
  PROVE  StartInvariant'
  <1>1. call.op = "start" /\ "start" \in Ops
    BY DEF StartFailedAfterStop, Reply, Ops
  <1>2. /\ runner.busy /\ CallKnows /\ task[Now].named
    BY <1>1, Known DEF StartFailedAfterStop, Definite
  <1>3. CASE call.reply \in Definite
    <2>1. ~Alive(Now)
      BY <1>1, <1>2, <1>3 DEF CallKnows, Alive
    <2>2. /\ End /\ turn' = Settled(Now, "stopped") /\ "stopped" \in Terminal
          /\ UNCHANGED <<thread, reportVars, userStops, backendVars, historyVars, troubles>>
      BY <1>3 DEF StartFailedAfterStop, Terminal
    <2>3. UNCHANGED <<retained, removed, told, warned, unstopped, detached>>
      BY <2>2 DEF reportVars
    <2> QED BY <1>2, <2>1, <2>2, <2>3, Leaves
  <1>4. CASE call.reply \notin Definite
    <2>1. /\ Abandon /\ told' = told \cup {Now}
          /\ UNCHANGED <<userStops, backendVars, historyVars, troubles>>
      BY <1>4 DEF StartFailedAfterStop
    <2> QED BY <1>2, <2>1, AbandonKeeps
  <1> QED BY <1>3, <1>4

LEMMA StartNeedsRestartKeeps ==
  ASSUME StartInvariant, StartNeedsRestart
  PROVE  StartInvariant'
  <1>1. call.op = "start" /\ "start" \in Ops
    BY DEF StartNeedsRestart, Reply, Ops
  <1>2. /\ runner.busy /\ CallKnows
    BY <1>1, Known
  <1>3. ~Alive(Now)
    BY <1>1, <1>2 DEF StartNeedsRestart, CallKnows, Alive, Definite
  <1>4. /\ End /\ turn' = Settled(Now, "stopped") /\ "stopped" \in Terminal
        /\ UNCHANGED <<thread, reportVars, userStops, backendVars, historyVars, troubles>>
    BY DEF StartNeedsRestart, Terminal
  <1>5. UNCHANGED <<retained, removed, told, warned, unstopped, detached>>
    BY <1>4 DEF reportVars
  <1> QED BY <1>2, <1>3, <1>4, <1>5, Leaves

LEMMA StartFailedKeeps ==
  ASSUME StartInvariant, StartFailed
  PROVE  StartInvariant'
  <1>1. call.op = "start" /\ "start" \in Ops
    BY DEF StartFailed, Reply, Ops
  <1>2. /\ runner.busy /\ runner \in RunnerState /\ Now \in Turns /\ RendererOK /\ CallKnows
        /\ Now \in hosted => runner.place # "inPlace"
        /\ task[Now].named
    BY <1>1, Known DEF StartFailed
  <1>3. Shows(Now) /\ (call.reply = "rejected" => task[Now].state = "none")
    BY <1>1, <1>2 DEF CallKnows, Definite
  <1>4. /\ UNCHANGED <<thread, userStops, backendVars, removed, warned, unstopped, detached,
                       historyVars, troubles>>
        /\ told \subseteq told' /\ told' \subseteq told \cup {Now}
    BY DEF StartFailed
  <1>5. retained \subseteq retained' /\ retained' \subseteq retained \cup {Now}
    BY RetainedGrows DEF StartFailed
  <1>6. CASE call.reply = "rejected" /\ runner.place = "created"
    <2>1. /\ Await("remove") /\ "remove" \in Ops \ {"start"}
          /\ UNCHANGED <<runner, stopRequested>>
          /\ turn' = Settled(Now, "rejected") /\ "rejected" \in Terminal
      BY <1>6 DEF StartFailed, Ops, Terminal, Failed
    <2>2. stopRequested' \in BOOLEAN
      BY <1>2, <2>1 DEF RendererOK
    <2>3. runner' \in RunnerState /\ runner'.busy /\ runner'.turn = Now
          /\ runner'.place = runner.place
          /\ (runner'.shown \/ (thread' = thread /\ ~runner.shown))
      BY <1>2, <1>4, <2>1 DEF RunnerState
    <2>4. Fits("remove")
      BY <1>2, <1>3, <1>6 DEF Fits
    <2> QED BY <1>2, <1>4, <1>5, <2>1, <2>2, <2>3, <2>4, Calls
  <1>7. CASE call.reply = "rejected" /\ runner.place # "created"
    <2>1. End /\ turn' = Settled(Now, "rejected") /\ "rejected" \in Terminal
      BY <1>7 DEF StartFailed, Terminal, Failed
    <2>2. ~Alive(Now)
      BY <1>3, <1>7 DEF Alive
    <2> QED BY <1>2, <1>4, <1>5, <2>1, <2>2, Leaves
  <1>8. CASE call.reply = "unclear"
    <2>1. End /\ turn' = Settled(Now, "uncertain") /\ "uncertain" \in Terminal
          /\ retained' = Retained
      BY <1>8 DEF StartFailed, Terminal, Failed
    <2>2. turn'[Now] \in {"absent", "uncertain"}
      BY <1>2, <1>3, <2>1, SettledIs DEF Shows
    <2>3. Now \in hosted => Now \in retained'
      BY <1>2, <2>1, RetainedGrows
    <2> QED BY <1>2, <1>4, <1>5, <2>1, <2>2, <2>3, Leaves
  <1> QED BY <1>6, <1>7, <1>8 DEF StartFailed

LEMMA WorktreeRemovedKeeps ==
  ASSUME StartInvariant, WorktreeRemoved
  PROVE  StartInvariant'
  <1>1. call.op = "remove" /\ "remove" \in Ops
    BY DEF WorktreeRemoved, Reply, Ops
  <1>2. runner.busy /\ CallKnows
    BY <1>1, Known
  <1>3. ~Alive(Now)
    BY <1>1, <1>2 DEF CallKnows, Alive
  <1>4. /\ End
        /\ UNCHANGED <<thread, turn, userStops, backendVars, historyVars, troubles, retained,
                       removed, told, warned, unstopped, detached>>
    BY DEF WorktreeRemoved, reportVars
  <1> QED BY <1>2, <1>3, <1>4, Leaves

LEMMA StartMisnamedKeeps ==
  ASSUME StartInvariant, StartMisnamed
  PROVE  StartInvariant'
  <1>1. call.op = "start" /\ "start" \in Ops
    BY DEF StartMisnamed, Reply, Ops
  <1>2. runner.busy /\ runner \in RunnerState /\ Now \in Turns /\ RendererOK /\ CallKnows
    BY <1>1, Known
  <1>3. Shows(Now) /\ ~task[Now].acknowledged
    BY <1>1, <1>2 DEF CallKnows
  <1>4. /\ Await("stopMisnamed") /\ "stopMisnamed" \in Ops \ {"start"}
        /\ UNCHANGED <<thread, turn, runner, stopRequested, userStops, backendVars, historyVars,
                       troubles, retained, removed, told, warned, unstopped, detached>>
    BY DEF StartMisnamed, reportVars, Ops
  <1>5. stopRequested' \in BOOLEAN
    BY <1>2, <1>4 DEF RendererOK
  <1>6. runner' \in RunnerState /\ runner'.busy /\ runner'.turn = Now
        /\ runner'.place = runner.place
        /\ (runner'.shown \/ (thread' = thread /\ ~runner.shown))
    BY <1>2, <1>4 DEF RunnerState
  <1>7. turn'[Now] \in Running \cup {"absent"}
    BY <1>3, <1>4 DEF Shows
  <1>8. /\ retained \subseteq retained' /\ retained' \subseteq retained \cup {Now}
        /\ told \subseteq told' /\ told' \subseteq told \cup {Now}
    BY <1>4
  <1>9. Fits("stopMisnamed")
    BY <1>3, <1>7 DEF Fits
  <1> QED BY <1>2, <1>4, <1>5, <1>6, <1>8, <1>9, Calls

LEMMA MisnamedStoppedKeeps ==
  ASSUME StartInvariant, MisnamedStopped
  PROVE  StartInvariant'
  <1>1. call.op = "stopMisnamed" /\ "stopMisnamed" \in Ops
    BY DEF MisnamedStopped, Reply, Ops
  <1>2. /\ runner.busy /\ Now \in Turns /\ RendererOK /\ CallKnows
        /\ Now \in hosted => runner.place # "inPlace"
    BY <1>1, Known
  <1>3. /\ UNCHANGED <<thread, userStops, backendVars, removed, warned, unstopped, detached,
                       historyVars, troubles>>
        /\ told \subseteq told' /\ told' \subseteq told \cup {Now}
        /\ End /\ turn' = Settled(Now, "misnamed") /\ "misnamed" \in Terminal
        /\ retained' = Retained
    BY DEF MisnamedStopped, Terminal, Failed
  <1>4. /\ retained \subseteq retained' /\ retained' \subseteq retained \cup {Now}
        /\ Now \in hosted => Now \in retained'
    BY <1>2, <1>3, RetainedGrows
  <1>5. turn'[Now] \in {"absent", "misnamed"}
    BY <1>1, <1>2, <1>3, SettledIs DEF CallKnows, Shows
  <1> QED BY <1>2, <1>3, <1>4, <1>5, Leaves

LEMMA StartSucceededKeeps ==
  ASSUME StartInvariant, StartSucceeded
  PROVE  StartInvariant'
  <1>1. call.op = "start" /\ "start" \in Ops
    BY DEF StartSucceeded, Reply, Ops
  <1>2. /\ runner.busy /\ runner \in RunnerState /\ Now \in Turns /\ RendererOK /\ CallKnows
        /\ task[Now].named
    BY <1>1, Known DEF StartSucceeded
  <1>3. Shows(Now) /\ UNCHANGED <<userStops, backendVars, historyVars, troubles>>
    BY <1>1, <1>2 DEF CallKnows, StartSucceeded
  <1>4. CASE ~StillOwned
    BY <1>2, <1>3, <1>4, ReleaseKeeps DEF StartSucceeded
  <1>5. ASSUME StillOwned PROVE StartInvariant'
    <2>1. /\ Await("acknowledge") /\ "acknowledge" \in Ops \ {"start"}
          /\ UNCHANGED <<stopRequested, retained, removed, told, warned, unstopped, detached>>
      BY <1>5 DEF StartSucceeded, reportVars, Ops
    <2>2. stopRequested' \in BOOLEAN
      BY <1>2, <2>1 DEF RendererOK
    <2>3. /\ retained \subseteq retained' /\ retained' \subseteq retained \cup {Now}
          /\ told \subseteq told' /\ told' \subseteq told \cup {Now}
      BY <2>1
    <2>4. CASE runner.shown
      <3>1. UNCHANGED <<thread, turn, runner>>
        BY <1>5, <2>4 DEF StartSucceeded
      <3>2. runner' \in RunnerState /\ runner'.busy /\ runner'.turn = Now
            /\ runner'.place = runner.place /\ runner'.shown
        BY <1>2, <2>4, <3>1 DEF RunnerState
      <3>3. turn'[Now] \in Running \cup {"absent"}
        BY <1>3, <3>1 DEF Shows
      <3>4. Fits("acknowledge")
        BY <1>2, <3>2, <3>3 DEF Fits
      <3> QED BY <1>2, <1>3, <2>1, <2>2, <2>3, <3>1, <3>2, <3>4, Calls
    <2>5. CASE ~runner.shown
      <3>1. /\ thread' = "open" /\ turn' = [turn EXCEPT ![Now] = "pending"]
            /\ runner' = [runner EXCEPT !.shown = TRUE]
        BY <1>5, <2>5 DEF StartSucceeded
      <3>2. /\ runner' \in RunnerState /\ runner'.busy = runner.busy /\ runner'.turn = Now
            /\ runner'.place = runner.place /\ runner'.shown
        BY <1>2, <3>1 DEF RunnerState
      <3>3. turn'[Now] \in Running \cup {"absent"}
        BY <1>2, <3>1 DEF RendererOK, Running
      <3>4. Fits("acknowledge")
        BY <1>2, <3>2, <3>3 DEF Fits
      <3> QED BY <1>2, <1>3, <2>1, <2>2, <2>3, <2>5, <3>1, <3>2, <3>4, Calls
    <2> QED BY <2>4, <2>5
  <1> QED BY <1>4, <1>5

LEMMA AcknowledgedKeeps ==
  ASSUME StartInvariant, Acknowledged
  PROVE  StartInvariant'
  <1>1. call.op = "acknowledge" /\ "acknowledge" \in Ops
    BY DEF Acknowledged, Reply, Ops
  <1>2. /\ runner.busy /\ runner \in RunnerState /\ RendererOK /\ CallKnows
        /\ task[Now].named
    BY <1>1, Known
  <1>3. runner.shown /\ (Alive(Now) => Shows(Now))
    BY <1>1, <1>2 DEF CallKnows, Alive
  <1>4. UNCHANGED <<userStops, backendVars, historyVars, troubles>>
    BY DEF Acknowledged
  <1>5. CASE ~StillOwned
    <2>1. Release(call.reply = "ok") /\ (call.reply = "ok") \in BOOLEAN
      BY <1>5 DEF Acknowledged
    <2> QED BY <1>2, <1>4, <2>1, ReleaseKeeps
  <1>6. CASE StillOwned
    <2>1. /\ End /\ detached' \subseteq detached \cup {Now}
          /\ UNCHANGED <<thread, turn, removed, retained, told, warned, unstopped>>
      BY <1>6 DEF Acknowledged
    <2>2. turn[Now] # "absent"
      BY <1>3, <1>6 DEF StillOwned, Owned, Registered
    <2>3. Alive(Now) => turn'[Now] \in Running
      BY <1>3, <2>1, <2>2 DEF Shows
    <2> QED BY <1>2, <1>4, <2>1, <2>3, Leaves
  <1> QED BY <1>5, <1>6

LEMMA AbandonedKeeps ==
  ASSUME StartInvariant, Abandoned
  PROVE  StartInvariant'
  <1>1. call.op = "abandon" /\ "abandon" \in Ops
    BY DEF Abandoned, Reply, Ops
  <1>2. /\ runner.busy /\ CallKnows
        /\ Now \in hosted => runner.place # "inPlace"
    BY <1>1, Known
  <1>3. /\ End /\ retained' = Retained
        /\ UNCHANGED <<thread, userStops, backendVars, removed, told, warned, detached,
                       historyVars, troubles>>
        /\ turn' = turn \/ turn' = Settled(Now, "stopped")
        /\ "stopped" \in Terminal
        /\ unstopped \subseteq unstopped' /\ unstopped' \subseteq unstopped \cup {Now}
        /\ call.reply # "ok" => Now \in unstopped'
    BY DEF Abandoned, Terminal
  <1>4. /\ retained \subseteq retained' /\ retained' \subseteq retained \cup {Now}
        /\ Now \in hosted => Now \in retained'
    BY <1>2, <1>3, RetainedGrows
  <1>5. Alive(Now) => Now \in unstopped'
    BY <1>1, <1>2, <1>3 DEF CallKnows
  <1> QED BY <1>2, <1>3, <1>4, <1>5, Leaves

LEMMA HaltedKeeps ==
  ASSUME StartInvariant, Halted
  PROVE  StartInvariant'
  <1>1. call.op = "halt" /\ "halt" \in Ops
    BY DEF Halted, Reply, Ops
  <1>2. /\ runner.busy /\ runner \in RunnerState /\ RendererOK /\ CallKnows
        /\ Now \in hosted => runner.place # "inPlace"
        /\ task[Now].named
    BY <1>1, Known
  <1>3. UNCHANGED <<thread, userStops, backendVars, historyVars, troubles, removed, warned,
                    detached>>
    BY DEF Halted, reportVars
  <1>4. CASE call.reply # "ok"
    <2>1. /\ End /\ retained' = Retained /\ turn' = Settled(Now, "stopped")
          /\ "stopped" \in Terminal
          /\ told' = told \cup {Now} /\ unstopped' = unstopped \cup {Now}
      BY <1>4 DEF Halted, Terminal
    <2>2. /\ retained \subseteq retained' /\ retained' \subseteq retained \cup {Now}
          /\ Now \in hosted => Now \in retained'
      BY <1>2, <2>1, RetainedGrows
    <2> QED BY <1>2, <1>3, <2>1, <2>2, Leaves
  <1>5. ASSUME call.reply = "ok" PROVE StartInvariant'
    <2>1. ~Alive(Now) /\ task[Now].named
      BY <1>1, <1>2, <1>5 DEF CallKnows
    <2>2. UNCHANGED <<turn, retained, told, unstopped>>
      BY <1>5 DEF Halted, reportVars
    <2>3. CASE runner.acknowledged
      <3>1. End
        BY <1>5, <2>3 DEF Halted
      <3> QED BY <1>2, <1>3, <2>1, <2>2, <3>1, Leaves
    <2>4. CASE ~runner.acknowledged
      <3>1. /\ Await("attach") /\ "attach" \in Ops \ {"start"}
            /\ UNCHANGED <<runner, stopRequested>>
        BY <1>5, <2>4 DEF Halted, Ops
      <3>2. stopRequested' \in BOOLEAN
        BY <1>2, <3>1 DEF RendererOK
      <3>3. runner' \in RunnerState /\ runner'.busy /\ runner'.turn = Now
            /\ runner'.place = runner.place
            /\ (runner'.shown \/ (thread' = thread /\ ~runner.shown))
        BY <1>2, <1>3, <3>1 DEF RunnerState
      <3>4. /\ retained \subseteq retained' /\ retained' \subseteq retained \cup {Now}
            /\ told \subseteq told' /\ told' \subseteq told \cup {Now}
        BY <2>2
      <3>5. Fits("attach")
        BY <2>1 DEF Fits
      <3> QED BY <1>2, <1>3, <2>2, <3>1, <3>2, <3>3, <3>4, <3>5, Calls
    <2> QED BY <2>3, <2>4
  <1> QED BY <1>4, <1>5

LEMMA AttachedKeeps ==
  ASSUME StartInvariant, Attached
  PROVE  StartInvariant'
  <1>1. call.op = "attach" /\ "attach" \in Ops
    BY DEF Attached, Reply, Ops
  <1>2. runner.busy /\ CallKnows
    BY <1>1, Known
  <1>3. ~Alive(Now)
    BY <1>1, <1>2 DEF CallKnows
  <1>4. /\ End
        /\ turn' = turn \/ turn' = Settled(Now, "stopped")
        /\ "stopped" \in Terminal
        /\ told \subseteq told' /\ told' \subseteq told \cup {Now}
        /\ UNCHANGED <<thread, userStops, backendVars, removed, retained, warned, unstopped,
                       detached, historyVars, troubles>>
    BY DEF Attached, Terminal
  <1> QED BY <1>2, <1>3, <1>4, Leaves

LEMMA RunnerKeeps ==
  ASSUME StartInvariant, Runner
  PROVE  StartInvariant'
  BY StartFailedAfterStopKeeps, StartNeedsRestartKeeps, StartFailedKeeps, WorktreeRemovedKeeps,
     StartMisnamedKeeps, MisnamedStoppedKeeps, StartSucceededKeeps, AcknowledgedKeeps,
     AbandonedKeeps, HaltedKeeps, AttachedKeeps
  DEF Runner

-----------------------------------------------------------------------------
(* Dispatching a turn.                                                     *)

LEMMA Dispatched ==
  ASSUME StartInvariant, ~runner.busy, Now < MaxTurns, Await("start"),
         runner' \in RunnerState, runner'.busy, runner'.turn = Now + 1,
         stopRequested' = FALSE,
         \/ turn' = turn /\ ~runner'.shown /\ thread = "none"
         \/ turn' = [turn EXCEPT ![Now + 1] = "pending"] /\ runner'.shown,
         hosted' = hosted \/ (hosted' = hosted \cup {Now + 1} /\ runner'.place # "inPlace"),
         UNCHANGED <<thread, userStops, backendVars, reportVars, asked, troubles>>
  PROVE  StartInvariant'
  <1> HIDE DEF Now
  <1> DEFINE next == Now + 1
  <1>1. /\ RendererOK /\ TasksOK /\ ReportsOK
        /\ AheadIsEmpty /\ UnshownHasNoThread /\ CallKnows
        /\ NoForgottenAgent /\ RetainedWhileRunning /\ RemovedIsOver
    BY DEF StartInvariant
  <1>2. /\ Now \in 0..MaxTurns /\ next \in Turns /\ next > Now
        /\ \A t \in Turns : t > next => t > Now /\ t # next
        /\ \A t \in Turns : t <= Now => t <= next /\ t # next
    <2>1. Now \in 0..MaxTurns
      BY <1>1 DEF RendererOK, RunnerState, Now
    <2> QED BY <2>1, TurnStartAssumption DEF Turns
  <1>3. task[next] = NoTask /\ turn[next] = "absent" /\ next \notin hosted \cup removed
    BY <1>1, <1>2 DEF AheadIsEmpty
  <1>4. /\ call' = [op |-> "start", reply |-> "waiting"] /\ Now' = next
        /\ UNCHANGED <<task, pendingStops, retained, removed, told, warned, unstopped, detached>>
    BY DEF Await, backendVars, reportVars, Now
  <1> HIDE DEF next
  <1>5. turn' \in [Turns -> Statuses] /\ \A t \in Turns \ {next} : turn'[t] = turn[t]
    <2>1. turn' = turn \/ turn' = [turn EXCEPT ![next] = "pending"]
      BY DEF next
    <2> QED BY <1>1, <1>2, <2>1 DEF RendererOK, Statuses, Running
  <1>6. RendererOK' /\ TasksOK' /\ ReportsOK'
    <2>1. call' \in [op : Ops, reply : Replies]
      BY <1>4 DEF Ops, Replies
    <2>2. hosted' \subseteq Turns
      BY <1>1, <1>2 DEF ReportsOK, next
    <2>3. RendererOK'
      BY <1>1, <1>2, <1>4, <1>5, <2>1 DEF RendererOK
    <2> QED BY <1>1, <1>4, <2>2, <2>3 DEF TasksOK, ReportsOK
  <1>7. AheadIsEmpty'
    <2> SUFFICES ASSUME NEW t \in Turns, t > next
                 PROVE  (task[t] = NoTask /\ turn[t] = "absent" /\ t \notin hosted \cup removed)'
      BY <1>4 DEF AheadIsEmpty
    <2>1. t > Now /\ t # next
      BY <1>2
    <2>2. task[t] = NoTask /\ turn[t] = "absent" /\ t \notin hosted \cup removed
      BY <1>1, <2>1 DEF AheadIsEmpty
    <2>3. t \notin hosted'
      BY <2>1, <2>2 DEF next
    <2> QED BY <1>4, <1>5, <2>1, <2>2, <2>3
  <1>8. UnshownHasNoThread'
    BY <1>3, <1>4, <1>5 DEF UnshownHasNoThread
  <1>9. CallKnows'
    <2>1. task'[next].named /\ ~task'[next].acknowledged
      BY <1>3, <1>4 DEF NoTask
    <2>2. turn'[next] \in Running \cup {"absent"}
      <3>1. turn' = turn \/ turn' = [turn EXCEPT ![next] = "pending"]
        BY DEF next
      <3> QED BY <1>1, <1>2, <1>3, <3>1 DEF RendererOK, Running
    <2>3. next \in hosted' => runner'.place # "inPlace"
      BY <1>3 DEF next
    <2> QED BY <1>4, <2>1, <2>2, <2>3 DEF CallKnows, Shows, Definite
  <1>10. \A t \in Turns : Unattended(t)' => Unattended(t) /\ t # next
    BY <1>3, <1>4, <1>5 DEF Unattended, NoTask
  <1>11. NoForgottenAgent'
    BY <1>1, <1>4, <1>5, <1>10 DEF NoForgottenAgent
  <1>12. RetainedWhileRunning'
    <2>1. \A t \in hosted' : t \in Turns /\ (t # next => t \in hosted)
      BY <1>6 DEF ReportsOK, next
    <2> QED BY <1>1, <1>4, <1>10, <2>1 DEF RetainedWhileRunning
  <1>13. RemovedIsOver'
    <2>1. \A t \in removed : t \in Turns
      BY <1>1 DEF ReportsOK
    <2> QED BY <1>1, <1>2, <1>4, <2>1 DEF RemovedIsOver
  <1> QED BY <1>6, <1>7, <1>8, <1>9, <1>11, <1>12, <1>13 DEF StartInvariant

LEMMA IdleRunner ==
  ASSUME StartInvariant, Now < MaxTurns
  PROVE  Idle(Now + 1) \in RunnerState
  <1>1. Now \in 0..MaxTurns
    BY DEF StartInvariant, RendererOK, RunnerState
  <1>2. Now + 1 \in 0..MaxTurns
    BY <1>1, TurnStartAssumption
  <1> QED BY <1>2 DEF Idle, RunnerState

LEMMA StartThreadKeeps ==
  ASSUME StartInvariant, NEW place \in Places, StartThread(place)
  PROVE  StartInvariant'
  <1>1. Now < MaxTurns /\ Idle(Now + 1) \in RunnerState
    BY IdleRunner DEF StartThread
  <1>2. runner' = [Idle(Now + 1) EXCEPT !.busy = TRUE, !.owned = TRUE, !.place = place]
    BY DEF StartThread
  <1>3. place \in {"inPlace", "created", "reused"}
    BY TurnStartAssumption
  <1>4. /\ runner' \in RunnerState /\ runner'.busy /\ runner'.turn = Now + 1
        /\ ~runner'.shown /\ runner'.place = place
    BY <1>1, <1>2, <1>3 DEF RunnerState, Idle
  <1>5. hosted' = hosted \/ (hosted' = hosted \cup {Now + 1} /\ runner'.place # "inPlace")
    <2>1. hosted' = IF place = "inPlace" THEN hosted ELSE hosted \cup {Now + 1}
      BY DEF StartThread
    <2>2. CASE place = "inPlace"
      BY <2>1, <2>2
    <2>3. CASE place # "inPlace"
      <3>1. hosted' = hosted \cup {Now + 1}
        BY <2>1, <2>3
      <3>2. runner'.place # "inPlace"
        BY <1>4, <2>3
      <3> QED BY <3>1, <3>2
    <2> QED BY <2>2, <2>3
  <1>6. /\ ~runner.busy /\ Await("start") /\ stopRequested' = FALSE /\ turn' = turn
        /\ thread = "none"
        /\ UNCHANGED <<thread, userStops, backendVars, reportVars, asked, troubles>>
    BY DEF StartThread
  <1> QED BY <1>1, <1>4, <1>5, <1>6, Dispatched

LEMMA SendFollowUpKeeps ==
  ASSUME StartInvariant, SendFollowUp
  PROVE  StartInvariant'
  <1>1. Now < MaxTurns /\ Idle(Now + 1) \in RunnerState
    BY IdleRunner DEF SendFollowUp
  <1>2. runner' = [Idle(Now + 1) EXCEPT !.busy = TRUE, !.owned = TRUE, !.shown = TRUE]
    BY DEF SendFollowUp
  <1>3. /\ runner' \in RunnerState /\ runner'.busy /\ runner'.turn = Now + 1
        /\ runner'.shown
    BY <1>1, <1>2 DEF RunnerState, Idle
  <1>4. /\ ~runner.busy /\ Await("start") /\ stopRequested' = FALSE
        /\ turn' = [turn EXCEPT ![Now + 1] = "pending"]
        /\ UNCHANGED <<thread, userStops, backendVars, reportVars, historyVars, troubles>>
    BY DEF SendFollowUp
  <1>5. hosted' = hosted /\ asked' = asked
    BY <1>4 DEF historyVars
  <1>6. UNCHANGED <<thread, userStops, backendVars, reportVars, asked, troubles>>
    BY <1>4, <1>5
  <1>7. hosted' = hosted \/ (hosted' = hosted \cup {Now + 1} /\ runner'.place # "inPlace")
    BY <1>5
  <1>8. \/ turn' = turn /\ ~runner'.shown /\ thread = "none"
        \/ turn' = [turn EXCEPT ![Now + 1] = "pending"] /\ runner'.shown
    BY <1>3, <1>4
  <1>9. ~runner.busy /\ Await("start") /\ stopRequested' = FALSE
    BY <1>4
  <1> HIDE DEF Now
  <1> QED BY <1>1, <1>3, <1>6, <1>7, <1>8, <1>9, Dispatched

-----------------------------------------------------------------------------
(* The start call on the backend's side.                                   *)

LEMMA StartCallKeeps ==
  ASSUME StartInvariant, call.op = "start",
         NEW reply \in Replies, call' = [op |-> "start", reply |-> reply],
         NEW after \in TaskState, task' = [task EXCEPT ![Now] = after],
         ~after.acknowledged,
         reply # "misnamed" => after.named,
         reply \in Definite => after.state = "none",
         pendingStops' \subseteq Turns, troubles' \in 0..MaxTroubles,
         UNCHANGED <<thread, turn, runner, stopRequested, userStops, reportVars, historyVars>>
  PROVE  StartInvariant'
  <1>1. /\ RendererOK /\ TasksOK /\ ReportsOK
        /\ AheadIsEmpty /\ UnshownHasNoThread /\ CallKnows
        /\ NoForgottenAgent /\ RetainedWhileRunning /\ RemovedIsOver
    BY DEF StartInvariant
  <1>2. runner.busy /\ Now \in Turns /\ (Now \in hosted => runner.place # "inPlace") /\ Shows(Now)
    <2>1. "start" \in Ops
      BY DEF Ops
    <2> QED BY <1>1, <2>1, Known DEF CallKnows
  <1>3. /\ Now' = Now
        /\ UNCHANGED <<hosted, asked, retained, removed, told, warned, unstopped, detached>>
    BY DEF reportVars, historyVars
  <1> HIDE DEF Now
  <1>4. task'[Now] = after /\ \A t \in Turns \ {Now} : task'[t] = task[t]
    BY <1>1, <1>2 DEF TasksOK
  <1>5. TasksOK'
    BY <1>1 DEF TasksOK
  <1>6. RendererOK' /\ ReportsOK'
    <2>1. call' \in [op : Ops, reply : Replies]
      BY DEF Ops
    <2> QED BY <1>1, <1>2, <1>3, <2>1 DEF RendererOK, ReportsOK
  <1>7. AheadIsEmpty'
    <2>1. ASSUME NEW t \in Turns, t > Now PROVE t # Now
      BY <1>2, <2>1 DEF Turns
    <2> QED BY <1>1, <1>3, <1>4, <2>1 DEF AheadIsEmpty
  <1>8. UnshownHasNoThread'
    BY <1>1, <1>3 DEF UnshownHasNoThread
  <1>9. CallKnows'
    BY <1>2, <1>3, <1>4 DEF CallKnows, Shows
  <1>10. \A t \in Turns : Unattended(t)' => Unattended(t)
    BY <1>2, <1>3, <1>4 DEF Unattended
  <1>11. NoForgottenAgent'
    BY <1>1, <1>3, <1>10 DEF NoForgottenAgent
  <1>12. RetainedWhileRunning'
    <2>1. \A t \in hosted : t \in Turns
      BY <1>1 DEF ReportsOK
    <2> QED BY <1>1, <1>3, <1>10, <2>1 DEF RetainedWhileRunning
  <1>13. RemovedIsOver'
    <2>1. \A t \in removed : t \in Turns /\ t # Now
      BY <1>1 DEF ReportsOK, RemovedIsOver
    <2> QED BY <1>1, <1>3, <1>4, <2>1 DEF RemovedIsOver
  <1> QED BY <1>5, <1>6, <1>7, <1>8, <1>9, <1>11, <1>12, <1>13 DEF StartInvariant

(* What the backend's start finds and answers.                             *)
LEMMA StartWaits ==
  ASSUME StartInvariant, Waiting("start")
  PROVE  /\ call = [op |-> "start", reply |-> "waiting"] /\ call.op = "start"
         /\ Now \in Turns /\ task \in [Turns -> TaskState]
         /\ task[Now] \in TaskState /\ task[Now].named /\ ~task[Now].acknowledged
         /\ pendingStops \subseteq Turns /\ troubles \in 0..MaxTroubles
         /\ \A reply : Answer(reply) => call' = [op |-> "start", reply |-> reply]
  <1>1. /\ call.op = "start" /\ call.reply = "waiting" /\ "start" \in Ops
        /\ RendererOK /\ CallKnows /\ TasksOK /\ ReportsOK
    BY DEF Waiting, StartInvariant, Ops
  <1>2. runner.busy /\ Now \in Turns /\ task[Now].named
    BY <1>1, Known
  <1>3. call \in [op : Ops, reply : Replies]
    BY <1>1, <1>2 DEF RendererOK
  <1>4. call = [op |-> "start", reply |-> "waiting"]
    BY <1>1, <1>3
  <1> QED BY <1>1, <1>2, <1>4 DEF TasksOK, ReportsOK, CallKnows, Answer

LEMMA NoTaskIs == NoTask \in TaskState /\ NoTask.state = "none" /\ NoTask.named /\ ~NoTask.acknowledged
  BY DEF NoTask, TaskState

LEMMA RefuseStartKeeps ==
  ASSUME StartInvariant, NEW reply \in {"rejected", "restart", "unclear"}, RefuseStart(reply)
  PROVE  StartInvariant'
  <1>1. Waiting("start") /\ task[Now].state = "none" /\ Answer(reply) /\ reply \in Replies
        /\ pendingStops' = pendingStops \ {Now}
        /\ UNCHANGED <<thread, turn, runner, stopRequested, userStops, task, reportVars,
                       historyVars, troubles>>
    BY DEF RefuseStart, Replies
  <1>2. task' = [task EXCEPT ![Now] = task[Now]]
    BY <1>1, StartWaits
  <1> QED BY <1>1, <1>2, StartWaits, StartCallKeeps

LEMMA TakeRecordedStopKeeps ==
  ASSUME StartInvariant, TakeRecordedStop
  PROVE  StartInvariant'
  <1>1. Waiting("start") /\ task[Now].state = "none" /\ Answer("rejected")
        /\ "rejected" \in Replies /\ pendingStops' = pendingStops \ {Now}
        /\ UNCHANGED <<thread, turn, runner, stopRequested, userStops, task, reportVars,
                       historyVars, troubles>>
    BY DEF TakeRecordedStop, Replies
  <1>2. task' = [task EXCEPT ![Now] = task[Now]]
    BY <1>1, StartWaits
  <1> QED BY <1>1, <1>2, StartWaits, StartCallKeeps

LEMMA PublishTaskKeeps ==
  ASSUME StartInvariant, PublishTask
  PROVE  StartInvariant'
  <1>1. Waiting("start") /\ "waiting" \in Replies /\ "waiting" \notin Definite
        /\ task' = [task EXCEPT ![Now] = [task[Now] EXCEPT !.state = "starting"]]
        /\ UNCHANGED <<rendererVars, userStops, pendingStops, reportVars, historyVars, troubles>>
    BY DEF PublishTask, Replies, Definite
  <1>2. UNCHANGED <<thread, turn, runner, call, stopRequested>>
    BY <1>1 DEF rendererVars
  <1>3. call' = [op |-> "start", reply |-> "waiting"]
    BY <1>1, <1>2, StartWaits
  <1> DEFINE after == [task[Now] EXCEPT !.state = "starting"]
  <1>4. after \in TaskState /\ after.named /\ ~after.acknowledged
    <2>1. task[Now] \in TaskState /\ task[Now].named /\ ~task[Now].acknowledged
      BY <1>1, StartWaits
    <2> QED BY <2>1 DEF TaskState
  <1> HIDE DEF after, Now
  <1>5. task' = [task EXCEPT ![Now] = after]
    BY <1>1 DEF after
  <1> QED BY <1>1, <1>2, <1>3, <1>4, <1>5, StartWaits, StartCallKeeps

LEMMA SpawnTaskKeeps ==
  ASSUME StartInvariant, SpawnTask
  PROVE  StartInvariant'
  <1>1. Waiting("start") /\ {"rejected", "unclear", "ok"} \subseteq Replies
        /\ UNCHANGED <<thread, turn, runner, stopRequested, userStops, pendingStops, reportVars,
                       historyVars, troubles>>
    BY DEF SpawnTask, Replies
  <1>2. ASSUME NEW reply \in {"rejected", "unclear"}, Answer(reply),
               task' = [task EXCEPT ![Now] = NoTask]
        PROVE  StartInvariant'
    BY <1>1, <1>2, StartWaits, NoTaskIs, StartCallKeeps
  <1>3. ASSUME Answer("ok"), task' = [task EXCEPT ![Now].state = "live"]
        PROVE  StartInvariant'
    <2> DEFINE after == [task[Now] EXCEPT !.state = "live"]
    <2>1. after \in TaskState /\ after.named /\ ~after.acknowledged
      <3>1. task[Now] \in TaskState /\ task[Now].named /\ ~task[Now].acknowledged
        BY <1>1, StartWaits
      <3> QED BY <3>1 DEF TaskState
    <2>2. "ok" \notin Definite
      BY DEF Definite
    <2> HIDE DEF after, Now
    <2>3. task' = [task EXCEPT ![Now] = after]
      BY <1>3 DEF after
    <2> QED BY <1>1, <1>3, <2>1, <2>2, <2>3, StartWaits, StartCallKeeps
  <1> QED BY <1>2, <1>3 DEF SpawnTask

LEMMA SpawnUnclearKeeps ==
  ASSUME StartInvariant, SpawnUnclear
  PROVE  StartInvariant'
  <1>1. Waiting("start") /\ {"unclear", "misnamed"} \subseteq Replies
        /\ {"unclear", "misnamed"} \cap Definite = {}
        /\ UNCHANGED <<thread, turn, runner, stopRequested, userStops, pendingStops, reportVars,
                       historyVars>>
    BY DEF SpawnUnclear, Replies, Definite
  <1>2. troubles' \in 0..MaxTroubles
    BY <1>1, StartWaits, TurnStartAssumption DEF SpawnUnclear, Trouble
  <1>3. ASSUME Answer("unclear"), task' = [task EXCEPT ![Now].state = "live"]
        PROVE  StartInvariant'
    <2> DEFINE after == [task[Now] EXCEPT !.state = "live"]
    <2>1. after \in TaskState /\ after.named /\ ~after.acknowledged
      <3>1. task[Now] \in TaskState /\ task[Now].named /\ ~task[Now].acknowledged
        BY <1>1, StartWaits
      <3> QED BY <3>1 DEF TaskState
    <2> HIDE DEF after, Now
    <2>2. task' = [task EXCEPT ![Now] = after]
      BY <1>3 DEF after
    <2> QED BY <1>1, <1>2, <1>3, <2>1, <2>2, StartWaits, StartCallKeeps
  <1>4. ASSUME Answer("misnamed"),
               task' = [task EXCEPT ![Now].state = "live", ![Now].named = FALSE]
        PROVE  StartInvariant'
    <2> DEFINE after == [task[Now] EXCEPT !.state = "live", !.named = FALSE]
    <2>1. after \in TaskState /\ ~after.acknowledged
      BY <1>1, StartWaits DEF TaskState
    <2>2. task' = [task EXCEPT ![Now] = after]
      BY <1>1, <1>4, StartWaits
    <2> HIDE DEF after, Now
    <2> QED BY <1>1, <1>2, <1>4, <2>1, <2>2, StartWaits, StartCallKeeps
  <1> QED BY <1>3, <1>4 DEF SpawnUnclear

-----------------------------------------------------------------------------
(* Everything else that happens while the runner waits or is gone.         *)

(* What no step but the start call and the acknowledgement exceeds.        *)
GoesOn(t) ==
    /\ task[t].state = "none" => task'[t].state = "none"
    /\ task'[t].state = "live" => task[t].state = "live"
    /\ task'[t].named = task[t].named
    /\ Alive(t)' => Alive(t)

LEMMA OnwardKeeps ==
  ASSUME StartInvariant, RendererOK', TasksOK', ReportsOK',
         thread' = thread \/ (thread = "open" /\ thread' # "gone"),
         UNCHANGED <<turn, hosted, retained>>,
         UNCHANGED <<runner.turn, runner.busy, runner.place, runner.shown, call.op>>,
         told \subseteq told', unstopped \subseteq unstopped',
         \A t \in Turns : GoesOn(t) /\ (t > Now => task'[t] = task[t]),
         \A t \in Turns :
            task'[t].acknowledged => task[t].acknowledged \/ call.op \in AcknowledgeCalls,
         call'.reply = call.reply \/ call.op # "start",
         call.op \in {"abandon", "halt"} /\ call'.reply = "ok" =>
            call.reply = "ok" \/ ~Alive(Now)',
         removed' = removed \/ (call.op = "remove" /\ removed' = removed \cup {Now})
  PROVE  StartInvariant'
  <1>1. /\ RendererOK /\ TasksOK /\ ReportsOK
        /\ AheadIsEmpty /\ UnshownHasNoThread /\ CallKnows
        /\ NoForgottenAgent /\ RetainedWhileRunning /\ RemovedIsOver
    BY DEF StartInvariant
  <1>2. Now' = Now /\ (call.op # "none" => runner.busy /\ Now \in Turns)
    BY <1>1 DEF RendererOK, NoCall
  <1>3. \A t \in Turns :
           /\ task[t].state = "none" => task'[t].state = "none"
           /\ task'[t].state = "live" => task[t].state = "live"
           /\ task'[t].named = task[t].named
           /\ Alive(t)' => Alive(t)
    BY DEF GoesOn
  <1> HIDE DEF Now
  <1>4. AheadIsEmpty'
    <2>1. ASSUME NEW t \in Turns, t > Now, call.op = "remove" PROVE t # Now
      BY <1>2, <2>1 DEF Turns
    <2> QED BY <1>1, <1>2, <2>1 DEF AheadIsEmpty
  <1>5. UnshownHasNoThread'
    BY <1>1, <1>2 DEF UnshownHasNoThread
  <1>6. CallKnows'
    <2>1. runner.busy => Now \in Turns
      BY <1>1 DEF RendererOK, Now
    <2>2. Shows(Now)' <=> Shows(Now)
      BY <1>2 DEF Shows
    <2>3. /\ call'.op = "start" /\ call'.reply \in Definite => task'[Now].state = "none"
          /\ call'.op = "remove" => task'[Now].state = "none"
      BY <1>1, <1>2, <1>3 DEF CallKnows
    <2>4. runner.busy /\ call'.op # "stopMisnamed"
          /\ (call'.op = "start" => call'.reply # "misnamed") => task'[Now].named
      BY <1>1, <1>2, <1>3, <2>1 DEF CallKnows
    <2>5. call'.op \in {"start", "stopMisnamed"} => Shows(Now)' /\ ~task'[Now].acknowledged
      BY <1>1, <1>2, <2>2 DEF CallKnows, AcknowledgeCalls
    <2>6. call'.op = "acknowledge" => runner.shown /\ (Shows(Now)' \/ task'[Now].state # "live")
      BY <1>1, <1>2, <1>3, <2>2 DEF CallKnows
    <2>7. call'.op \in {"abandon", "halt"} /\ call'.reply = "ok" => ~Alive(Now)'
      BY <1>1, <1>2, <1>3 DEF CallKnows
    <2>8. call'.op = "attach" => ~Alive(Now)'
      BY <1>1, <1>2, <1>3 DEF CallKnows
    <2>9. runner.busy /\ Now \in hosted => runner.place # "inPlace"
      BY <1>1 DEF CallKnows
    <2> QED BY <1>2, <2>3, <2>4, <2>5, <2>6, <2>7, <2>8, <2>9 DEF CallKnows
  <1>7. \A t \in Turns : Unattended(t)' => Unattended(t)
    BY <1>2, <1>3 DEF Unattended, Alive
  <1>8. NoForgottenAgent'
    BY <1>1, <1>7 DEF NoForgottenAgent
  <1>9. RetainedWhileRunning'
    <2>1. \A t \in hosted : t \in Turns
      BY <1>1 DEF ReportsOK
    <2>2. thread' # "gone" => thread # "gone"
      OBVIOUS
    <2> QED BY <1>1, <1>7, <2>1, <2>2 DEF RetainedWhileRunning
  <1>10. RemovedIsOver'
    <2> SUFFICES ASSUME NEW t \in removed'
                 PROVE  /\ t <= Now /\ task'[t].state = "none"
                        /\ t = Now => call.op # "start"
      BY <1>2 DEF RemovedIsOver
    <2>1. CASE t \in removed
      <3>1. t \in Turns
        BY <1>1, <2>1 DEF ReportsOK
      <3> QED BY <1>1, <1>3, <2>1, <3>1 DEF RemovedIsOver
    <2>2. CASE t \notin removed
      <3>1. t = Now /\ call.op = "remove"
        BY <2>2
      <3>2. Now \in Turns /\ Now <= Now
        BY <1>2, <3>1 DEF Turns
      <3> QED BY <1>1, <1>3, <3>1, <3>2 DEF CallKnows
    <2> QED BY <2>1, <2>2
  <1> QED BY <1>4, <1>5, <1>6, <1>8, <1>9, <1>10 DEF StartInvariant

(* A stop only marks the task it reaches.                                  *)
LEMMA StopOnlyMarks ==
  ASSUME TasksOK, ReportsOK, AheadIsEmpty, NEW t \in Turns, Stop(t) \/ UNCHANGED backendVars
  PROVE  /\ TasksOK' /\ pendingStops' \subseteq Turns
         /\ \A x \in Turns : /\ GoesOn(x) /\ (x > Now => task'[x] = task[x])
                             /\ task'[x].acknowledged = task[x].acknowledged
         /\ Stop(t) /\ task[t].named => ~Alive(t)'
  <1>1. CASE task' = task /\ pendingStops' \subseteq Turns
               /\ (Stop(t) /\ task[t].named => task[t].state \in {"none", "dead"})
    BY <1>1 DEF TasksOK, GoesOn, Alive
  <1>2. CASE /\ task' = [task EXCEPT ![t].stopAsked = TRUE] /\ task[t].state # "none"
             /\ pendingStops' = pendingStops
    <2>1. task[t] \in TaskState
      BY DEF TasksOK
    <2>2. /\ task'[t] = [task[t] EXCEPT !.stopAsked = TRUE]
          /\ \A x \in Turns \ {t} : task'[x] = task[x]
      BY <1>2 DEF TasksOK
    <2>3. /\ task'[t] \in TaskState /\ task'[t].stopAsked
          /\ task'[t].state = task[t].state /\ task'[t].named = task[t].named
          /\ task'[t].acknowledged = task[t].acknowledged
      BY <2>1, <2>2 DEF TaskState
    <2>4. TasksOK'
      BY <1>2, <2>3 DEF TasksOK
    <2>5. ~(t > Now)
      BY <1>2 DEF AheadIsEmpty, NoTask
    <2> QED BY <1>2, <2>2, <2>3, <2>4, <2>5 DEF GoesOn, Alive, ReportsOK
  <1>3. CASE UNCHANGED backendVars /\ ~Stop(t)
    BY <1>1, <1>3 DEF backendVars, ReportsOK
  <1>4. CASE Stop(t)
    BY <1>1, <1>2, <1>4 DEF Stop, ReportsOK
  <1> QED BY <1>3, <1>4

(* The state of a waiting call, and of its answer.                         *)
LEMMA Answered ==
  ASSUME StartInvariant, NEW op \in Ops, Waiting(op), NEW reply \in Replies, Answer(reply)
  PROVE  /\ call' = [op |-> op, reply |-> reply] /\ call'.op = call.op /\ call.op = op
         /\ call'.reply = reply /\ call' \in [op : Ops, reply : Replies]
         /\ runner.busy /\ Now \in Turns
  <1>1. call.op = op /\ runner.busy /\ Now \in Turns /\ RendererOK
    BY Known DEF Waiting
  <1>2. call \in [op : Ops, reply : Replies]
    BY <1>1 DEF RendererOK
  <1>3. call' = [op |-> op, reply |-> reply]
    BY <1>1, <1>2 DEF Answer
  <1> QED BY <1>1, <1>3

LEMMA StopAnswered ==
  ASSUME StartInvariant, call.op \in StopCalls, call.reply = "waiting",
         NEW reply \in {"ok", "error"}, Answer(reply),
         Stop(Now) \/ (UNCHANGED backendVars /\ reply = "error"),
         troubles' \in 0..MaxTroubles,
         UNCHANGED <<thread, turn, runner, stopRequested, userStops, reportVars, historyVars>>
  PROVE  StartInvariant'
  <1>1. /\ RendererOK /\ TasksOK /\ ReportsOK /\ AheadIsEmpty /\ CallKnows
    BY DEF StartInvariant
  <1>2. call.op \in Ops /\ Waiting(call.op) /\ reply \in Replies /\ call.op # "start"
        /\ call.op # "remove"
    BY DEF StopCalls, Ops, Waiting, Replies
  <1>3. /\ call'.op = call.op /\ call'.reply = reply /\ call' \in [op : Ops, reply : Replies]
        /\ runner.busy /\ Now \in Turns
    BY <1>2, Answered
  <1>4. /\ TasksOK' /\ pendingStops' \subseteq Turns
        /\ \A x \in Turns : /\ GoesOn(x) /\ (x > Now => task'[x] = task[x])
                            /\ task'[x].acknowledged = task[x].acknowledged
        /\ Stop(Now) /\ task[Now].named => ~Alive(Now)'
    <2>1. Stop(Now) \/ UNCHANGED backendVars
      OBVIOUS
    <2>2. Now' = Now
      OBVIOUS
    <2> HIDE DEF Now
    <2>3. (Alive(Now))' <=> task'[Now].state = "live" /\ ~task'[Now].stopAsked
      BY <2>2 DEF Alive
    <2> QED BY <1>1, <1>3, <2>1, <2>3, StopOnlyMarks DEF Alive
  <1>5. call.op \in {"abandon", "halt"} /\ call'.reply = "ok" => ~Alive(Now)'
    <2>1. call.op \in {"abandon", "halt"} => task[Now].named
      BY <1>1, <1>3 DEF CallKnows
    <2> QED BY <1>3, <1>4, <2>1
  <1>6. /\ UNCHANGED <<hosted, asked, retained, removed, told, warned, unstopped, detached>>
        /\ UNCHANGED <<runner.turn, runner.busy, runner.place, runner.shown, call.op>>
    BY <1>3 DEF reportVars, historyVars
  <1>7. RendererOK' /\ ReportsOK'
    BY <1>1, <1>3, <1>4, <1>6 DEF RendererOK, ReportsOK
  <1> QED BY <1>2, <1>4, <1>5, <1>6, <1>7, OnwardKeeps

LEMMA TroubleIs ==
  ASSUME ReportsOK, Trouble
  PROVE  troubles' \in 0..MaxTroubles
  BY TurnStartAssumption DEF Trouble, ReportsOK

LEMMA AnswerStopKeeps ==
  ASSUME StartInvariant, AnswerStop
  PROVE  StartInvariant'
  <1>1. /\ call.op \in StopCalls /\ call.reply = "waiting"
        /\ Stop(Now) /\ Answer("ok")
        /\ UNCHANGED <<thread, turn, runner, stopRequested, userStops, reportVars, historyVars,
                       troubles>>
    BY DEF AnswerStop
  <1>2. troubles' \in 0..MaxTroubles
    BY <1>1 DEF StartInvariant, ReportsOK
  <1> QED BY <1>1, <1>2, StopAnswered

LEMMA LoseStopKeeps ==
  ASSUME StartInvariant, LoseStop
  PROVE  StartInvariant'
  <1>1. /\ call.op \in StopCalls /\ call.reply = "waiting"
        /\ Stop(Now) \/ UNCHANGED backendVars
        /\ Answer("error")
        /\ UNCHANGED <<thread, turn, runner, stopRequested, userStops, reportVars, historyVars>>
    BY DEF LoseStop
  <1>2. troubles' \in 0..MaxTroubles
    BY TroubleIs DEF StartInvariant, LoseStop
  <1> QED BY <1>1, <1>2, StopAnswered

(* An acknowledgement only marks the task as acknowledged.                 *)
LEMMA AcknowledgeAnswered ==
  ASSUME StartInvariant, call.op \in AcknowledgeCalls, call.reply = "waiting",
         NEW reply \in {"ok", "error"}, Answer(reply),
         task' = task \/ task' = [task EXCEPT ![Now].acknowledged = TRUE],
         troubles' \in 0..MaxTroubles,
         UNCHANGED <<thread, turn, runner, stopRequested, userStops, pendingStops, reportVars,
                     historyVars>>
  PROVE  StartInvariant'
  <1>1. /\ RendererOK /\ TasksOK /\ ReportsOK /\ AheadIsEmpty /\ CallKnows
    BY DEF StartInvariant
  <1>2. /\ call.op \in Ops /\ Waiting(call.op) /\ reply \in Replies
        /\ call.op \notin {"start", "remove", "abandon", "halt"}
    BY DEF AcknowledgeCalls, Ops, Waiting, Replies
  <1>3. /\ call'.op = call.op /\ call' \in [op : Ops, reply : Replies]
        /\ runner.busy /\ Now \in Turns
    BY <1>2, Answered
  <1>4. task[Now] \in TaskState
    BY <1>1, <1>3 DEF TasksOK
  <1>5. /\ task'[Now] \in TaskState
        /\ task'[Now].state = task[Now].state /\ task'[Now].named = task[Now].named
        /\ task'[Now].stopAsked = task[Now].stopAsked
        /\ \A x \in Turns \ {Now} : task'[x] = task[x]
    <2>1. CASE task' = task
      BY <1>4, <2>1
    <2>2. CASE task' = [task EXCEPT ![Now].acknowledged = TRUE]
      <3>1. /\ task'[Now] = [task[Now] EXCEPT !.acknowledged = TRUE]
            /\ \A x \in Turns \ {Now} : task'[x] = task[x]
        BY <1>1, <1>3, <2>2 DEF TasksOK
      <3> QED BY <1>4, <3>1 DEF TaskState
    <2> QED BY <2>1, <2>2
  <1>6. TasksOK'
    <2>1. CASE task' = task
      BY <1>1, <2>1 DEF TasksOK
    <2>2. CASE task' = [task EXCEPT ![Now].acknowledged = TRUE]
      BY <1>1, <1>5, <2>2 DEF TasksOK
    <2> QED BY <2>1, <2>2
  <1>7. \A x \in Turns : GoesOn(x) /\ (x > Now => task'[x] = task[x])
    <2>1. \A x \in Turns : x > Now => x # Now
      BY <1>3 DEF Turns
    <2> QED BY <1>5, <2>1 DEF GoesOn, Alive
  <1>8. /\ UNCHANGED <<hosted, asked, retained, removed, told, warned, unstopped, detached>>
        /\ UNCHANGED <<runner.turn, runner.busy, runner.place, runner.shown, call.op>>
    BY <1>3 DEF reportVars, historyVars
  <1>9. RendererOK' /\ ReportsOK'
    BY <1>1, <1>3, <1>8 DEF RendererOK, ReportsOK
  <1> QED BY <1>2, <1>6, <1>7, <1>8, <1>9, OnwardKeeps

LEMMA AnswerAcknowledgeKeeps ==
  ASSUME StartInvariant, AnswerAcknowledge
  PROVE  StartInvariant'
  <1>1. /\ call.op \in AcknowledgeCalls /\ call.reply = "waiting"
        /\ UNCHANGED <<thread, turn, runner, stopRequested, userStops, pendingStops, reportVars,
                       historyVars, troubles>>
        /\ \E reply \in {"ok", "error"} : Answer(reply)
        /\ task' = task \/ task' = [task EXCEPT ![Now].acknowledged = TRUE]
    BY DEF AnswerAcknowledge
  <1>2. troubles' \in 0..MaxTroubles
    BY <1>1 DEF StartInvariant, ReportsOK
  <1> QED BY <1>1, <1>2, AcknowledgeAnswered

LEMMA LoseAcknowledgeKeeps ==
  ASSUME StartInvariant, LoseAcknowledge
  PROVE  StartInvariant'
  <1>1. /\ call.op \in AcknowledgeCalls /\ call.reply = "waiting"
        /\ UNCHANGED <<thread, turn, runner, stopRequested, userStops, pendingStops, reportVars,
                       historyVars>>
        /\ Answer("error")
        /\ task' = task \/ task' = [task EXCEPT ![Now].acknowledged = TRUE]
    BY DEF LoseAcknowledge
  <1>2. troubles' \in 0..MaxTroubles
    BY TroubleIs DEF StartInvariant, LoseAcknowledge
  <1> QED BY <1>1, <1>2, AcknowledgeAnswered

LEMMA RemoveWorktreeKeeps ==
  ASSUME StartInvariant, RemoveWorktree
  PROVE  StartInvariant'
  <1>1. /\ RendererOK /\ TasksOK /\ ReportsOK
    BY DEF StartInvariant
  <1>2. /\ Waiting("remove") /\ "remove" \in Ops
        /\ \E reply \in {"ok", "error"} : reply \in Replies /\ Answer(reply)
        /\ removed' = removed \/ removed' = removed \cup {Now}
        /\ UNCHANGED <<thread, turn, runner, stopRequested, userStops, backendVars, retained, told,
                       warned, unstopped, detached, historyVars, troubles>>
    BY DEF RemoveWorktree, Ops, Replies
  <1>3. /\ call'.op = call.op /\ call.op = "remove" /\ call' \in [op : Ops, reply : Replies]
        /\ runner.busy /\ Now \in Turns
    BY <1>2, Answered
  <1>4. /\ UNCHANGED <<task, pendingStops, hosted, asked>>
        /\ UNCHANGED <<runner.turn, runner.busy, runner.place, runner.shown, call.op>>
    BY <1>2, <1>3 DEF backendVars, historyVars
  <1>5. \A t \in Turns : GoesOn(t) /\ (t > Now => task'[t] = task[t])
    BY <1>4 DEF GoesOn, Alive
  <1>6. RendererOK' /\ TasksOK' /\ ReportsOK'
    BY <1>1, <1>2, <1>3, <1>4 DEF RendererOK, TasksOK, ReportsOK
  <1> QED BY <1>2, <1>3, <1>4, <1>5, <1>6, OnwardKeeps

LEMMA TaskEndsKeeps ==
  ASSUME StartInvariant, NEW t \in Turns, TaskEnds(t)
  PROVE  StartInvariant'
  <1>1. /\ RendererOK /\ TasksOK /\ ReportsOK /\ AheadIsEmpty
    BY DEF StartInvariant
  <1>2. /\ task[t].state = "live" /\ task' = [task EXCEPT ![t].state = "dead"]
        /\ UNCHANGED <<rendererVars, userStops, pendingStops, reportVars, historyVars, troubles>>
    BY DEF TaskEnds
  <1>3. UNCHANGED <<thread, turn, runner, call, stopRequested, hosted, asked, retained, removed,
                    told, warned, unstopped, detached>>
    BY <1>2 DEF rendererVars, reportVars, historyVars
  <1>4. task[t] \in TaskState
    BY <1>1 DEF TasksOK
  <1>5. /\ task'[t] = [task[t] EXCEPT !.state = "dead"]
        /\ \A x \in Turns \ {t} : task'[x] = task[x]
    BY <1>1, <1>2 DEF TasksOK
  <1>6. /\ task'[t] \in TaskState /\ task'[t].state = "dead"
        /\ task'[t].named = task[t].named /\ task'[t].acknowledged = task[t].acknowledged
    BY <1>4, <1>5 DEF TaskState
  <1>7. TasksOK'
    BY <1>1, <1>2, <1>6 DEF TasksOK
  <1>8. ~(t > Now)
    BY <1>1, <1>2 DEF AheadIsEmpty, NoTask
  <1>9. \A x \in Turns : GoesOn(x) /\ (x > Now => task'[x] = task[x])
    BY <1>2, <1>5, <1>6, <1>8 DEF GoesOn, Alive
  <1>10. RendererOK' /\ ReportsOK'
    BY <1>1, <1>2, <1>3 DEF RendererOK, ReportsOK
  <1>11. UNCHANGED <<runner.turn, runner.busy, runner.place, runner.shown, call.op>>
    BY <1>3
  <1>12. \A x \in Turns : task'[x].acknowledged => task[x].acknowledged
    BY <1>5, <1>6
  <1>13. call.op \in {"abandon", "halt"} /\ call'.reply = "ok" => call.reply = "ok"
    BY <1>3
  <1> QED BY <1>3, <1>7, <1>9, <1>10, <1>11, <1>12, <1>13, OnwardKeeps

(* The status events of an acknowledged task: they settle a turn of which  *)
(* the runner expects nothing more.                                        *)
LEMMA Reported ==
  ASSUME StartInvariant, NEW t \in Turns, task[t].acknowledged,
         NEW status \in Running \cup Terminal,
         turn' = [turn EXCEPT ![t] = status], turn[t] \in Running,
         status \in Running \/ task[t].state = "dead",
         TasksOK', \A x \in Turns : GoesOn(x) /\ (x > Now => task'[x] = task[x])
                                    /\ task'[x].acknowledged = task[x].acknowledged,
         UNCHANGED <<thread, runner, call, stopRequested, userStops, pendingStops, reportVars,
                     historyVars, troubles>>
  PROVE  StartInvariant'
  <1>1. /\ RendererOK /\ TasksOK /\ ReportsOK
        /\ AheadIsEmpty /\ UnshownHasNoThread /\ CallKnows
        /\ NoForgottenAgent /\ RetainedWhileRunning /\ RemovedIsOver
    BY DEF StartInvariant
  <1>2. /\ Now' = Now /\ call'.op = call.op
        /\ UNCHANGED <<hosted, asked, retained, removed, told, warned, unstopped, detached>>
    BY DEF reportVars, historyVars
  <1>3. runner.busy => Now \in Turns
    BY <1>1 DEF RendererOK
  <1>4. call.op # "none" => runner.busy
    BY <1>1 DEF RendererOK, NoCall
  <1> HIDE DEF Now
  <1>5. /\ turn' \in [Turns -> Statuses] /\ turn'[t] = status
        /\ \A x \in Turns \ {t} : turn'[x] = turn[x]
    BY <1>1 DEF RendererOK, Statuses
  <1>6. \A x \in Turns :
           /\ task[x].state = "none" => task'[x].state = "none"
           /\ task'[x].state = "live" => task[x].state = "live"
           /\ task'[x].named = task[x].named
           /\ Alive(x)' => Alive(x)
    BY DEF GoesOn
  <1>7. RendererOK' /\ ReportsOK'
    BY <1>1, <1>2, <1>5 DEF RendererOK, ReportsOK, Now
  <1>8. AheadIsEmpty'
    <2>1. ~(t > Now)
      BY <1>1 DEF AheadIsEmpty, NoTask
    <2> QED BY <1>1, <1>2, <1>5, <2>1 DEF AheadIsEmpty
  <1>9. UnshownHasNoThread'
    <2>1. runner.busy /\ ~runner.shown => Now \in Turns /\ Now # t
      BY <1>1, <1>3 DEF UnshownHasNoThread, Running
    <2> QED BY <1>1, <1>2, <1>5, <2>1 DEF UnshownHasNoThread
  <1>10. CallKnows'
    <2>1. call.op \in {"start", "stopMisnamed"} =>
             /\ Now # t /\ Now \in Turns /\ Shows(Now)' /\ ~task'[Now].acknowledged
      BY <1>1, <1>2, <1>3, <1>4, <1>5 DEF CallKnows, Shows
    <2>2. call.op = "acknowledge" =>
             runner.shown /\ (Shows(Now)' \/ task'[Now].state # "live")
      <3>1. CASE Now = t
        <4>1. status \in Running => Shows(Now)'
          BY <1>2, <1>5, <3>1 DEF Shows
        <4> QED BY <1>1, <1>6, <3>1, <4>1 DEF CallKnows
      <3>2. CASE Now # t
        BY <1>1, <1>2, <1>3, <1>4, <1>5, <1>6, <3>2 DEF CallKnows, Shows
      <3> QED BY <3>1, <3>2
    <2>3. /\ call.op = "start" /\ call.reply \in Definite => task'[Now].state = "none"
          /\ call.op = "remove" => task'[Now].state = "none"
          /\ runner.busy /\ call.op # "stopMisnamed"
             /\ (call.op = "start" => call.reply # "misnamed") => task'[Now].named
      BY <1>1, <1>3, <1>4, <1>6 DEF CallKnows
    <2>4. (Alive(Now))' => Alive(Now) \/ Now \notin Turns
      <3>1. CASE Now \in Turns
        <4>1. PICK x \in Turns : x = Now
          BY <3>1
        <4>2. Alive(x)' => Alive(x)
          BY <1>6
        <4> QED BY <1>2, <4>1, <4>2 DEF Alive
      <3> QED BY <3>1
    <2>5. /\ call.op \in {"abandon", "halt"} /\ call.reply = "ok" => ~Alive(Now)'
          /\ call.op = "attach" => ~Alive(Now)'
      BY <1>1, <1>3, <1>4, <2>4 DEF CallKnows
    <2> QED BY <1>1, <1>2, <2>1, <2>2, <2>3, <2>5 DEF CallKnows
  <1>11. \A x \in Turns : Unattended(x)' => Unattended(x) /\ x # t
    <2> SUFFICES ASSUME NEW x \in Turns, Unattended(x)' PROVE Unattended(x) /\ x # t
      OBVIOUS
    <2>1. Alive(x)' /\ ~(runner.busy /\ Now = x) /\ turn'[x] \notin Running
      BY <1>2 DEF Unattended, Alive
    <2>2. Alive(x) /\ task[x].state = "live"
      BY <1>6, <2>1 DEF Alive
    <2>3. x # t
      BY <1>5, <2>1, <2>2
    <2> QED BY <1>5, <2>1, <2>2, <2>3 DEF Unattended, Alive
  <1>12. NoForgottenAgent'
    BY <1>1, <1>2, <1>5, <1>11 DEF NoForgottenAgent
  <1>13. RetainedWhileRunning'
    <2>1. \A x \in hosted : x \in Turns
      BY <1>1 DEF ReportsOK
    <2> QED BY <1>1, <1>2, <1>11, <2>1 DEF RetainedWhileRunning
  <1>14. RemovedIsOver'
    <2>1. \A x \in removed : x \in Turns
      BY <1>1 DEF ReportsOK
    <2> QED BY <1>1, <1>2, <1>6, <2>1 DEF RemovedIsOver
  <1> QED BY <1>7, <1>8, <1>9, <1>10, <1>12, <1>13, <1>14 DEF StartInvariant

LEMMA ReportRunningKeeps ==
  ASSUME StartInvariant, NEW t \in Turns, ReportRunning(t)
  PROVE  StartInvariant'
  <1>1. /\ task[t].acknowledged /\ turn[t] = "pending" /\ turn' = [turn EXCEPT ![t] = "running"]
        /\ UNCHANGED <<thread, runner, call, stopRequested, userStops, backendVars, reportVars,
                       historyVars, troubles>>
    BY DEF ReportRunning
  <1>2. UNCHANGED <<task, pendingStops>> /\ TasksOK
    BY <1>1 DEF backendVars, StartInvariant
  <1>3. TasksOK' /\ \A x \in Turns : GoesOn(x) /\ (x > Now => task'[x] = task[x])
                                     /\ task'[x].acknowledged = task[x].acknowledged
    BY <1>2 DEF TasksOK, GoesOn, Alive
  <1>4. turn[t] \in Running /\ "running" \in Running
    BY <1>1 DEF Running
  <1> QED BY <1>1, <1>2, <1>3, <1>4, Reported

LEMMA ReportEndKeeps ==
  ASSUME StartInvariant, NEW t \in Turns, ReportEnd(t)
  PROVE  StartInvariant'
  <1>1. /\ RendererOK /\ TasksOK /\ ReportsOK /\ AheadIsEmpty /\ task[t] \in TaskState
    BY DEF StartInvariant, TasksOK
  <1>2. /\ task[t].acknowledged /\ task[t].state = "dead"
        /\ task' = [task EXCEPT ![t].reported = TRUE]
        /\ UNCHANGED <<thread, runner, call, stopRequested, userStops, pendingStops, reportVars,
                       historyVars, troubles>>
        /\ \E status \in {"stopped", "exited"} : turn' = Settled(t, status)
    BY DEF ReportEnd
  <1>3. {"stopped", "exited"} \subseteq Terminal
    BY DEF Terminal
  <1>4. /\ task'[t] = [task[t] EXCEPT !.reported = TRUE]
        /\ \A x \in Turns \ {t} : task'[x] = task[x]
    BY <1>1, <1>2 DEF TasksOK
  <1>5. /\ task'[t] \in TaskState /\ task'[t].state = task[t].state
        /\ task'[t].named = task[t].named /\ task'[t].acknowledged = task[t].acknowledged
        /\ task'[t].stopAsked = task[t].stopAsked
    BY <1>1, <1>4 DEF TaskState
  <1>6. TasksOK'
    BY <1>1, <1>2, <1>5 DEF TasksOK
  <1>7. ~(t > Now)
    BY <1>1, <1>2 DEF AheadIsEmpty, NoTask
  <1>8. \A x \in Turns : GoesOn(x) /\ (x > Now => task'[x] = task[x])
                         /\ task'[x].acknowledged = task[x].acknowledged
    BY <1>4, <1>5, <1>7 DEF GoesOn, Alive
  <1>9. CASE turn[t] \in Running
    <2>1. PICK status \in {"stopped", "exited"} : turn' = Settled(t, status)
      BY <1>2
    <2>2. turn' = [turn EXCEPT ![t] = status] /\ status \in Running \cup Terminal
      BY <1>3, <1>9, <2>1 DEF Settled
    <2> QED BY <1>2, <1>6, <1>8, <1>9, <2>2, Reported
  <1>10. CASE turn[t] \notin Running
    <2>1. /\ UNCHANGED <<turn, thread, call, hosted, asked, retained, removed, told, warned,
                         unstopped, detached>>
          /\ UNCHANGED <<runner.turn, runner.busy, runner.place, runner.shown, call.op>>
      BY <1>2, <1>10 DEF Settled, reportVars, historyVars
    <2>2. RendererOK' /\ ReportsOK'
      BY <1>1, <1>2, <2>1 DEF RendererOK, ReportsOK
    <2>3. call.op \in {"abandon", "halt"} /\ call'.reply = "ok" => call.reply = "ok"
      BY <2>1
    <2> QED BY <1>6, <1>8, <2>1, <2>2, <2>3, OnwardKeeps
  <1> QED BY <1>9, <1>10

-----------------------------------------------------------------------------
(* The user and the rest of the window.                                    *)

(* A step that leaves the backend and the runner's call alone.             *)
LEMMA AsideKeeps ==
  ASSUME StartInvariant, RendererOK', ReportsOK',
         thread' = thread \/ (thread = "open" /\ thread' # "gone"),
         UNCHANGED <<turn, call, backendVars, hosted, retained, removed>>,
         UNCHANGED <<runner.turn, runner.busy, runner.place, runner.shown>>,
         told \subseteq told', unstopped \subseteq unstopped'
  PROVE  StartInvariant'
  <1>1. UNCHANGED task /\ TasksOK
    BY DEF backendVars, StartInvariant
  <1>2. TasksOK' /\ \A x \in Turns : GoesOn(x) /\ (x > Now => task'[x] = task[x])
    BY <1>1 DEF TasksOK, GoesOn, Alive
  <1>3. UNCHANGED <<runner.turn, runner.busy, runner.place, runner.shown, call.op>>
    OBVIOUS
  <1>4. call.op \in {"abandon", "halt"} /\ call'.reply = "ok" => call.reply = "ok"
    OBVIOUS
  <1> QED BY <1>1, <1>2, <1>3, <1>4, OnwardKeeps

LEMMA PressStopKeeps ==
  ASSUME StartInvariant, NEW t \in Turns, PressStop(t)
  PROVE  StartInvariant'
  <1>1. RendererOK /\ ReportsOK
    BY DEF StartInvariant
  <1>2. /\ UNCHANGED <<thread, turn, runner, call, backendVars, reportVars, hosted, troubles>>
        /\ asked' = asked \cup {t}
        /\ \E recorded \in BOOLEAN :
              /\ stopRequested' = (recorded \/ stopRequested)
              /\ userStops' = userStops \cup {[turn |-> t, recorded |-> recorded]}
    BY DEF PressStop
  <1>3. stopRequested' \in BOOLEAN
    BY <1>1, <1>2 DEF RendererOK
  <1>4. userStops' \subseteq [turn : Turns, recorded : BOOLEAN]
    BY <1>1, <1>2 DEF RendererOK
  <1>5. UNCHANGED <<pendingStops, retained, removed, told, warned, unstopped, detached>>
    BY <1>2 DEF backendVars, reportVars
  <1>6. RendererOK' /\ ReportsOK'
    BY <1>1, <1>2, <1>3, <1>4, <1>5 DEF RendererOK, ReportsOK
  <1> QED BY <1>2, <1>5, <1>6, AsideKeeps

LEMMA UserStopEnds ==
  ASSUME StartInvariant, NEW s \in userStops, Stop(s.turn) \/ UNCHANGED backendVars,
         userStops' = userStops \ {s}, warned' \subseteq warned \cup {s.turn},
         troubles' \in 0..MaxTroubles,
         UNCHANGED <<rendererVars, retained, removed, told, unstopped, detached, historyVars>>
  PROVE  StartInvariant'
  <1>1. RendererOK /\ TasksOK /\ ReportsOK /\ AheadIsEmpty
    BY DEF StartInvariant
  <1>2. s.turn \in Turns
    BY <1>1 DEF RendererOK
  <1>3. /\ TasksOK' /\ pendingStops' \subseteq Turns
        /\ \A x \in Turns : /\ GoesOn(x) /\ (x > Now => task'[x] = task[x])
                            /\ task'[x].acknowledged = task[x].acknowledged
    BY <1>1, <1>2, StopOnlyMarks
  <1>4. UNCHANGED <<thread, turn, runner, call, stopRequested, hosted, asked>>
    BY DEF rendererVars, historyVars
  <1>5. RendererOK' /\ ReportsOK'
    BY <1>1, <1>2, <1>3, <1>4 DEF RendererOK, ReportsOK
  <1>6. UNCHANGED <<runner.turn, runner.busy, runner.place, runner.shown, call.op>>
    BY <1>4
  <1>7. call.op \in {"abandon", "halt"} /\ call'.reply = "ok" => call.reply = "ok"
    BY <1>4
  <1> QED BY <1>3, <1>4, <1>5, <1>6, <1>7, OnwardKeeps

LEMMA UserStopArrivesKeeps ==
  ASSUME StartInvariant, NEW s \in userStops, UserStopArrives(s)
  PROVE  StartInvariant'
  <1>1. /\ Stop(s.turn) /\ userStops' = userStops \ {s}
        /\ UNCHANGED <<rendererVars, reportVars, historyVars, troubles>>
    BY DEF UserStopArrives
  <1>2. UNCHANGED <<retained, removed, told, warned, unstopped, detached>>
    BY <1>1 DEF reportVars
  <1>3. troubles' \in 0..MaxTroubles
    BY <1>1 DEF StartInvariant, ReportsOK
  <1> QED BY <1>1, <1>2, <1>3, UserStopEnds

LEMMA UserStopFailsKeeps ==
  ASSUME StartInvariant, NEW s \in userStops, UserStopFails(s)
  PROVE  StartInvariant'
  <1>1. /\ Stop(s.turn) \/ UNCHANGED backendVars
        /\ userStops' = userStops \ {s} /\ warned' \subseteq warned \cup {s.turn}
        /\ UNCHANGED <<rendererVars, retained, removed, told, unstopped, detached, historyVars>>
    BY DEF UserStopFails
  <1>2. troubles' \in 0..MaxTroubles
    BY TroubleIs DEF StartInvariant, UserStopFails
  <1> QED BY <1>1, <1>2, UserStopEnds

LEMMA LoseAuthorityKeeps ==
  ASSUME StartInvariant, LoseAuthority
  PROVE  StartInvariant'
  <1>1. RendererOK /\ ReportsOK /\ runner \in RunnerState
    BY DEF StartInvariant, RendererOK
  <1>2. /\ runner' = [runner EXCEPT !.owned = FALSE]
        /\ UNCHANGED <<thread, turn, call, stopRequested, userStops, backendVars, reportVars,
                       historyVars>>
    BY DEF LoseAuthority
  <1>3. troubles' \in 0..MaxTroubles
    BY <1>1, TroubleIs DEF LoseAuthority
  <1>4. UNCHANGED <<pendingStops, retained, removed, told, warned, unstopped, detached, hosted,
                    asked>>
    BY <1>2 DEF backendVars, reportVars, historyVars
  <1>5. runner' \in RunnerState
        /\ UNCHANGED <<runner.turn, runner.busy, runner.place, runner.shown>>
    BY <1>1, <1>2 DEF RunnerState
  <1>6. RendererOK' /\ ReportsOK'
    BY <1>1, <1>2, <1>3, <1>4, <1>5 DEF RendererOK, ReportsOK
  <1> QED BY <1>2, <1>4, <1>5, <1>6, AsideKeeps

LEMMA ThreadVanishesKeeps ==
  ASSUME StartInvariant, ThreadVanishes
  PROVE  StartInvariant'
  <1>1. /\ RendererOK /\ TasksOK /\ ReportsOK
        /\ AheadIsEmpty /\ UnshownHasNoThread /\ CallKnows /\ RemovedIsOver
    BY DEF StartInvariant
  <1>2. /\ thread = "open" /\ thread' = "gone" /\ turn' = [t \in Turns |-> "absent"]
        /\ UNCHANGED <<runner, call, stopRequested, userStops, backendVars, reportVars,
                       historyVars>>
    BY DEF ThreadVanishes
  <1>3. troubles' \in 0..MaxTroubles
    BY <1>1, TroubleIs DEF ThreadVanishes
  <1>4. UNCHANGED <<task, pendingStops, retained, removed, told, warned, unstopped, detached,
                    hosted, asked>>
    BY <1>2 DEF backendVars, reportVars, historyVars
  <1>5. \A t \in Turns : turn'[t] = "absent"
    BY <1>2
  <1>6. RendererOK'
    <2>1. turn' \in [Turns -> Statuses]
      BY <1>2 DEF Statuses
    <2> QED BY <1>1, <1>2, <2>1 DEF RendererOK
  <1>7. TasksOK' /\ ReportsOK'
    BY <1>1, <1>3, <1>4 DEF TasksOK, ReportsOK
  <1>8. AheadIsEmpty' /\ UnshownHasNoThread'
    BY <1>1, <1>2, <1>4, <1>5 DEF AheadIsEmpty, UnshownHasNoThread
  <1>9. call.op # "none" => runner.busy /\ Now \in Turns
    BY <1>1 DEF RendererOK, NoCall
  <1>10. CallKnows'
    BY <1>1, <1>2, <1>4, <1>5, <1>9 DEF CallKnows, Shows, Alive
  <1>11. NoForgottenAgent' /\ RetainedWhileRunning' /\ RemovedIsOver'
    BY <1>1, <1>2, <1>4, <1>5 DEF NoForgottenAgent, RetainedWhileRunning, RemovedIsOver
  <1> QED BY <1>6, <1>7, <1>8, <1>10, <1>11 DEF StartInvariant

LEMMA ArchiveThreadKeeps ==
  ASSUME StartInvariant, ArchiveThread
  PROVE  StartInvariant'
  <1>1. RendererOK /\ ReportsOK
    BY DEF StartInvariant
  <1>2. /\ thread = "open" /\ thread' = "archived"
        /\ UNCHANGED <<turn, runner, call, stopRequested, userStops, backendVars, reportVars,
                       historyVars, troubles>>
    BY DEF ArchiveThread
  <1>3. UNCHANGED <<pendingStops, retained, removed, told, warned, unstopped, detached, hosted,
                    asked>>
    BY <1>2 DEF backendVars, reportVars, historyVars
  <1>4. RendererOK' /\ ReportsOK'
    BY <1>1, <1>2, <1>3 DEF RendererOK, ReportsOK
  <1> QED BY <1>2, <1>3, <1>4, AsideKeeps

LEMMA StutteringKeeps ==
  ASSUME StartInvariant, UNCHANGED vars
  PROVE  StartInvariant'
  <1>1. /\ UNCHANGED <<thread, turn, runner, call, stopRequested, userStops, task, pendingStops>>
        /\ UNCHANGED <<retained, removed, told, warned, unstopped, detached, hosted, asked, troubles>>
    BY DEF vars, rendererVars, backendVars, reportVars, historyVars
  <1>2. RendererOK' /\ ReportsOK'
    BY <1>1 DEF StartInvariant, RendererOK, ReportsOK
  <1> QED BY <1>1, <1>2, AsideKeeps DEF backendVars

-----------------------------------------------------------------------------
(* The theorems.                                                           *)

LEMMA StartInit ==
  ASSUME Init
  PROVE  StartInvariant
  <1>1. /\ runner = Idle(0) /\ call = NoCall /\ task = [t \in Turns |-> NoTask]
        /\ turn = [t \in Turns |-> "absent"] /\ stopRequested = FALSE
        /\ thread \in {"none", "open"} /\ troubles = 0
        /\ userStops = {} /\ pendingStops = {} /\ hosted = {} /\ removed = {} /\ retained = {}
        /\ told = {} /\ warned = {} /\ unstopped = {} /\ detached = {} /\ asked = {}
    BY DEF Init
  <1>2. Idle(0) \in RunnerState /\ ~runner.busy /\ 0 \in 0..MaxTroubles
    BY <1>1, TurnStartAssumption DEF Idle, RunnerState
  <1>3. RendererOK
    BY <1>1, <1>2 DEF RendererOK, Statuses
  <1>4. TasksOK /\ ReportsOK
    BY <1>1, <1>2, NoTaskIs DEF TasksOK, ReportsOK
  <1>5. AheadIsEmpty /\ UnshownHasNoThread /\ RemovedIsOver /\ RetainedWhileRunning
    BY <1>1, <1>2 DEF AheadIsEmpty, UnshownHasNoThread, RemovedIsOver, RetainedWhileRunning
  <1>6. CallKnows
    BY <1>1, <1>2 DEF CallKnows, NoCall
  <1>7. NoForgottenAgent
    BY <1>1 DEF NoForgottenAgent
  <1> QED BY <1>3, <1>4, <1>5, <1>6, <1>7 DEF StartInvariant

(* The inductive invariant of the turn start: what every step of the runner, the backend,   *)
(* the network and the user keeps.                                                          *)
THEOREM StartInvariance == Spec => []StartInvariant
<1>1. Init => StartInvariant
  BY StartInit
<1>2. ASSUME StartInvariant, [Next]_vars
      PROVE  StartInvariant'
  <2>1. CASE Runner
    BY <2>1, <1>2, RunnerKeeps
  <2>2. CASE Backend
    BY <2>2, <1>2, RefuseStartKeeps, TakeRecordedStopKeeps, PublishTaskKeeps, SpawnTaskKeeps,
       AnswerStopKeeps, AnswerAcknowledgeKeeps, RemoveWorktreeKeeps, ReportRunningKeeps,
       ReportEndKeeps
    DEF Backend
  <2>3. CASE Obey
    BY <2>3, <1>2, TaskEndsKeeps DEF Obey
  <2>4. CASE StopButton
    BY <2>4, <1>2, UserStopArrivesKeeps DEF StopButton
  <2>5. CASE Network
    BY <2>5, <1>2, SpawnUnclearKeeps, LoseStopKeeps, LoseAcknowledgeKeeps, UserStopFailsKeeps
    DEF Network
  <2>6. CASE User
    BY <2>6, <1>2, StartThreadKeeps, SendFollowUpKeeps, PressStopKeeps, LoseAuthorityKeeps,
       ThreadVanishesKeeps, ArchiveThreadKeeps, TaskEndsKeeps
    DEF User
  <2>7. CASE UNCHANGED vars
    BY <2>7, <1>2, StutteringKeeps
  <2> QED BY <1>2, <2>1, <2>2, <2>3, <2>4, <2>5, <2>6, <2>7 DEF Next, Progress
<1> QED BY <1>1, <1>2, PTL DEF Spec

(* TypeOK: the renderer's store and runner, the backend's tasks and the reports keep their  *)
(* shape, and the runner awaits a call exactly while a start is under way.                  *)
THEOREM StartTypes == Spec => []TypeOK
<1>1. ASSUME StartInvariant PROVE TypeOK
  <2>1. RendererOK /\ TasksOK /\ ReportsOK
    BY <1>1 DEF StartInvariant
  <2>2. /\ call.op \in Ops \cup {"none"} /\ call.reply \in Replies \cup {"none"}
        /\ (call = NoCall) <=> ~runner.busy
    <3>1. CASE runner.busy
      BY <2>1, <3>1 DEF RendererOK, NoCall, Ops
    <3>2. CASE ~runner.busy
      BY <2>1, <3>2 DEF RendererOK, NoCall
    <3> QED BY <3>1, <3>2
  <2>3. \A t \in Turns : turn[t] \in Statuses
    BY <2>1 DEF RendererOK
  <2>4. runner.turn \in 0..MaxTurns /\ runner.place \in {"inPlace", "created", "reused"}
    BY <2>1 DEF RendererOK, RunnerState
  <2>5. \A t \in Turns : task[t].state \in {"none", "starting", "live", "dead"}
    BY <2>1 DEF TasksOK, TaskState
  <2>6. \A s \in userStops : s.turn \in Turns /\ s.recorded \in BOOLEAN
    BY <2>1 DEF RendererOK
  <2> QED BY <2>1, <2>2, <2>3, <2>4, <2>5, <2>6
      DEF TypeOK, RendererOK, ReportsOK, Statuses, Ops, Replies
<1> QED BY <1>1, StartInvariance, PTL

(* NoForgottenAgent: whichever await of the start runner the stop, the lost reply, the lost *)
(* owner or the vanished thread met, an agent that still runs under a turn that is over was *)
(* announced.                                                                               *)
THEOREM AgentsAreAnnounced == Spec => []NoForgottenAgent
<1>1. StartInvariant => NoForgottenAgent
  BY DEF StartInvariant
<1> QED BY <1>1, StartInvariance, PTL

(* WorktreesAreSafe: the worktree in which StartThread started an agent that may still run  *)
(* is kept while the thread has not vanished, and one that was removed again holds no agent *)
(* and will hold none.  The worktrees of follow-ups are kept by their thread's registration.*)
THEOREM WorktreesStaySafe == Spec => []WorktreesAreSafe
<1>1. ASSUME StartInvariant PROVE WorktreesAreSafe
  <2>1. RetainedWhileRunning /\ RemovedIsOver
    BY <1>1 DEF StartInvariant
  <2>2. RemovedWorktreeIsIdle
    BY <2>1 DEF RemovedIsOver, RemovedWorktreeIsIdle, Waiting
  <2> QED BY <2>1, <2>2 DEF WorktreesAreSafe
<1> QED BY <1>1, StartInvariance, PTL
=============================================================================
