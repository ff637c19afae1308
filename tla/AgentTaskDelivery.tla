-------------------------- MODULE AgentTaskDelivery --------------------------
(****************************************************************************)
(* Ordered, acknowledged delivery of an agent task's output and status      *)
(* events (src-tauri/src/agent_task_supervisor.rs, agent_task_completion.rs *)
(* and agent_task_output_delivery.rs).                                      *)
(*                                                                          *)
(* Two mutexes order everything.  `state` guards the registry entries and   *)
(* is held for one action of this module at a time.  `output_emission_      *)
(* order` is held across several: a thread takes events out of the queue    *)
(* under `state`, releases `state`, and hands the batch to the sink event   *)
(* by event while it still holds `output_emission_order`.  In between, a    *)
(* waiter may complete this or another task under `state` alone.            *)
(*                                                                          *)
(* Three kinds of thread act: the pumps and the waiter of each task, and    *)
(* the command threads that serve the renderer's acknowledgements.          *)
(****************************************************************************)
EXTENDS Naturals, FiniteSets, SequencesExt

CONSTANTS
    Tasks,         \* task ids
    AckRequired,   \* AgentTaskEventSink::requires_output_acknowledgement
    MaxQueued,     \* MAX_QUEUED_AGENT_TASK_EVENTS
    Window,        \* MAX_UNACKNOWLEDGED_AGENT_OUTPUT_EVENTS
    MaxTerminal,   \* MAX_TERMINAL_AGENT_TASK_ENTRIES
    MaxOutputs     \* bound of the model: how many chunks each task may publish

ASSUME AckRequiredAssumption == AckRequired \in BOOLEAN
ASSUME BoundsAssumption ==
    /\ MaxQueued \in Nat /\ MaxQueued >= 3
    /\ Window \in Nat \ {0}
    /\ MaxTerminal \in Nat \ {0}
    /\ MaxOutputs \in [Tasks -> Nat]

VARIABLES
    life,          \* is the task in registry.entries?
    phase,         \* AgentTaskEntry.phase
    acknowledged,  \* AgentTaskEntry.acknowledged: the renderer took the start
    flushing,      \* AgentTaskEntry.flushing
    queued,        \* AgentTaskEntry.queued
    statusSeq,     \* AgentTaskEntry.status_sequence
    outputSeq,     \* AgentTaskEntry.output_sequence
    reported,      \* AgentTaskEntry.output_incomplete_reported
    outstanding,   \* AgentTaskEntry.outstanding_output
    lastAck,       \* AgentTaskEntry.last_acknowledged_output
    terminalOrder, \* AgentTaskRegistryState.terminal_order
    waiter,        \* where the task's waiter thread stands
    expiring,      \* evicted tasks whose status the waiter still has to emit
    order,         \* who holds output_emission_order, and its batch
    emitted        \* per task, the events handed to the sink so far

entryVars == <<life, phase, acknowledged, flushing, queued, statusSeq,
               outputSeq, reported, outstanding, lastAck>>
vars == <<entryVars, terminalOrder, waiter, expiring, order, emitted>>

----------------------------------------------------------------------------
(* Events.  "marker" is the empty, truncated output chunk; "lost" is the    *)
(* Failed status that replaces a terminal status which cannot be delivered. *)

OutputKinds == {"output", "marker"}
FinalKinds == {"terminal", "lost"}
Event == [kind : OutputKinds \cup FinalKinds \cup {"running"}, seq : Nat]

IsOutput(e) == e.kind \in OutputKinds

(* Threads that hold output_emission_order, and what they do next:          *)
(* "emit" the rest of the batch, or "drain" the queue once more.            *)
Holders == {"none", "pump", "ack", "ackOutput", "waiter", "overdue"}
OrderState == [by : Holders, task : Tasks, stage : {"emit", "drain"},
               batch : Seq(Event)]

OrderFree == order.by = "none"
Release == order' = [order EXCEPT !.by = "none", !.stage = "emit"]

----------------------------------------------------------------------------
(* The pending ring: at its limit the oldest queued output makes room; a    *)
(* status is never dropped.                                                 *)
push_queued_newest_first(q, e) ==                                      \* mutant
    LET r == IF Len(q) >= MaxQueued THEN RemoveFirstMatch(q, IsOutput) ELSE q
    IN IF IsOutput(e) THEN <<e>> \o r ELSE Append(r, e)

push_queued(q, e) ==
    Append(IF Len(q) >= MaxQueued THEN RemoveFirstMatch(q, IsOutput) ELSE q, e)

(* take_ready_events pops events from the front until one has to wait: an   *)
(* output for a free place in the window, a final status for every          *)
(* outstanding output to be acknowledged.  Taken(q, n) are the sequence     *)
(* numbers of the outputs among the first n events.                         *)
Taken(q, n) == {q[i].seq : i \in {j \in 1..n : IsOutput(q[j])}}

MayPop(e, out) ==
    AckRequired =>
        /\ IsOutput(e) => Cardinality(out) < Window
        /\ e.kind \in FinalKinds => out = {}

ReadyCount(q, out, n) ==
    /\ \A i \in 1..n : MayPop(q[i], out \cup Taken(q, i - 1))
    /\ n < Len(q) => ~MayPop(q[n + 1], out \cup Taken(q, n))

(* The holder takes the n ready events of q, the new queue of task t.       *)
take_ready_events(t, q, n) ==
    /\ ReadyCount(q, outstanding[t], n)
    /\ queued' = [queued EXCEPT ![t] = SubSeq(q, n + 1, Len(q))]
    /\ outstanding' =
          [outstanding EXCEPT ![t] =
              IF AckRequired THEN @ \cup Taken(q, n) ELSE @]

(* terminal_order.retain, wherever an entry is removed: record_terminal_    *)
(* entry keeps every id at most once.                                       *)
Retained(t) == RemoveFirst(terminalOrder, t)

----------------------------------------------------------------------------
Init ==
    /\ life = [t \in Tasks |-> "unstarted"]
    /\ phase = [t \in Tasks |-> "Pending"]
    /\ acknowledged = [t \in Tasks |-> FALSE]
    /\ flushing = [t \in Tasks |-> FALSE]
    /\ queued = [t \in Tasks |-> <<>>]
    /\ statusSeq = [t \in Tasks |-> 0]
    /\ outputSeq = [t \in Tasks |-> 0]
    /\ reported = [t \in Tasks |-> FALSE]
    /\ outstanding = [t \in Tasks |-> {}]
    /\ lastAck = [t \in Tasks |-> 0]
    /\ terminalOrder = <<>>
    /\ waiter = [t \in Tasks |-> "none"]
    /\ expiring = [t \in Tasks |-> {}]
    /\ order \in [by : {"none"}, task : Tasks, stage : {"emit"}, batch : {<<>>}]
    /\ emitted = [t \in Tasks |-> <<>>]

----------------------------------------------------------------------------
(* start registers the entry; the waiter thread runs once the start commits *)
start(t) ==
    /\ life[t] = "unstarted"
    /\ life' = [life EXCEPT ![t] = "live"]
    /\ waiter' = [waiter EXCEPT ![t] = "starting"]
    /\ UNCHANGED <<phase, acknowledged, flushing, queued, statusSeq, outputSeq,
                   reported, outstanding, lastAck, terminalOrder, expiring,
                   order, emitted>>

commit_start(t) ==
    /\ waiter[t] = "starting"
    /\ waiter' = [waiter EXCEPT ![t] = "running"]
    /\ UNCHANGED <<entryVars, terminalOrder, expiring, order, emitted>>

(* A start that fails after registration: UnpublishedAgentTask::drop. *)
abandon_start(t) ==
    /\ waiter[t] = "starting"
    /\ life' = [life EXCEPT ![t] = "removed"]
    /\ waiter' = [waiter EXCEPT ![t] = "done"]
    /\ terminalOrder' = Retained(t)
    /\ UNCHANGED <<phase, acknowledged, flushing, queued, statusSeq, outputSeq,
                   reported, outstanding, lastAck, expiring, order, emitted>>

(* publish_output_chunk and publish_output_incomplete_marker: the pumps, or *)
(* the waiter while it settles them, queue one output event and, unless an  *)
(* acknowledgement flush is under way, take what is ready.                  *)
publish(t, kind) ==
    /\ OrderFree
    /\ waiter[t] \in {"starting", "running"}
    /\ life[t] = "live"
    /\ phase[t] # "Terminal"
    /\ kind = "marker" => ~reported[t]
    /\ outputSeq[t] < MaxOutputs[t]
    /\ outputSeq' = [outputSeq EXCEPT ![t] = @ + 1]
    /\ reported' = [reported EXCEPT ![t] = @ \/ kind = "marker"]
    /\ LET q == push_queued(queued[t], [kind |-> kind, seq |-> outputSeq[t] + 1])
       IN IF acknowledged[t] /\ ~flushing[t]
          THEN \E n \in 0..Len(q) :
                  /\ take_ready_events(t, q, n)
                  /\ order' = [by |-> "pump", task |-> t, stage |-> "emit",
                               batch |-> SubSeq(q, 1, n)]
          ELSE /\ queued' = [queued EXCEPT ![t] = q]
               /\ UNCHANGED <<outstanding, order>>
    /\ UNCHANGED <<life, phase, acknowledged, flushing, statusSeq, lastAck,
                   terminalOrder, waiter, expiring, emitted>>

(* begin_acknowledgement: the renderer acknowledges the start.  The Running *)
(* status joins the end of the queue, past the bound of the ring.           *)
acknowledge(t) ==
    /\ OrderFree
    /\ life[t] = "live"
    /\ ~acknowledged[t]
    /\ acknowledged' = [acknowledged EXCEPT ![t] = TRUE]
    /\ flushing' = [flushing EXCEPT ![t] = TRUE]
    /\ LET pending == phase[t] = "Pending"
           running == [kind |-> "running", seq |-> statusSeq[t] + 1]
           q == IF pending THEN Append(queued[t], running) ELSE queued[t]
       IN /\ phase' = [phase EXCEPT ![t] = IF pending THEN "Running" ELSE @]
          /\ statusSeq' = [statusSeq EXCEPT ![t] = IF pending THEN @ + 1 ELSE @]
          /\ \E n \in 0..Len(q) :
                /\ take_ready_events(t, q, n)
                /\ order' = [by |-> "ack", task |-> t, stage |-> "emit",
                             batch |-> SubSeq(q, 1, n)]
    /\ UNCHANGED <<life, outputSeq, reported, lastAck, terminalOrder, waiter,
                   expiring, emitted>>

(* acknowledge_output_for_workspace: cumulative.  A repeated, stale or      *)
(* unknown sequence number changes nothing.                                 *)
Acknowledgeable_unchecked(t, s) == s > lastAck[t]                      \* mutant
Acknowledgeable(t, s) == s > lastAck[t] /\ s \in outstanding[t]

acknowledge_output(t, s) ==
    /\ OrderFree
    /\ life[t] = "live" /\ acknowledged[t]
    /\ Acknowledgeable(t, s)
    /\ outstanding' = [outstanding EXCEPT ![t] = {x \in @ : x > s}]
    /\ lastAck' = [lastAck EXCEPT ![t] = s]
    /\ order' = [by |-> "ackOutput", task |-> t, stage |-> "drain", batch |-> <<>>]
    /\ UNCHANGED <<life, phase, acknowledged, flushing, queued, statusSeq,
                   outputSeq, reported, terminalOrder, waiter, expiring, emitted>>

----------------------------------------------------------------------------
(* The holder of output_emission_order. *)

emit_queued_event ==
    /\ ~OrderFree /\ order.stage = "emit" /\ order.batch # <<>>
    /\ emitted' = [emitted EXCEPT ![order.task] = Append(@, Head(order.batch))]
    /\ order' = [order EXCEPT !.batch = Tail(@)]
    /\ UNCHANGED <<entryVars, terminalOrder, waiter, expiring>>

(* The batch is out: acknowledge_owned drains again, the others unlock. *)
finish_batch ==
    /\ ~OrderFree /\ order.stage = "emit" /\ order.batch = <<>>
    /\ IF order.by = "ack"
       THEN order' = [order EXCEPT !.stage = "drain"]
       ELSE Release
    /\ UNCHANGED <<entryVars, terminalOrder, waiter, expiring, emitted>>

(* drain_acknowledgement, second `state` section of its callers. *)
drain_acknowledgement ==
    /\ ~OrderFree /\ order.stage = "drain"
    /\ LET t == order.task IN
       IF life[t] # "live" \/ ~acknowledged[t]
       THEN Release /\ UNCHANGED <<entryVars, terminalOrder>>
       ELSE \E n \in 0..Len(queued[t]) :
              /\ take_ready_events(t, queued[t], n)
              /\ IF n > 0
                 THEN /\ order' = [order EXCEPT !.stage = "emit",
                                        !.batch = SubSeq(queued[t], 1, n)]
                      /\ UNCHANGED <<life, flushing, terminalOrder>>
                 ELSE /\ Release
                      /\ flushing' = [flushing EXCEPT ![t] = FALSE]
                      /\ IF phase[t] = "Terminal" /\ queued[t] = <<>> /\ outstanding[t] = {}
                         THEN /\ life' = [life EXCEPT ![t] = "removed"]
                              /\ terminalOrder' = Retained(t)
                         ELSE UNCHANGED <<life, terminalOrder>>
              /\ UNCHANGED <<phase, acknowledged, statusSeq, outputSeq, reported, lastAck>>
    /\ UNCHANGED <<waiter, expiring, emitted>>

----------------------------------------------------------------------------
(* The waiter, once the child is gone and the pumps are joined. *)

Undelivered_ignores_queue(t) == outstanding[t] # {}                    \* mutant
Undelivered(t) == queued[t] # <<>> \/ outstanding[t] # {}

(* A synchronous sink that is not being flushed gets the terminal status    *)
(* directly; otherwise it is queued.                                        *)
EmitsDirectly_while_flushing(t) == acknowledged[t] /\ ~AckRequired     \* mutant
EmitsDirectly(t) == acknowledged[t] /\ ~flushing[t] /\ ~AckRequired

(* The Running status of a task that completes before its acknowledgement.  *)
WithRunning(t, q) ==
    IF phase[t] = "Pending"
    THEN push_queued(q, [kind |-> "running", seq |-> statusSeq[t] + 1])
    ELSE q

(* complete_settled under `state`.                                          *)
(* record_terminal_entry evicts the oldest entries beyond MaxTerminal.      *)
complete(t) ==
    /\ waiter[t] = "running"
    /\ ~(order.by = "pump" /\ order.task = t)
    /\ life[t] = "live" /\ phase[t] # "Terminal"
    /\ phase' = [phase EXCEPT ![t] = "Terminal"]
    /\ LET direct == EmitsDirectly(t)
           pending == phase[t] = "Pending"
           final == [kind |-> "terminal",
                     seq |-> IF pending /\ ~direct THEN statusSeq[t] + 2 ELSE statusSeq[t] + 1]
           recorded == Append(terminalOrder, t)
           excess == IF Len(recorded) > MaxTerminal THEN Len(recorded) - MaxTerminal ELSE 0
           evicted == {recorded[i] : i \in 1..excess}
       IN /\ statusSeq' = [statusSeq EXCEPT ![t] = final.seq]
          /\ queued' = [queued EXCEPT ![t] = IF direct THEN @
                                                  ELSE push_queued(WithRunning(t, @), final)]
          /\ waiter' = [waiter EXCEPT ![t] = IF direct THEN "direct" ELSE "expire"]
          /\ terminalOrder' = SubSeq(recorded, excess + 1, Len(recorded))
          /\ life' = [x \in Tasks |-> IF x \in evicted THEN "removed" ELSE life[x]]
          /\ expiring' = [expiring EXCEPT ![t] =
                 {x \in evicted : acknowledged[x] /\ Undelivered(x)}]
    /\ UNCHANGED <<acknowledged, flushing, outputSeq, reported, outstanding,
                   lastAck, order, emitted>>

(* The expired statuses are emitted without output_emission_order. *)
emit_expired(t, x) ==
    /\ x \in expiring[t]
    /\ expiring' = [expiring EXCEPT ![t] = @ \ {x}]
    /\ emitted' = [emitted EXCEPT ![x] =
           Append(@, [kind |-> "lost", seq |-> statusSeq[x] + 1])]
    /\ UNCHANGED <<entryVars, terminalOrder, waiter, order>>

emit_direct(t) ==
    /\ waiter[t] = "direct" /\ expiring[t] = {}
    /\ emitted' = [emitted EXCEPT ![t] =
           Append(@, [kind |-> "terminal", seq |-> statusSeq[t]])]
    /\ waiter' = [waiter EXCEPT ![t] = "done"]
    /\ UNCHANGED <<entryVars, terminalOrder, expiring, order>>

(* An asynchronous sink's waiter drains under the lock, then waits. *)
complete_drain(t) ==
    /\ waiter[t] = "expire" /\ expiring[t] = {}
    /\ IF AckRequired
       THEN /\ OrderFree
            /\ order' = [by |-> "waiter", task |-> t, stage |-> "drain", batch |-> <<>>]
            /\ waiter' = [waiter EXCEPT ![t] = "await"]
       ELSE /\ waiter' = [waiter EXCEPT ![t] = "done"]
            /\ order' = order
    /\ UNCHANGED <<entryVars, terminalOrder, expiring, emitted>>

DeliveryPending(t) == life[t] = "live" /\ phase[t] = "Terminal" /\ Undelivered(t)
Draining(t) == order.by = "waiter" /\ order.task = t

(* wait_for_terminal_output_delivery: one poll of the loop, the deadline,   *)
(* and the locked section after it.                                         *)
poll_delivered(t) ==
    /\ waiter[t] = "await" /\ ~Draining(t)
    /\ ~DeliveryPending(t)
    /\ waiter' = [waiter EXCEPT ![t] = "done"]
    /\ UNCHANGED <<entryVars, terminalOrder, expiring, order, emitted>>

poll_deadline_never(t) == FALSE /\ UNCHANGED vars                      \* mutant

poll_deadline(t) ==
    /\ waiter[t] = "await" /\ ~Draining(t)
    /\ DeliveryPending(t)
    /\ waiter' = [waiter EXCEPT ![t] = "overdue"]
    /\ UNCHANGED <<entryVars, terminalOrder, expiring, order, emitted>>

interrupt_delivery(t) ==
    /\ waiter[t] = "overdue" /\ OrderFree
    /\ waiter' = [waiter EXCEPT ![t] = "done"]
    /\ IF DeliveryPending(t)
       THEN /\ life' = [life EXCEPT ![t] = "removed"]
            /\ terminalOrder' = Retained(t)
            /\ order' = [by |-> "overdue", task |-> t, stage |-> "emit",
                         batch |-> <<[kind |-> "lost", seq |-> statusSeq[t] + 1]>>]
       ELSE UNCHANGED <<life, terminalOrder, order>>
    /\ UNCHANGED <<phase, acknowledged, flushing, queued, statusSeq, outputSeq,
                   reported, outstanding, lastAck, expiring, emitted>>

----------------------------------------------------------------------------
Waiter(t) ==
    \/ complete(t)
    \/ \E x \in Tasks : emit_expired(t, x)
    \/ emit_direct(t)
    \/ complete_drain(t)
    \/ poll_delivered(t)
    \/ poll_deadline(t)
    \/ interrupt_delivery(t)

Holder == emit_queued_event \/ finish_batch \/ drain_acknowledgement

Next ==
    \/ Holder
    \/ \E t \in Tasks :
          \/ start(t) \/ commit_start(t) \/ abandon_start(t)
          \/ \E kind \in OutputKinds : publish(t, kind)
          \/ acknowledge(t)
          \/ \E s \in 1..MaxOutputs[t] : acknowledge_output(t, s)
          \/ Waiter(t)

(* Threads that hold a lock keep running, and so does a waiter.  Nothing    *)
(* makes the renderer acknowledge, the agent print, or a command arrive.    *)
Fairness ==
    /\ WF_vars(Holder)
    /\ \A t \in Tasks : WF_vars(Waiter(t))

Spec == Init /\ [][Next]_vars
FairSpec == Spec /\ Fairness

(* The promise to the sink. *)
Channel == INSTANCE TaskEventChannel
    WITH Acked <- AckRequired, produced <- outputSeq, consumed <- lastAck, log <- emitted,
         Limit <- Window

----------------------------------------------------------------------------
Shape ==
    /\ life \in [Tasks -> {"unstarted", "live", "removed"}]
    /\ phase \in [Tasks -> {"Pending", "Running", "Terminal"}]
    /\ acknowledged \in [Tasks -> BOOLEAN]
    /\ flushing \in [Tasks -> BOOLEAN]
    /\ queued \in [Tasks -> Seq(Event)]
    /\ statusSeq \in [Tasks -> Nat]
    /\ outputSeq \in [Tasks -> Nat]
    /\ outstanding \in [Tasks -> SUBSET Nat]
    /\ reported \in [Tasks -> BOOLEAN]
    /\ lastAck \in [Tasks -> Nat]
    /\ terminalOrder \in Seq(Tasks)
    /\ waiter \in [Tasks -> {"none", "starting", "running", "direct", "expire",
                             "await", "overdue", "done"}]
    /\ expiring \in [Tasks -> SUBSET Tasks]
    /\ order \in OrderState
    /\ emitted \in [Tasks -> Seq(Event)]

AcksInRange(t) ==
    /\ lastAck[t] <= outputSeq[t]
    /\ outstanding[t] \subseteq (lastAck[t] + 1)..outputSeq[t]

(* Every variable has its type, and acknowledgements stay within what was   *)
(* produced, however late, stale or invented they are.                      *)
TypeOK == Shape /\ \A t \in Tasks : AcksInRange(t)

(* The sink sees a task's output chunks in the order they were produced,    *)
(* none twice, whatever the ring dropped in between.                        *)
OutputsInOrder ==
    \A t \in Tasks : \A i, j \in 1..Len(emitted[t]) :
        (i < j /\ IsOutput(emitted[t][i]) /\ IsOutput(emitted[t][j]))
            => emitted[t][i].seq < emitted[t][j].seq

(* A completed task whose start the renderer acknowledged is always closed  *)
(* at the sink, even when the renderer never acknowledges output again.     *)
Closed(t) == \E i \in 1..Len(emitted[t]) : emitted[t][i].kind \in FinalKinds
CompletedIsClosed ==
    \A t \in Tasks : (acknowledged[t] /\ phase[t] = "Terminal") ~> Closed(t)

----------------------------------------------------------------------------
(* The inductive strengthening of TypeOK, OutputsInOrder and of the order   *)
(* between output and the terminal status.  On its way from a pump to the   *)
(* sink an event of task t is in queued[t], then in the batch of the thread *)
(* that holds output_emission_order, then in emitted[t].                    *)

Batch(t) == IF order.task = t THEN order.batch ELSE <<>>

Outs(s) == {s[i].seq : i \in {j \in 1..Len(s) : IsOutput(s[j])}}
Sorted(s) ==
    \A i, j \in 1..Len(s) :
        (i < j /\ IsOutput(s[i]) /\ IsOutput(s[j])) => s[i].seq < s[j].seq
Below(S, T) == \A x \in S, y \in T : x < y

(* Only a thread that holds the lock has a batch, and not while it drains.  *)
BatchHeld == (OrderFree \/ order.stage = "drain") => order.batch = <<>>

(* Chunks keep their order across the three stages.                         *)
StagesInOrder(t) ==
    /\ Sorted(emitted[t]) /\ Sorted(Batch(t)) /\ Sorted(queued[t])
    /\ Below(Outs(emitted[t]), Outs(Batch(t)))
    /\ Below(Outs(emitted[t]), Outs(queued[t]))
    /\ Below(Outs(Batch(t)), Outs(queued[t]))
    /\ Outs(emitted[t]) \cup Outs(Batch(t)) \cup Outs(queued[t]) \subseteq 1..outputSeq[t]

(* What left the queue is acknowledged or in the window; what has not left  *)
(* it is newer than either.                                                 *)
WindowCovers(t) ==
    /\ Below({lastAck[t]} \cup outstanding[t], Outs(queued[t]))
    /\ AckRequired =>
          Outs(emitted[t]) \cup Outs(Batch(t)) \subseteq 1..lastAck[t] \cup outstanding[t]

(* The lock and the window make delivery ordered: the inductive invariant.  *)
OrderInvariant ==
    /\ TypeOK
    /\ BatchHeld
    /\ \A t \in Tasks : StagesInOrder(t) /\ WindowCovers(t)

============================================================================
