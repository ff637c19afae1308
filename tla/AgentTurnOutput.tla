--------------------------- MODULE AgentTurnOutput ---------------------------
(****************************************************************************)
(* The renderer's end of output delivery, composed with the native end      *)
(* (AgentTaskDelivery): the event listeners and their subscription epochs,  *)
(* the per-turn stream with its gap detection and line resynchronisation    *)
(* (application/agentTurnOutputStream.ts), the output pipeline that         *)
(* dispatches events and settles turns (agentTurnOutputPipeline.ts) and the *)
(* coalesced acknowledgements (agentOutputAcknowledgement.ts).              *)
(*                                                                          *)
(* A chunk is abstracted to its stream and to where its lines break.  The   *)
(* parser is abstracted to the unfinished line it holds for each stream.    *)
(****************************************************************************)
EXTENDS AgentTaskDelivery

CONSTANTS
    Streams,       \* AgentTaskOutputStream: stdout, stderr
    LineBreaks,    \* chunks told apart: subset of {"none", "inside", "end"}
    Subscribed,    \* does the model start with both listeners resolved?
    MaxSubs,       \* bound of the model: runs of the subscribing effect
    MaxAttempts    \* tries of one acknowledgement (3 in the code)

ASSUME RendererAssumption ==
    /\ Streams # {} /\ LineBreaks \subseteq {"none", "inside", "end"}
    /\ Subscribed \in BOOLEAN
    /\ MaxSubs \in Nat \ {0} /\ MaxAttempts \in Nat \ {0}

VARIABLES
    boundary,      \* stdout_at_line_boundary, stderr_at_line_boundary
    chunk,         \* per task, what the output event of each sequence carries
    cursor,        \* per task, how many emitted events the webview dispatched
    sub,           \* outputSubscription.epoch and .ready, and the effect run
    listener,      \* per effect run, its output and its status listener
    stream,        \* the turn's AgentTurnOutputStream
    ack,           \* the acknowledgement owner of the stream
    wire,          \* per task, acknowledgement calls under way
    turn           \* what the thread store holds of the turn

rendererVars == <<boundary, chunk, cursor, sub, listener, stream, ack, wire, turn>>
allVars == <<vars, rendererVars>>

----------------------------------------------------------------------------
Channels == {"output", "status"}
Subs == 1..MaxSubs

(* held[s] is the sequence number of the chunk that ends the unfinished     *)
(* line the parser holds for stream s, 0 when it holds none; `seen` and     *)
(* `torn` record what the parser was fed, for the properties.               *)
NoStream == [state |-> "none", epoch |-> 0, lastSequence |-> 0, complete |-> FALSE,
             observed |-> FALSE, resync |-> [s \in Streams |-> FALSE],
             held |-> [s \in Streams |-> 0], seen |-> {}, torn |-> FALSE]
NoAck == [epoch |-> 0, consumed |-> 0, acknowledged |-> 0, attempts |-> 0,
          scheduled |-> FALSE, failed |-> FALSE]

(* An effect run asks the runtime for both listeners; each is attached some *)
(* time later, and its promise resolves later still.  A listener attached   *)
(* for a disposed run receives events until its promise resolves.           *)
Receiving(ch) == \E k \in Subs : listener[k][ch] \in {"attached", "ready", "orphan"}

RendererInit ==
    /\ boundary = [t \in Tasks |-> [s \in Streams |-> TRUE]]
    /\ chunk = [t \in Tasks |-> <<>>]
    /\ cursor = [t \in Tasks |-> 0]
    /\ sub = [epoch |-> 1, ready |-> Subscribed, run |-> 1]
    /\ listener = [k \in Subs |-> [ch \in Channels |->
                      CASE k > 1 -> "none" [] k = 1 /\ Subscribed -> "ready" [] OTHER -> "waiting"]]
    /\ stream = [t \in Tasks |-> NoStream]
    /\ ack = [t \in Tasks |-> NoAck]
    /\ wire = [t \in Tasks |-> {}]
    /\ turn = [t \in Tasks |-> [status |-> "none", metrics |-> "none"]]

----------------------------------------------------------------------------
(* Native: what publish_output_chunk and the incomplete marker record. *)

publish_output_chunk(t, s, break) ==
    /\ publish(t, "output")
    /\ chunk' = [chunk EXCEPT ![t] = Append(@,
          [stream |-> s, starts |-> boundary[t][s], break |-> break, empty |-> FALSE])]
    /\ boundary' = [boundary EXCEPT ![t][s] = break = "end"]
    /\ UNCHANGED <<cursor, sub, listener, stream, ack, wire, turn>>

publish_output_incomplete_marker(t, s) ==
    /\ publish(t, "marker")
    /\ chunk' = [chunk EXCEPT ![t] = Append(@,
          [stream |-> s, starts |-> boundary[t][s], break |-> "none", empty |-> TRUE])]
    /\ UNCHANGED <<boundary, cursor, sub, listener, stream, ack, wire, turn>>

----------------------------------------------------------------------------
(* Subscriptions. *)

Incomplete(st) == [t \in Tasks |-> [st[t] EXCEPT !.complete = FALSE]]

attach(k, ch) ==
    /\ listener[k][ch] \in {"waiting", "abandoned"}
    /\ listener' = [listener EXCEPT ![k][ch] = IF @ = "waiting" THEN "attached" ELSE "orphan"]
    /\ UNCHANGED <<vars, boundary, chunk, cursor, sub, stream, ack, wire, turn>>

(* The promise resolves: a disposed run unsubscribes at once.  For a status *)
(* listener of the current run nothing else changes, so the model leaves    *)
(* that resolution out and lets its disposal take a step of its own.        *)
subscribed(k, ch) ==
    /\ listener[k][ch] = "orphan" \/ (ch = "output" /\ listener[k][ch] = "attached")
    /\ listener' = [listener EXCEPT ![k][ch] = IF @ = "attached" THEN "ready" ELSE "gone"]
    /\ sub' = [sub EXCEPT !.ready = @ \/ (ch = "output" /\ listener[k][ch] = "attached")]
    /\ UNCHANGED <<vars, boundary, chunk, cursor, stream, ack, wire, turn>>

(* The promise rejects before anything was attached. *)
subscribe_failed(k) ==
    /\ listener[k]["output"] \in {"waiting", "abandoned"}
    /\ listener' = [listener EXCEPT ![k]["output"] = "gone"]
    /\ IF listener[k]["output"] = "waiting"
       THEN /\ sub' = [sub EXCEPT !.ready = FALSE]
            /\ stream' = Incomplete(stream)
       ELSE UNCHANGED <<sub, stream>>
    /\ UNCHANGED <<vars, boundary, chunk, cursor, ack, wire, turn>>

(* The effect re-runs: its cleanup and its body run in one commit.  Each    *)
(* takes an epoch, and the acknowledgement owners are forgotten.            *)
Disposed(l) == CASE l = "waiting" -> "abandoned" [] l = "attached" -> "orphan"
                 [] OTHER -> "gone"
resubscribe ==
    /\ sub.run < MaxSubs
    /\ sub' = [epoch |-> sub.epoch + 2, ready |-> FALSE, run |-> sub.run + 1]
    /\ listener' = [listener EXCEPT
          ![sub.run] = [ch \in Channels |-> Disposed(@[ch])],
          ![sub.run + 1] = [ch \in Channels |-> "waiting"]]
    /\ stream' = Incomplete(stream)
    /\ ack' = [t \in Tasks |-> NoAck]
    /\ UNCHANGED <<vars, boundary, chunk, cursor, wire, turn>>

----------------------------------------------------------------------------
(* Streams. *)

(* registerStream: before the start is acknowledged. *)
registerStream(t) ==
    /\ stream[t].state = "none" /\ ~acknowledged[t]
    /\ stream' = [stream EXCEPT ![t] = [NoStream EXCEPT !.state = "open",
                     !.epoch = IF sub.ready THEN sub.epoch ELSE 0,
                     !.complete = sub.ready]]
    /\ turn' = [turn EXCEPT ![t].status = "pending"]
    /\ UNCHANGED <<vars, boundary, chunk, cursor, sub, listener, ack, wire>>

(* The chunk of the same stream that was published before chunk n. *)
Previous(t, n) ==
    LET same == {i \in 1..(n - 1) : ~chunk[t][i].empty /\ chunk[t][i].stream = chunk[t][n].stream}
    IN IF same = {} THEN 0 ELSE CHOOSE i \in same : \A j \in same : j <= i

(* Is event n a break in the transport? *)
Gap_ignores_truncated(t, n) == n # stream[t].lastSequence + 1          \* mutant
Gap(t, n) == n # stream[t].lastSequence + 1 \/ chunk[t][n].empty

StillComplete_after_loss(t, n) == stream[t].complete /\ ~chunk[t][n].empty  \* mutant
StillComplete(t, n) == stream[t].complete /\ ~Gap(t, n)

(* The unfinished lines the parser keeps. *)
PartialLines_kept(t, n) == stream[t].held                              \* mutant
PartialLines(t, n) == IF Gap(t, n) THEN [x \in Streams |-> 0] ELSE stream[t].held

(* acceptAgentTurnOutput on an event newer than the last accepted one.  A   *)
(* gap or a truncated event empties the parser and resynchronises both      *)
(* streams; a stream that resynchronises takes a chunk that starts a line,  *)
(* or what follows the first line break.                                    *)
Accept(t, n) ==
    LET c == chunk[t][n]
        s == c.stream
        st == stream[t]
        gap == Gap(t, n)
        resync == IF gap THEN [x \in Streams |-> TRUE] ELSE st.resync
        held == PartialLines(t, n)
        whole == ~resync[s] \/ c.starts
        fed == ~c.empty /\ (whole \/ c.break # "none")
        joins == IF held[s] = 0 THEN c.starts ELSE held[s] = Previous(t, n)
    IN [st EXCEPT
          !.lastSequence = n,
          !.complete = StillComplete(t, n),
          !.observed = TRUE,
          !.resync = [resync EXCEPT ![s] = ~(whole \/ c.break # "none")],
          !.held = [held EXCEPT ![s] =
                       IF ~fed THEN @ ELSE IF c.break = "end" THEN 0 ELSE n],
          !.seen = @ \cup (IF c.empty THEN {} ELSE {n}),
          !.torn = @ \/ (fed /\ whole /\ ~joins)]

AckCurrent(t) == ack[t].epoch = sub.epoch /\ stream[t].state = "open"

(* consumed(sequence), on the existing owner or on a new one. *)
Consumed_next(t, n) ==                                                 \* mutant
    [NoAck EXCEPT !.epoch = sub.epoch, !.consumed = n + 1, !.scheduled = TRUE]
Consumed_unscheduled(t, n) ==                                          \* mutant
    [NoAck EXCEPT !.epoch = sub.epoch, !.consumed = n]

Consumed(t, n) ==
    LET owner == IF ack[t].epoch = 0 THEN [NoAck EXCEPT !.epoch = sub.epoch] ELSE ack[t]
    IN IF owner.failed \/ owner.epoch # sub.epoch \/ n <= owner.consumed THEN owner
       ELSE [owner EXCEPT !.consumed = n, !.scheduled = TRUE]

Pending(t) == cursor[t] < Len(emitted[t])
NextEvent(t) == emitted[t][cursor[t] + 1]
Dispatched(t) == cursor' = [cursor EXCEPT ![t] = @ + 1]

handleOutputEvent(t) ==
    /\ Pending(t) /\ IsOutput(NextEvent(t))
    /\ Dispatched(t)
    /\ LET n == NextEvent(t).seq IN
       IF Receiving("output") /\ stream[t].state = "open" /\ n > stream[t].lastSequence
       THEN /\ stream' = [stream EXCEPT ![t] = Accept(t, n)]
            /\ ack' = [ack EXCEPT ![t] = Consumed(t, n)]
       ELSE UNCHANGED <<stream, ack>>
    /\ UNCHANGED <<vars, boundary, chunk, sub, listener, wire, turn>>

(* drainAgentTurnOutput and mergeAgentTurnStreamMetrics. *)
Merge(metrics, whole) == IF metrics = "incomplete" \/ ~whole THEN "incomplete" ELSE "complete"
Flushed(t, st) == IF st.observed THEN Merge(turn[t].metrics, st.complete) ELSE turn[t].metrics

flushStreams ==
    /\ \E t \in Tasks : stream[t].state = "open" /\ stream[t].observed
    /\ stream' = [t \in Tasks |-> [stream[t] EXCEPT !.observed = FALSE]]
    /\ turn' = [t \in Tasks |-> [turn[t] EXCEPT !.metrics = Flushed(t, stream[t])]]
    /\ UNCHANGED <<vars, boundary, chunk, cursor, sub, listener, ack, wire>>

(* finishAgentTurnOutput after a flush; a turn that received nothing, or    *)
(* whose completion is not known to be clean, is measured as it stands.     *)
FinishedMetrics(t, failed) ==
    LET clean == ~failed /\ sub.ready /\ stream[t].epoch = sub.epoch
        whole == stream[t].complete /\ clean
        flushed == Flushed(t, stream[t])
    IN IF stream[t].lastSequence = 0 \/ ~clean THEN Merge(flushed, whole) ELSE flushed

(* A terminal status flushes every stream, settles the turn and deletes its *)
(* stream.  The task's own terminal status may itself be a failure.         *)
handleStatusEvent(t) ==
    /\ Pending(t) /\ ~IsOutput(NextEvent(t))
    /\ Dispatched(t)
    /\ LET kind == NextEvent(t).kind IN
       IF ~Receiving("status") \/ stream[t].state # "open"
       THEN UNCHANGED <<stream, turn>>
       ELSE IF kind = "running"
       THEN /\ turn' = [turn EXCEPT ![t].status = "running"]
            /\ UNCHANGED stream
       ELSE /\ stream' = [x \in Tasks |-> [stream[x] EXCEPT !.observed = FALSE,
                               !.state = IF x = t THEN "closed" ELSE @]]
            /\ \E failed \in BOOLEAN :
                  /\ kind = "lost" => failed
                  /\ turn' = [x \in Tasks |->
                        IF x = t
                        THEN [status |-> kind, metrics |-> FinishedMetrics(t, failed)]
                        ELSE [turn[x] EXCEPT !.metrics = Flushed(x, stream[x])]]
    /\ UNCHANGED <<vars, boundary, chunk, sub, listener, ack, wire>>

----------------------------------------------------------------------------
(* Acknowledgements: one call under way per owner, cumulative, retried.     *)

flush(t) ==
    /\ ack[t].scheduled
    /\ \A w \in wire[t] : w.epoch # ack[t].epoch
    /\ IF AckCurrent(t) /\ ack[t].acknowledged < ack[t].consumed
       THEN /\ wire' = [wire EXCEPT ![t] = @ \cup
                  {[epoch |-> ack[t].epoch, seq |-> ack[t].consumed, state |-> "sent"]}]
            /\ UNCHANGED ack
       ELSE /\ ack' = [ack EXCEPT ![t].scheduled = FALSE]
            /\ UNCHANGED wire
    /\ UNCHANGED <<vars, boundary, chunk, cursor, sub, listener, stream, turn>>

(* The command runs natively, or the call is refused: the task is no longer *)
(* registered, or the sequence is not outstanding.                          *)
Reply(t, w, state) == wire' = [wire EXCEPT ![t] = (@ \ {w}) \cup {[w EXCEPT !.state = state]}]

native_acknowledge(t, w) ==
    /\ w \in wire[t] /\ w.state = "sent" /\ OrderFree
    /\ \/ /\ acknowledge_output(t, w.seq)
          /\ Reply(t, w, "ok")
       \/ /\ life[t] = "live" /\ acknowledged[t] /\ w.seq <= lastAck[t]
          /\ Reply(t, w, "ok") /\ UNCHANGED vars
       \/ /\ \/ life[t] # "live" \/ ~acknowledged[t]
             \/ w.seq > lastAck[t] /\ w.seq \notin outstanding[t]
          /\ Reply(t, w, "error") /\ UNCHANGED vars
    /\ UNCHANGED <<boundary, chunk, cursor, sub, listener, stream, ack, turn>>

(* The call is lost: it fails without reaching the registry. *)
call_failed(t, w) ==
    /\ w \in wire[t] /\ w.state = "sent"
    /\ Reply(t, w, "error")
    /\ UNCHANGED <<vars, boundary, chunk, cursor, sub, listener, stream, ack, turn>>

flush_resumed(t, w) ==
    /\ w \in wire[t] /\ w.state # "sent"
    /\ wire' = [wire EXCEPT ![t] = @ \ {w}]
    /\ LET owner == ack[t] IN
       ack' = [ack EXCEPT ![t] =
          CASE w.epoch # owner.epoch -> owner
            [] w.epoch = owner.epoch /\ ~AckCurrent(t) -> [owner EXCEPT !.scheduled = FALSE]
            [] w.epoch = owner.epoch /\ AckCurrent(t) /\ w.state = "ok" ->
                  [owner EXCEPT !.acknowledged = w.seq, !.attempts = 0]
            [] OTHER ->
                  IF owner.attempts + 1 >= MaxAttempts
                  THEN [owner EXCEPT !.attempts = owner.attempts + 1, !.failed = TRUE,
                                     !.scheduled = FALSE]
                  ELSE [owner EXCEPT !.attempts = owner.attempts + 1]]
    /\ UNCHANGED <<vars, boundary, chunk, cursor, sub, listener, stream, turn>>

----------------------------------------------------------------------------
(* The start runner acknowledges a start once its stream is registered.     *)
NativeStep ==
    /\ \/ Holder
       \/ \E t \in Tasks :
             \/ start(t) \/ commit_start(t) \/ abandon_start(t)
             \/ stream[t].state # "none" /\ acknowledge(t)
             \/ Waiter(t)
    /\ UNCHANGED rendererVars

Publishing(t) ==
    \E s \in Streams :
       \/ \E break \in LineBreaks : publish_output_chunk(t, s, break)
       \/ publish_output_incomplete_marker(t, s)

Dispatch(t) == handleOutputEvent(t) \/ handleStatusEvent(t)

Acknowledging(t) ==
    \/ flush(t)
    \/ \E w \in wire[t] : native_acknowledge(t, w) \/ flush_resumed(t, w)

Subscribing ==
    \/ \E k \in Subs, ch \in Channels : attach(k, ch) \/ subscribed(k, ch)
    \/ \E k \in Subs : subscribe_failed(k)
    \/ resubscribe

TurnOutputInit == Init /\ RendererInit
TurnOutputNext ==
    \/ NativeStep
    \/ Subscribing
    \/ flushStreams
    \/ \E t \in Tasks :
          \/ Publishing(t) \/ registerStream(t) \/ Dispatch(t) \/ Acknowledging(t)
          \/ \E w \in wire[t] : call_failed(t, w)

TurnOutputSpec == TurnOutputInit /\ [][TurnOutputNext]_allVars

(* The native threads run on, the webview dispatches what it was sent, and  *)
(* the event loop runs what was scheduled.                                  *)
FairTurnOutputSpec ==
    /\ TurnOutputSpec
    /\ WF_allVars(Holder /\ UNCHANGED rendererVars)
    /\ \A t \in Tasks :
          /\ WF_allVars(Waiter(t) /\ UNCHANGED rendererVars)
          /\ WF_allVars(Dispatch(t))
          /\ WF_allVars(Acknowledging(t))

----------------------------------------------------------------------------
RendererTypeOK ==
    /\ TypeOK
    /\ \A t \in Tasks : Len(chunk[t]) = outputSeq[t] /\ cursor[t] \in 0..Len(emitted[t])
    /\ \A t \in Tasks :
          /\ turn[t].metrics \in {"none", "complete", "incomplete"}
          /\ ack[t].acknowledged <= ack[t].consumed
          /\ ack[t].consumed <= stream[t].lastSequence
          /\ stream[t].lastSequence <= outputSeq[t]

(* A settled turn whose stream is reported complete lost nothing between    *)
(* the agent's pipes and the parser: every chunk was fed, and the pumps     *)
(* reported no gap.  Chunks are lost to the ring, to the deadline, to a     *)
(* resubscription and to a failed listener.                                 *)
CompleteMeansNothingLost ==
    \A t \in Tasks :
        (turn[t].status \in FinalKinds /\ turn[t].metrics = "complete") =>
            stream[t].seen = 1..outputSeq[t]

(* "Never join retained bytes across a lost transport segment": the parser  *)
(* is never given a line put together from both sides of a gap, nor the     *)
(* end of a line whose beginning was lost.                                  *)
NoTornLine == \A t \in Tasks : ~stream[t].torn

(* A full window is released again, unless the acknowledgements failed for  *)
(* good (which is reported) or the delivery is closed.                      *)
WindowReleased ==
    \A t \in Tasks :
        (Cardinality(outstanding[t]) = Window /\ stream[t].state = "open") ~>
            \/ Cardinality(outstanding[t]) < Window
            \/ ack[t].failed \/ Closed(t) \/ stream[t].state = "closed"

(* With its listeners in place, the turn of a completed task settles in the *)
(* thread store, whatever became of its output.                             *)
CompletedTurnSettles ==
    \A t \in Tasks :
        (acknowledged[t] /\ phase[t] = "Terminal" /\ Receiving("status")) ~>
            turn[t].status \in FinalKinds

==============================================================================
