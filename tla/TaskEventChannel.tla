--------------------------- MODULE TaskEventChannel ---------------------------
(****************************************************************************)
(* What the delivery of agent task events promises to a sink, with no       *)
(* queues, windows, locks or threads: per task, a log of the events handed  *)
(* over.  AgentTaskDelivery is shown to implement this specification with   *)
(*    produced <- outputSeq, consumed <- lastAck, log <- emitted.           *)
(****************************************************************************)
EXTENDS Naturals, Sequences, FiniteSets

CONSTANTS Tasks,
          Acked,      \* does the sink acknowledge what it consumes?
          Limit       \* chunks an acknowledging sink holds unconsumed at most

VARIABLES produced,   \* per task, chunks the agent wrote so far
          consumed,   \* per task, the last chunk the sink says it consumed
          log         \* per task, the events handed to the sink

channel == <<produced, consumed, log>>

Chunks == {"output", "marker"}
Finals == {"terminal", "lost"}

Has(t, kinds) == \E i \in 1..Len(log[t]) : log[t][i].kind \in kinds

Unconsumed(t) ==
    {i \in 1..Len(log[t]) : log[t][i].kind \in Chunks /\ log[t][i].seq > consumed[t]}

ChannelInit ==
    /\ produced = [t \in Tasks |-> 0]
    /\ consumed = [t \in Tasks |-> 0]
    /\ log = [t \in Tasks |-> <<>>]

Produce(t) ==
    /\ ~Has(t, {"terminal"})
    /\ produced' = [produced EXCEPT ![t] = @ + 1]
    /\ UNCHANGED <<consumed, log>>

(* Only a chunk that was handed over can be consumed.                       *)
Consume(t) ==
    /\ \E i \in 1..Len(log[t]) :
          /\ log[t][i].kind \in Chunks /\ log[t][i].seq > consumed[t]
          /\ consumed' = [consumed EXCEPT ![t] = log[t][i].seq]
    /\ UNCHANGED <<produced, log>>

Hand(t, e) ==
    /\ log' = [log EXCEPT ![t] = Append(@, e)]
    /\ UNCHANGED <<produced, consumed>>

(* Chunks come in the order they were produced, each at most once; some     *)
(* may never come, and none comes to a sink that has yet to consume Limit   *)
(* of them.  A delivery failure may overtake chunks already on their way;   *)
(* the task's own terminal status never does.                               *)
HandChunk(t, kind, n) ==
    /\ ~Has(t, {"terminal"})
    /\ \A i \in 1..Len(log[t]) : log[t][i].kind \in Chunks => log[t][i].seq < n
    /\ Acked => Cardinality(Unconsumed(t)) < Limit
    /\ Hand(t, [kind |-> kind, seq |-> n])

HandRunning(t) ==
    /\ ~Has(t, {"running", "terminal"})
    /\ Hand(t, [kind |-> "running", seq |-> 1])

(* A task's own terminal status waits for everything handed over before it  *)
(* to be consumed, and comes after the Running status.                      *)
HandTerminal(t) ==
    /\ ~Has(t, Finals) /\ Has(t, {"running"})
    /\ Acked => \A i \in 1..Len(log[t]) :
                   log[t][i].kind \in Chunks => log[t][i].seq <= consumed[t]
    /\ Hand(t, [kind |-> "terminal", seq |-> 2])

(* Delivery that cannot complete is closed by an explicit failure instead,  *)
(* numbered after the status it replaces.                                   *)
HandLost(t) ==
    /\ ~Has(t, Finals)
    /\ Hand(t, [kind |-> "lost", seq |-> 3])

ChannelNext ==
    \E t \in Tasks :
        \/ Produce(t) \/ Consume(t)
        \/ \E kind \in Chunks, n \in 1..produced[t] : HandChunk(t, kind, n)
        \/ HandRunning(t) \/ HandTerminal(t) \/ HandLost(t)

ChannelSpec == ChannelInit /\ [][ChannelNext]_channel
==============================================================================
