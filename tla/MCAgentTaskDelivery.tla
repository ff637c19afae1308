------------------------- MODULE MCAgentTaskDelivery -------------------------
(* AgentTaskDelivery in front of either kind of sink: AckRequired is TRUE in *)
(* the instance itself and FALSE in Sync, and the sink is chosen at the      *)
(* start.  One task writes three chunks and the other none; the entry of     *)
(* whichever completes first is evicted by the other's.                      *)
EXTENDS AgentTaskDelivery

CONSTANTS t1, t2

ThreeAndNone == [t \in {t1, t2} |-> IF t = t1 THEN 3 ELSE 0]

VARIABLE sink

Sync == INSTANCE AgentTaskDelivery WITH AckRequired <- FALSE

allVars == <<vars, sink>>
Asynchronous == sink = "acknowledging"

SinkInit == sink \in {"acknowledging", "synchronous"} /\ Init

Of(async, sync) == (IF Asynchronous THEN async ELSE sync) /\ UNCHANGED sink

SinkNext == Of(Next, Sync!Next)

SinkSpec ==
    /\ SinkInit /\ [][SinkNext]_allVars
    /\ WF_allVars(Of(Holder, Sync!Holder))
    /\ \A t \in Tasks : WF_allVars(Of(Waiter(t), Sync!Waiter(t)))

(* The queue, the window, the two locks and the threads implement the       *)
(* channel, for the sink that was chosen: every step hands at most one       *)
(* event of one task to the sink, and only one the promise allows then.      *)
SinkImplementsChannel ==
    /\ Channel!ChannelInit
    /\ [][IF Asynchronous THEN Channel!ChannelNext \/ UNCHANGED Channel!channel
          ELSE Sync!Channel!ChannelNext \/ UNCHANGED Sync!Channel!channel]_allVars
==============================================================================
