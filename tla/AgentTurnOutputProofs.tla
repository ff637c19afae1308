------------------------ MODULE AgentTurnOutputProofs ------------------------
(****************************************************************************)
(* Proofs about AgentTurnOutput for every set of tasks and streams, every   *)
(* ring and window, every number of resubscriptions, and for both kinds of  *)
(* sink: the parser is never given a torn line, and a turn that is settled  *)
(* as complete has lost nothing.                                            *)
(****************************************************************************)
EXTENDS AgentTurnOutput, AgentTaskDeliveryProofs

----------------------------------------------------------------------------
(* The native end, beyond what the channel promises.                        *)

(* The ring drops its oldest chunks; the newest one is always on its way or *)
(* was handed over.                                                         *)
NewestKept(e, b, q, m) == m > 0 => m \in Outs(e) \cup Outs(b) \cup Outs(q)
NewestAt(t) == NewestKept(emitted[t], Batch(t), queued[t], outputSeq[t])

(* No chunk follows the terminal status of its task.                        *)
EndsLast(e) == \A i, j \in 1..Len(e) : e[i].kind = "terminal" /\ IsOutput(e[j]) => j < i

(* Nothing a task printed is handed over before its start is acknowledged.  *)
NothingEarly(e, b, ackd) == ~ackd => Outs(e) = {} /\ Outs(b) = {}

NativeAt(t) ==
    /\ NewestAt(t) /\ EndsLast(emitted[t])
    /\ NothingEarly(emitted[t], Batch(t), acknowledged[t])
    /\ outputSeq[t] <= MaxOutputs[t]

NativeInvariant == DeliveryInvariant /\ \A t \in Tasks : NativeAt(t)

----------------------------------------------------------------------------
(* Chunks and unfinished lines.                                             *)

Chunk == [stream : Streams, starts : BOOLEAN, break : {"none", "inside", "end"},
          empty : BOOLEAN]

Of(c, i, s) == ~c[i].empty /\ c[i].stream = s

(* After the first m chunks of c, h is the chunk that ends the unfinished   *)
(* line of stream s; 0 when its last chunk ended a line, or there was none. *)
Unfinished(c, s, m, h) ==
    IF h = 0
    THEN \A i \in 1..m : Of(c, i, s) /\ (\A j \in (i + 1)..m : ~Of(c, j, s)) => c[i].break = "end"
    ELSE /\ h \in 1..m /\ Of(c, h, s) /\ c[h].break # "end"
         /\ \A j \in (h + 1)..m : ~Of(c, j, s)

(* Every chunk says truly whether it starts a line; an empty one breaks none. *)
Marked(c, bound) ==
    /\ \A s \in Streams : bound[s] <=> Unfinished(c, s, Len(c), 0)
    /\ \A n \in 1..Len(c) :
          /\ c[n].starts <=> Unfinished(c, c[n].stream, n - 1, 0)
          /\ c[n].empty => c[n].break = "none"

(* A stream that is not resynchronising holds the unfinished line itself.   *)
ParserOK(st, c) ==
    /\ ~st.torn
    /\ \A s \in Streams :
          IF st.resync[s] THEN st.held[s] = 0
          ELSE Unfinished(c, s, st.lastSequence, st.held[s])

----------------------------------------------------------------------------
(* The renderer.                                                            *)

StreamRecord ==
    [state : {"none", "open", "closed"}, epoch : Nat, lastSequence : Nat, complete : BOOLEAN,
     observed : BOOLEAN, resync : [Streams -> BOOLEAN], held : [Streams -> Nat],
     seen : SUBSET Nat, torn : BOOLEAN]
AckRecord ==
    [epoch : Nat, consumed : Nat, acknowledged : Nat, attempts : Nat,
     scheduled : BOOLEAN, failed : BOOLEAN]
Call == [epoch : Nat, seq : Nat, state : {"sent", "ok", "error"}]
TurnRecord ==
    [status : {"none", "pending", "running"} \cup FinalKinds,
     metrics : {"none", "complete", "incomplete"}]

RendererShape ==
    /\ boundary \in [Tasks -> [Streams -> BOOLEAN]]
    /\ chunk \in [Tasks -> Seq(Chunk)]
    /\ cursor \in [Tasks -> Nat]
    /\ sub \in [epoch : Nat \ {0}, ready : BOOLEAN, run : Subs]
    /\ listener \in [Subs -> [Channels -> {"none", "waiting", "attached", "ready",
                                           "abandoned", "orphan", "gone"}]]
    /\ stream \in [Tasks -> StreamRecord]
    /\ ack \in [Tasks -> AckRecord]
    /\ wire \in [Tasks -> SUBSET Call]
    /\ turn \in [Tasks -> TurnRecord]

(* Only the output listener of the current run can be ready, and it is what *)
(* the subscription says.                                                   *)
SubscriptionOK ==
    /\ sub.ready <=> listener[sub.run]["output"] = "ready"
    /\ \A k \in Subs :
          /\ k > sub.run => listener[k]["output"] = "none"
          /\ k < sub.run => listener[k]["output"] \in {"abandoned", "orphan", "gone"}
    /\ listener[sub.run]["output"] \in {"waiting", "attached", "ready", "gone"}

(* A stream that opened under the current subscription has accepted every   *)
(* chunk that was dispatched, or a later one.  Of the task's c chunks, e    *)
(* was emitted and the first cur of e are dispatched.                       *)
StreamOK(st, c, m, sb, e, cur) ==
    /\ ParserOK(st, c)
    /\ st.lastSequence <= m
    /\ st.state = "none" => st.lastSequence = 0
    /\ st.complete => st.seen = 1..st.lastSequence
    /\ st.epoch <= sb.epoch
    /\ st.epoch = sb.epoch =>
          /\ sb.ready
          /\ st.state = "open" =>
                \A i \in 1..cur : IsOutput(e[i]) => e[i].seq <= st.lastSequence

(* Metrics that say "complete" were taken when nothing was missing, and     *)
(* nothing was accepted since.                                              *)
TurnOK(tn, st, e, m) ==
    /\ tn.metrics = "complete" /\ ~st.observed => st.seen = 1..st.lastSequence
    /\ tn.status \in FinalKinds =>
          /\ st.state = "closed" /\ ~st.observed
          /\ FinalKinds \cap Statuses(e) # {}
          /\ tn.metrics = "complete" => st.seen = 1..m

(* Acknowledgements never run ahead of what was accepted, and no call of an *)
(* earlier subscription passes for one of the present owner.                *)
AckOK(a, last, calls, epoch) ==
    /\ a.acknowledged <= a.consumed
    /\ a.consumed <= last
    /\ a.epoch \in {0, epoch}
    /\ \A w \in calls :
          /\ w.epoch # 0 /\ w.epoch <= epoch
          /\ w.epoch = epoch => a.epoch = epoch
          /\ w.epoch = a.epoch => w.seq <= a.consumed

RendererAt(t) ==
    /\ cursor[t] <= Len(emitted[t])
    /\ Len(chunk[t]) = outputSeq[t] /\ Marked(chunk[t], boundary[t])
    /\ StreamOK(stream[t], chunk[t], outputSeq[t], sub, emitted[t], cursor[t])
    /\ TurnOK(turn[t], stream[t], emitted[t], outputSeq[t])
    /\ AckOK(ack[t], stream[t].lastSequence, wire[t], sub.epoch)

RendererInvariant ==
    RendererShape /\ SubscriptionOK /\ \A t \in Tasks : RendererAt(t)

OutputInvariant == NativeInvariant /\ RendererInvariant

----------------------------------------------------------------------------
(* The ring, and the newest chunk.                                          *)

(* A batch and the rest of the queue hold what the queue held.              *)
LEMMA TakeAllOuts ==
  ASSUME NEW q \in Seq(Event), NEW n \in 0..Len(q)
  PROVE  Outs(q) \subseteq Outs(SubSeq(q, 1, n)) \cup Outs(SubSeq(q, n + 1, Len(q)))
  <1> DEFINE b == SubSeq(q, 1, n)
             r == SubSeq(q, n + 1, Len(q))
  <1>1. /\ Len(b) = n /\ \A i \in 1..n : b[i] = q[i]
        /\ Len(r) = Len(q) - n /\ \A i \in 1..(Len(q) - n) : r[i] = q[n + i]
        /\ Len(q) \in Nat
    BY SplitPositions, LenProperties
  <1> HIDE DEF b, r
  <1>2. ASSUME NEW i \in 1..Len(q), IsOutput(q[i]) PROVE q[i].seq \in Outs(b) \cup Outs(r)
    <2>1. CASE i <= n
      <3>1. i \in 1..Len(b) /\ b[i] = q[i]
        BY <1>1, <2>1
      <3> QED BY <1>2, <3>1 DEF Outs
    <2>2. CASE ~(i <= n)
      <3>1. i - n \in 1..Len(r) /\ n + (i - n) = i
        BY <1>1, <2>2
      <3>2. r[i - n] = q[i]
        BY <1>1, <3>1
      <3> QED BY <1>2, <3>1, <3>2 DEF Outs
    <2> QED BY <2>1, <2>2
  <1>3. Outs(q) \subseteq Outs(b) \cup Outs(r)
    BY <1>2 DEF Outs
  <1> QED BY <1>3 DEF b, r

(* The chunk that is pushed is in the ring.                                 *)
LEMMA RingGains ==
  ASSUME NEW q \in Seq(Event), NEW e \in Event, IsOutput(e)
  PROVE  e.seq \in Outs(push_queued(q, e))
  <1> DEFINE r == IF Len(q) >= MaxQueued THEN RemoveFirstMatch(q, IsOutput) ELSE q
  <1>1. r \in Seq(Event)
    <2>1. CASE Len(q) >= MaxQueued /\ \E i \in 1..Len(q) : IsOutput(q[i])
      <3> DEFINE I == {i \in 1..Len(q) : IsOutput(q[i])}
      <3>1. I \in SUBSET Nat /\ I # {} /\ I \subseteq 1..Len(q)
        BY <2>1
      <3>2. Min(I) \in 1..Len(q)
        BY <3>1, LeastPosition
      <3>3. r = RemoveAt(q, Min(I))
        BY <2>1, <3>1 DEF RemoveFirstMatch, SelectInSeq
      <3> QED BY <3>2, <3>3, RemoveAtOuts
    <2>2. CASE ~(Len(q) >= MaxQueued /\ \E i \in 1..Len(q) : IsOutput(q[i]))
      BY <2>2 DEF RemoveFirstMatch
    <2> QED BY <2>1, <2>2
  <1>2. push_queued(q, e) = Append(r, e)
    BY DEF push_queued
  <1> HIDE DEF r
  <1> QED BY <1>1, <1>2, AppendOuts

TwoOutputs(q) == \E i, j \in 1..Len(q) : i < j /\ IsOutput(q[i]) /\ IsOutput(q[j])

(* A full ring that holds two chunks drops one that is not the newest.      *)
LEMMA RingKeeps ==
  ASSUME NEW q \in Seq(Event), NEW e \in Event, NEW m \in Outs(q),
         Sorted(q), \A x \in Outs(q) : x <= m, Len(q) >= MaxQueued => TwoOutputs(q)
  PROVE  m \in Outs(push_queued(q, e))
  <1> DEFINE r == IF Len(q) >= MaxQueued THEN RemoveFirstMatch(q, IsOutput) ELSE q
  <1>0. Len(q) \in Nat /\ \A i \in 1..Len(q) : q[i] \in Event
    BY LenProperties, ElementOfSeq
  <1>1. r \in Seq(Event) /\ m \in Outs(r)
    <2>1. CASE Len(q) >= MaxQueued
      <3> DEFINE I == {i \in 1..Len(q) : IsOutput(q[i])}
                 k == Min(I)
      <3>1. PICK i \in 1..Len(q), j \in 1..Len(q) : i < j /\ IsOutput(q[i]) /\ IsOutput(q[j])
        BY <2>1 DEF TwoOutputs
      <3>2. I \in SUBSET Nat /\ I # {} /\ I \subseteq 1..Len(q)
        BY <3>1
      <3>3. k \in I /\ k \in 1..Len(q) /\ \A y \in I : k <= y
        BY <3>2, LeastPosition
      <3>4. r = RemoveAt(q, k)
        BY <2>1, <3>2 DEF RemoveFirstMatch, SelectInSeq
      <3>5. k <= i /\ IsOutput(q[k])
        BY <3>1, <3>3
      <3> HIDE DEF I, k, r
      <3>6. r \in Seq(Event) /\ \E f : AllBut(k, f, r, q)
        BY <3>3, <3>4, RemoveAtPositions
      <3>7. PICK f : AllBut(k, f, r, q)
        BY <3>6
      <3>8. PICK p \in 1..Len(q) : IsOutput(q[p]) /\ q[p].seq = m
        BY DEF Outs
      <3>9. p # k
        <4>1. q[k].seq < q[j].seq
          BY <1>0, <3>1, <3>3, <3>5 DEF Sorted
        <4>2. q[j].seq \in Outs(q) /\ q[j].seq \in Nat /\ q[k].seq \in Nat
          BY <1>0, <3>1, <3>3 DEF Outs, Event
        <4>3. q[j].seq <= m /\ m \in Nat
          BY <1>0, <3>8, <4>2 DEF Event
        <4> QED BY <3>8, <4>1, <4>2, <4>3
      <3>10. PICK x \in 1..Len(r) : f[x] = p
        BY <3>7, <3>9 DEF AllBut
      <3>11. r[x] = q[p]
        BY <3>7, <3>10 DEF AllBut
      <3> QED BY <3>6, <3>8, <3>10, <3>11 DEF Outs
    <2>2. CASE ~(Len(q) >= MaxQueued)
      BY <2>2
    <2> QED BY <2>1, <2>2
  <1>2. push_queued(q, e) = Append(r, e)
    BY DEF push_queued
  <1> HIDE DEF r
  <1>3. Outs(Append(r, e)) = Outs(r) \cup (IF IsOutput(e) THEN {e.seq} ELSE {})
    BY <1>1, AppendOuts
  <1> QED BY <1>1, <1>2, <1>3

(* Of three events of a task that has not completed, two are chunks: there  *)
(* is only one Running status.  This is why the ring must hold three.       *)
LEMMA RunningOnlyOnce ==
  ASSUME NEW q \in Seq(Event), Tidy(q), Statuses(q) \subseteq {"running"}, Len(q) >= MaxQueued
  PROVE  TwoOutputs(q)
  <1>0. Len(q) \in Nat /\ Len(q) >= 3 /\ \A i \in 1..Len(q) : q[i] \in Event
    BY LenProperties, ElementOfSeq, BoundsAssumption
  <1>1. 1 \in 1..Len(q) /\ 2 \in 1..Len(q) /\ 3 \in 1..Len(q)
    BY <1>0
  <1>2. \A i \in 1..Len(q) : IsOutput(q[i]) \/ q[i].kind = "running"
    BY DEF Statuses, IsOutput
  <1>3. \A i, j \in 1..Len(q) : i < j => IsOutput(q[i]) \/ IsOutput(q[j])
    BY <1>2 DEF Tidy
  <1>4. (IsOutput(q[1]) \/ IsOutput(q[2])) /\ (IsOutput(q[2]) \/ IsOutput(q[3]))
        /\ (IsOutput(q[1]) \/ IsOutput(q[3]))
    <2>1. 1 < 2 /\ 2 < 3 /\ 1 < 3
      OBVIOUS
    <2> QED BY <1>1, <1>3, <2>1
  <1>5. CASE IsOutput(q[1]) /\ IsOutput(q[2])
    BY <1>1, <1>5 DEF TwoOutputs
  <1>6. CASE IsOutput(q[1]) /\ IsOutput(q[3])
    BY <1>1, <1>6 DEF TwoOutputs
  <1>7. CASE IsOutput(q[2]) /\ IsOutput(q[3])
    BY <1>1, <1>7 DEF TwoOutputs
  <1> QED BY <1>4, <1>5, <1>6, <1>7

(* complete queues the terminal status, after the Running status when that  *)
(* is missing: the newest chunk survives both.                              *)
LEMMA CompletionKeeps ==
  ASSUME NEW q \in Seq(Event), NEW ph, NEW r \in Event, r.kind = "running", r.seq = 1,
         NEW y \in Event, NEW m \in Outs(q),
         Sorted(q), \A x \in Outs(q) : x <= m,
         Tidy(q), Statuses(q) \subseteq {"running"}, ph = "Pending" => Statuses(q) = {}
  PROVE  m \in Outs(push_queued(RunningFirst(ph, q, r), y))
  <1>1. CASE ph = "Pending"
    <2> DEFINE w == push_queued(q, r)
    <2>1. ~IsOutput(r) /\ Numbered(r) /\ StatusOf(r) = {"running"}
      BY DEF IsOutput, OutputKinds, Numbered, StatusOf
    <2>2. /\ w \in Seq(Event) /\ Tidy(w) /\ Statuses(w) = {"running"}
      BY <1>1, <2>1, PushTidy
    <2>3. Outs(w) \subseteq Outs(q) /\ Sorted(w)
      BY <2>1, PushOuts
    <2>4. m \in Outs(w)
      BY RunningOnlyOnce, RingKeeps
    <2>5. RunningFirst(ph, q, r) = w
      BY <1>1 DEF RunningFirst
    <2> HIDE DEF w
    <2>6. m \in Outs(push_queued(w, y))
      BY <2>2, <2>3, <2>4, RunningOnlyOnce, RingKeeps
    <2> QED BY <2>5, <2>6
  <1>2. CASE ph # "Pending"
    <2>1. RunningFirst(ph, q, r) = q
      BY <1>2 DEF RunningFirst
    <2> QED BY <2>1, RunningOnlyOnce, RingKeeps
  <1> QED BY <1>1, <1>2

----------------------------------------------------------------------------
(* Every native step keeps the newest chunk, and the end of the stream.     *)

NativeKept == \A x \in Tasks : NativeAt(x)'

(* A step that leaves a task's events where they are.                       *)
LEMMA NativeUntouched ==
  ASSUME NEW x \in Tasks, NativeAt(x), emitted'[x] = emitted[x], Batch(x)' = Batch(x),
         queued'[x] = queued[x], outputSeq'[x] = outputSeq[x],
         acknowledged[x] => acknowledged'[x]
  PROVE  NativeAt(x)'
  BY DEF NativeAt, NewestAt, NewestKept, EndsLast, NothingEarly

(* A status is handed to the sink.                                          *)
LEMMA StatusNative ==
  ASSUME NEW s \in Seq(Event), NEW e \in Event, ~IsOutput(e), EndsLast(s)
  PROVE  EndsLast(Append(s, e)) /\ Outs(Append(s, e)) = Outs(s)
  <1> DEFINE r == Append(s, e)
  <1>1. /\ Len(r) = Len(s) + 1 /\ Len(s) \in Nat
        /\ \A i \in 1..Len(s) : r[i] = s[i]
        /\ r[Len(s) + 1] = e
    BY AppendProperties, LenProperties
  <1> HIDE DEF r
  <1>2. ASSUME NEW i \in 1..Len(r), NEW j \in 1..Len(r), r[i].kind = "terminal", IsOutput(r[j])
        PROVE  j < i
    <2>1. j # Len(s) + 1
      BY <1>1, <1>2
    <2>2. j \in 1..Len(s) /\ r[j] = s[j]
      BY <1>1, <2>1
    <2>3. CASE i = Len(s) + 1
      BY <1>1, <2>2, <2>3
    <2>4. CASE i # Len(s) + 1
      <3>1. i \in 1..Len(s) /\ r[i] = s[i]
        BY <1>1, <2>4
      <3> QED BY <1>2, <2>2, <3>1 DEF EndsLast
    <2> QED BY <2>3, <2>4
  <1>3. EndsLast(r)
    BY <1>2 DEF EndsLast
  <1> QED BY <1>3, AppendOuts DEF r

(* A chunk is handed to the sink while there was no terminal status.        *)
LEMMA ChunkNative ==
  ASSUME NEW s \in Seq(Event), NEW e \in Event, IsOutput(e), "terminal" \notin Statuses(s)
  PROVE  EndsLast(Append(s, e))
  <1> DEFINE r == Append(s, e)
  <1>1. /\ Len(r) = Len(s) + 1 /\ Len(s) \in Nat
        /\ \A i \in 1..Len(s) : r[i] = s[i]
        /\ r[Len(s) + 1] = e
    BY AppendProperties, LenProperties
  <1> HIDE DEF r
  <1>2. ASSUME NEW i \in 1..Len(r) PROVE r[i].kind # "terminal"
    <2>1. CASE i = Len(s) + 1
      BY <1>1, <2>1 DEF IsOutput, OutputKinds
    <2>2. CASE i # Len(s) + 1
      <3>1. i \in 1..Len(s) /\ r[i] = s[i]
        BY <1>1, <2>2
      <3> QED BY <3>1 DEF Statuses, OutputKinds
    <2> QED BY <2>1, <2>2
  <1> QED BY <1>2 DEF EndsLast, r

(* What the steps below start from.                                         *)
LEMMA NativeFacts ==
  ASSUME NativeInvariant
  PROVE  /\ DeliveryInvariant /\ Shape /\ BatchHeld
         /\ \A t \in Tasks :
               /\ TaskOrderAt(t) /\ LedgerAt(t) /\ Counted(t) /\ NativeAt(t)
               /\ emitted[t] \in Seq(Event) /\ queued[t] \in Seq(Event) /\ Batch(t) \in Seq(Event)
               /\ outputSeq[t] \in Nat /\ statusSeq[t] \in Nat /\ MaxOutputs[t] \in Nat
  BY DeliveryFacts, BoundsAssumption DEF NativeInvariant, TaskOK

(* Every chunk of the ring is taken, or stays in it.                        *)
LEMMA TakingNative ==
  ASSUME Shape, NEW t \in Tasks, NEW q \in Seq(Event), NEW n \in 0..Len(q), NEW m,
         NewestKept(emitted[t], <<>>, q, m), EndsLast(emitted[t]), m <= MaxOutputs[t],
         take_ready_events(t, q, n), order'.task = t, order'.batch = SubSeq(q, 1, n),
         acknowledged'[t] = TRUE, outputSeq'[t] = m, emitted' = emitted
  PROVE  NativeAt(t)'
  <1>1. Batch(t)' = SubSeq(q, 1, n) /\ queued'[t] = SubSeq(q, n + 1, Len(q))
    BY DEF Batch, take_ready_events, Shape
  <1>2. m > 0 => m \in Outs(emitted[t]) \cup Outs(SubSeq(q, 1, n)) \cup Outs(SubSeq(q, n + 1, Len(q)))
    BY TakeAllOuts, EmptyOuts DEF NewestKept
  <1>3. NewestAt(t)'
    BY <1>1, <1>2 DEF NewestAt, NewestKept
  <1> QED BY <1>3 DEF NativeAt, EndsLast, NothingEarly

LEMMA PublishNative ==
  ASSUME NativeInvariant, NEW t \in Tasks, NEW kind \in OutputKinds, publish(t, kind)
  PROVE  NativeKept
  <1> DEFINE m == outputSeq[t] + 1
             e == [kind |-> kind, seq |-> m]
             q == push_queued(queued[t], e)
  <1>0. /\ Shape /\ BatchHeld
        /\ \A x \in Tasks : NativeAt(x)
        /\ emitted[t] \in Seq(Event) /\ queued[t] \in Seq(Event) /\ outputSeq[t] \in Nat
        /\ MaxOutputs[t] \in Nat
    BY NativeFacts
  <1>1. /\ OrderFree /\ outputSeq[t] < MaxOutputs[t]
        /\ outputSeq' = [outputSeq EXCEPT ![t] = m]
        /\ UNCHANGED <<acknowledged, emitted>>
    BY DEF publish
  <1>2. e \in Event /\ IsOutput(e) /\ e.seq = m /\ m <= MaxOutputs[t]
        /\ outputSeq'[t] = m /\ \A x \in Tasks : x # t => outputSeq'[x] = outputSeq[x]
    BY <1>0, <1>1 DEF Event, IsOutput, Shape
  <1>3. \A x \in Tasks : Batch(x) = <<>>
    BY <1>0, <1>1, NoBatch
  <1> HIDE DEF e
  <1>4. q \in Seq(Event) /\ m \in Outs(q)
    BY <1>0, <1>2, PushOuts, RingGains
  <1>5. NewestKept(emitted[t], <<>>, q, m) /\ EndsLast(emitted[t])
    BY <1>0, <1>4 DEF NewestKept, NativeAt
  <1>6. CASE acknowledged[t] /\ ~flushing[t]
    <2>1. PICK n \in 0..Len(q) :
             /\ take_ready_events(t, q, n)
             /\ order' = [by |-> "pump", task |-> t, stage |-> "emit", batch |-> SubSeq(q, 1, n)]
      BY <1>6 DEF publish, q, e, m
    <2> HIDE DEF q, m
    <2>2. order'.task = t /\ order'.batch = SubSeq(q, 1, n) /\ acknowledged'[t] = TRUE
      BY <1>0, <1>1, <1>6, <2>1 DEF Shape
    <2>3. NativeAt(t)'
      BY <1>0, <1>1, <1>2, <1>4, <1>5, <2>1, <2>2, TakingNative
    <2>4. ASSUME NEW x \in Tasks, x # t PROVE NativeAt(x)'
      <3>1. Batch(x)' = Batch(x) /\ queued'[x] = queued[x]
        BY <1>0, <1>3, <2>1, <2>2, <2>4 DEF Batch, take_ready_events, Shape
      <3> QED BY <1>0, <1>1, <1>2, <2>4, <3>1, NativeUntouched
    <2> QED BY <2>3, <2>4 DEF NativeKept
  <1>7. CASE ~(acknowledged[t] /\ ~flushing[t])
    <2>1. queued' = [queued EXCEPT ![t] = q] /\ UNCHANGED <<outstanding, order>>
      BY <1>7 DEF publish, q, e, m
    <2> HIDE DEF q, m
    <2>2. \A x \in Tasks : Batch(x)' = Batch(x)
      BY <2>1 DEF Batch
    <2>3. queued'[t] = q
      BY <1>0, <2>1 DEF Shape
    <2>4. NewestAt(t)'
      BY <1>1, <1>2, <1>3, <1>5, <2>2, <2>3 DEF NewestAt
    <2>5. NativeAt(t)'
      BY <1>0, <1>1, <1>2, <2>2, <2>4 DEF NativeAt, EndsLast, NothingEarly
    <2>6. ASSUME NEW x \in Tasks, x # t PROVE NativeAt(x)'
      <3>1. queued'[x] = queued[x]
        BY <1>0, <2>1, <2>6 DEF Shape
      <3> QED BY <1>0, <1>1, <1>2, <2>2, <2>6, <3>1, NativeUntouched
    <2> QED BY <2>5, <2>6 DEF NativeKept
  <1> QED BY <1>6, <1>7

LEMMA AcknowledgeNative ==
  ASSUME NativeInvariant, NEW t \in Tasks, acknowledge(t)
  PROVE  NativeKept
  <1> DEFINE running == [kind |-> "running", seq |-> statusSeq[t] + 1]
             q == IF phase[t] = "Pending" THEN Append(queued[t], running) ELSE queued[t]
  <1>0. /\ Shape /\ BatchHeld
        /\ \A x \in Tasks : NativeAt(x)
        /\ queued[t] \in Seq(Event) /\ statusSeq[t] \in Nat
    BY NativeFacts
  <1>1. /\ OrderFree
        /\ acknowledged' = [acknowledged EXCEPT ![t] = TRUE]
        /\ UNCHANGED <<outputSeq, emitted>>
    BY DEF acknowledge
  <1>2. PICK n \in 0..Len(q) :
           /\ take_ready_events(t, q, n)
           /\ order' = [by |-> "ack", task |-> t, stage |-> "emit", batch |-> SubSeq(q, 1, n)]
    BY DEF acknowledge
  <1>3. \A x \in Tasks : Batch(x) = <<>>
    BY <1>0, <1>1, NoBatch
  <1>4. q \in Seq(Event) /\ Outs(queued[t]) = Outs(q)
    <2>1. running \in Event /\ ~IsOutput(running)
      BY <1>0 DEF Event, IsOutput, OutputKinds
    <2> HIDE DEF running
    <2> QED BY <1>0, <2>1, AppendOuts
  <1> HIDE DEF q
  <1>5. order'.task = t /\ order'.batch = SubSeq(q, 1, n) /\ acknowledged'[t] = TRUE
    BY <1>0, <1>1, <1>2 DEF Shape
  <1>6. NativeAt(t)'
    <2>1. NewestKept(emitted[t], <<>>, q, outputSeq[t])
      BY <1>0, <1>3, <1>4 DEF NewestKept, NativeAt, NewestAt
    <2> QED BY <1>0, <1>1, <1>2, <1>4, <1>5, <2>1, TakingNative DEF NativeAt
  <1>7. ASSUME NEW x \in Tasks, x # t PROVE NativeAt(x)'
    <2>1. Batch(x)' = Batch(x) /\ queued'[x] = queued[x] /\ acknowledged'[x] = acknowledged[x]
      BY <1>0, <1>1, <1>2, <1>3, <1>5, <1>7 DEF Batch, take_ready_events, Shape
    <2> QED BY <1>0, <1>1, <1>7, <2>1, NativeUntouched
  <1> QED BY <1>6, <1>7 DEF NativeKept

LEMMA EmitNative ==
  ASSUME NativeInvariant, emit_queued_event
  PROVE  NativeKept
  <1>0. /\ Shape
        /\ \A x \in Tasks : NativeAt(x) /\ LedgerAt(x) /\ emitted[x] \in Seq(Event)
                            /\ Batch(x) \in Seq(Event)
    BY NativeFacts
  <1>1. PICK t \in Tasks : t = order.task
    BY <1>0 DEF Shape, OrderState
  <1>2. /\ Batch(t) = order.batch /\ order.batch # <<>>
        /\ emitted' = [emitted EXCEPT ![t] = Append(emitted[t], Head(order.batch))]
        /\ order' = [order EXCEPT !.batch = Tail(order.batch)]
        /\ UNCHANGED <<acknowledged, queued, outputSeq>>
    BY <1>1 DEF emit_queued_event, Batch, entryVars
  <1>3. order'.task = t /\ order'.batch = Tail(order.batch)
    BY <1>0, <1>1, <1>2 DEF Shape, OrderState
  <1>4. Batch(t)' = Tail(Batch(t)) /\ emitted'[t] = Append(emitted[t], Head(Batch(t)))
    BY <1>0, <1>2, <1>3 DEF Shape, Batch
  <1> DEFINE h == Head(Batch(t))
  <1>5. /\ h \in Event
        /\ Outs(Batch(t)) = Outs(Tail(Batch(t))) \cup (IF IsOutput(h) THEN {h.seq} ELSE {})
    BY <1>0, <1>2, TailOuts
  <1> HIDE DEF h
  <1>6. Outs(emitted'[t]) = Outs(emitted[t]) \cup (IF IsOutput(h) THEN {h.seq} ELSE {})
    BY <1>0, <1>4, <1>5, AppendOuts DEF h
  <1>7. EndsLast(emitted'[t])
    <2>1. CASE IsOutput(h)
      <3>1. "terminal" \notin Statuses(emitted[t])
        BY <1>0, <1>2 DEF LedgerAt, Ledger
      <3> QED BY <1>0, <1>4, <1>5, <2>1, <3>1, ChunkNative DEF h
    <2>2. CASE ~IsOutput(h)
      BY <1>0, <1>4, <1>5, <2>2, StatusNative DEF h, NativeAt
    <2> QED BY <2>1, <2>2
  <1>8. NativeAt(t)'
    <2>1. NativeAt(t)
      BY <1>0
    <2>2. NewestAt(t)'
      BY <1>2, <1>4, <1>5, <1>6, <2>1 DEF NativeAt, NewestAt, NewestKept
    <2>3. NothingEarly(emitted'[t], Batch(t)', acknowledged'[t])
      BY <1>2, <1>4, <1>5, <1>6, <2>1 DEF NativeAt, NothingEarly
    <2> QED BY <1>2, <1>7, <2>1, <2>2, <2>3 DEF NativeAt
  <1>9. ASSUME NEW x \in Tasks, x # t PROVE NativeAt(x)'
    <2>1. emitted'[x] = emitted[x] /\ Batch(x)' = Batch(x)
      BY <1>0, <1>1, <1>2, <1>3, <1>9 DEF Shape, Batch
    <2> QED BY <1>0, <1>2, <2>1, NativeUntouched
  <1> QED BY <1>8, <1>9 DEF NativeKept

LEMMA DrainNative ==
  ASSUME NativeInvariant, drain_acknowledgement
  PROVE  NativeKept
  <1>0. /\ Shape /\ BatchHeld
        /\ \A x \in Tasks : NativeAt(x) /\ queued[x] \in Seq(Event)
    BY NativeFacts
  <1>1. PICK t \in Tasks : t = order.task
    BY <1>0 DEF Shape, OrderState
  <1>2. UNCHANGED <<acknowledged, outputSeq, emitted>> /\ \A x \in Tasks : Batch(x) = <<>>
    <2>1. \A x \in Tasks : Batch(x) = <<>>
      BY <1>0, NoBatch DEF drain_acknowledgement
    <2> QED BY <2>1 DEF drain_acknowledgement, entryVars
  <1>3. CASE life[t] # "live" \/ ~acknowledged[t]
    <2>1. Release /\ UNCHANGED queued
      BY <1>1, <1>3 DEF drain_acknowledgement, entryVars
    <2>2. order'.batch = order.batch /\ order'.task = t
      BY <1>0, <1>1, <2>1 DEF Release, Shape, OrderState
    <2>3. \A x \in Tasks : Batch(x)' = Batch(x)
      BY <1>1, <2>2 DEF Batch
    <2> QED BY <1>0, <1>2, <2>1, <2>3, NativeUntouched DEF NativeKept
  <1>4. CASE ~(life[t] # "live" \/ ~acknowledged[t])
    <2>1. PICK n \in 0..Len(queued[t]) :
             /\ take_ready_events(t, queued[t], n)
             /\ n > 0 => order' = [order EXCEPT !.stage = "emit",
                                         !.batch = SubSeq(queued[t], 1, n)]
             /\ ~(n > 0) => Release
      BY <1>1, <1>4 DEF drain_acknowledgement
    <2>2. order'.task = t /\ order'.batch = SubSeq(queued[t], 1, n)
      <3>1. CASE n > 0
        BY <1>0, <1>1, <2>1, <3>1 DEF Shape, OrderState
      <3>2. CASE ~(n > 0)
        <4>1. n = 0 /\ SubSeq(queued[t], 1, n) = <<>>
          BY <1>0, <3>2, SubSeqEmpty
        <4>2. order.batch = <<>>
          BY <1>0 DEF BatchHeld, drain_acknowledgement
        <4> QED BY <1>0, <1>1, <2>1, <3>2, <4>1, <4>2 DEF Release, Shape, OrderState
      <3> QED BY <3>1, <3>2
    <2>3. acknowledged'[t] = TRUE /\ outputSeq'[t] = outputSeq[t]
      BY <1>0, <1>2, <1>4 DEF Shape
    <2>4. NativeAt(t)'
      <3>1. NewestKept(emitted[t], <<>>, queued[t], outputSeq[t]) /\ EndsLast(emitted[t])
            /\ outputSeq[t] <= MaxOutputs[t]
        BY <1>0, <1>2 DEF NativeAt, NewestAt
      <3>2. take_ready_events(t, queued[t], n) /\ emitted' = emitted
        BY <1>2, <2>1
      <3> QED BY <1>0, <2>2, <2>3, <3>1, <3>2, TakingNative
    <2>5. ASSUME NEW x \in Tasks, x # t PROVE NativeAt(x)'
      <3>1. Batch(x)' = Batch(x) /\ queued'[x] = queued[x]
        BY <1>0, <1>2, <2>1, <2>2, <2>5 DEF Batch, take_ready_events, Shape
      <3> QED BY <1>0, <1>2, <3>1, NativeUntouched
    <2> QED BY <2>4, <2>5 DEF NativeKept
  <1> QED BY <1>3, <1>4

LEMMA CompleteNative ==
  ASSUME NativeInvariant, NEW t \in Tasks, complete(t)
  PROVE  NativeKept
  <1> DEFINE x == [kind |-> "running", seq |-> statusSeq[t] + 1]
             y == [kind |-> "terminal",
                   seq |-> IF phase[t] = "Pending" /\ ~EmitsDirectly(t)
                           THEN statusSeq[t] + 2 ELSE statusSeq[t] + 1]
  <1>0. /\ Shape /\ \A z \in Tasks : NativeAt(z)
        /\ TaskOrderAt(t) /\ LedgerAt(t) /\ Counted(t)
        /\ queued[t] \in Seq(Event) /\ statusSeq[t] \in Nat /\ outputSeq[t] \in Nat
    BY NativeFacts
  <1>1. /\ phase[t] # "Terminal"
        /\ UNCHANGED <<emitted, order, outputSeq, acknowledged>>
        /\ queued' = [queued EXCEPT ![t] = IF EmitsDirectly(t) THEN queued[t]
                                           ELSE push_queued(WithRunning(t, queued[t]), y)]
    BY DEF complete
  <1>2. \A z \in Tasks : Batch(z)' = Batch(z)
    BY <1>1 DEF Batch
  <1>3. Outs(queued[t]) \subseteq Outs(queued'[t]) \/ \A m \in Outs(queued[t]) :
           (\A z \in Outs(queued[t]) : z <= m) => m \in Outs(queued'[t])
    <2>1. CASE EmitsDirectly(t)
      BY <1>0, <1>1, <2>1 DEF Shape
    <2>2. CASE ~EmitsDirectly(t)
      <3>1. y \in Event
        BY <1>0 DEF Event, FinalKinds
      <3>2. Tidy(queued[t]) /\ Statuses(queued[t]) \subseteq {"running"}
            /\ (phase[t] = "Pending" => Statuses(queued[t]) = {})
        <4>1. Statuses(queued[t]) \subseteq {"running", "terminal", "lost"}
          <5>1. \A i \in 1..Len(queued[t]) : queued[t][i] \in Event
            BY <1>0, ElementOfSeq
          <5> QED BY <5>1 DEF Statuses, Event, OutputKinds, FinalKinds
        <4>2. Statuses(queued[t]) \cap FinalKinds = {} /\ Tidy(queued[t])
              /\ (phase[t] = "Pending" => Statuses(queued[t]) = {})
          BY <1>0, <1>1 DEF LedgerAt, Ledger
        <4> QED BY <4>1, <4>2 DEF FinalKinds
      <3>3. Sorted(queued[t])
        BY <1>0 DEF TaskOrderAt, TaskOrder
      <3> DEFINE r == [kind |-> "running", seq |-> 1]
      <3>4. r \in Event /\ r.kind = "running" /\ r.seq = 1
        BY DEF Event
      <3>5. WithRunning(t, queued[t]) = RunningFirst(phase[t], queued[t], r)
        BY <1>0 DEF WithRunning, RunningFirst, Counted
      <3> HIDE DEF r, y
      <3>6. queued'[t] = push_queued(RunningFirst(phase[t], queued[t], r), y)
        BY <1>0, <1>1, <2>2, <3>5 DEF Shape
      <3> QED BY <1>0, <3>1, <3>2, <3>3, <3>4, <3>6, CompletionKeeps
    <2> QED BY <2>1, <2>2
  <1>4. \A z \in Outs(queued[t]) : z <= outputSeq[t]
    BY <1>0 DEF TaskOrderAt, TaskOrder
  <1>5. NewestAt(t)'
    BY <1>0, <1>1, <1>2, <1>3, <1>4 DEF NewestAt, NewestKept, NativeAt
  <1>6. NativeAt(t)'
    BY <1>0, <1>1, <1>2, <1>5 DEF NativeAt
  <1>7. ASSUME NEW z \in Tasks, z # t PROVE NativeAt(z)'
    <2>1. queued'[z] = queued[z]
      BY <1>0, <1>1, <1>7 DEF Shape
    <2> QED BY <1>0, <1>1, <1>2, <2>1, NativeUntouched
  <1> QED BY <1>6, <1>7 DEF NativeKept

(* A waiter hands over a status of task x.                                  *)
LEMMA WaiterEmits ==
  ASSUME NativeInvariant, NEW x \in Tasks, NEW e \in Event, ~IsOutput(e),
         emitted' = [emitted EXCEPT ![x] = Append(emitted[x], e)],
         UNCHANGED <<entryVars, order>>
  PROVE  NativeKept
  <1>0. /\ Shape /\ \A z \in Tasks : NativeAt(z)
        /\ emitted[x] \in Seq(Event)
    BY NativeFacts
  <1>1. UNCHANGED <<queued, outputSeq, acknowledged, order>>
    BY DEF entryVars
  <1>2. \A z \in Tasks : Batch(z)' = Batch(z)
    BY <1>1 DEF Batch
  <1>3. emitted'[x] = Append(emitted[x], e) /\ \A z \in Tasks : z # x => emitted'[z] = emitted[z]
    BY <1>0 DEF Shape
  <1>4. EndsLast(emitted'[x]) /\ Outs(emitted'[x]) = Outs(emitted[x])
    BY <1>0, <1>3, StatusNative DEF NativeAt
  <1>5. NativeAt(x)'
    BY <1>0, <1>1, <1>2, <1>4 DEF NativeAt, NewestAt, NewestKept, NothingEarly
  <1>6. ASSUME NEW z \in Tasks, z # x PROVE NativeAt(z)'
    BY <1>0, <1>1, <1>2, <1>3, <1>6, NativeUntouched
  <1> QED BY <1>5, <1>6 DEF NativeKept

LEMMA InterruptNative ==
  ASSUME NativeInvariant, NEW t \in Tasks, interrupt_delivery(t)
  PROVE  NativeKept
  <1> DEFINE e == [kind |-> "lost", seq |-> statusSeq[t] + 1]
  <1>0. /\ Shape /\ BatchHeld /\ \A z \in Tasks : NativeAt(z)
        /\ statusSeq[t] \in Nat
    BY NativeFacts
  <1>1. OrderFree /\ UNCHANGED <<acknowledged, queued, outputSeq, emitted>>
    BY DEF interrupt_delivery
  <1>2. \A z \in Tasks : Batch(z) = <<>>
    BY <1>0, <1>1, NoBatch
  <1>3. \A z \in Tasks : Outs(Batch(z)') = {}
    <2>1. CASE DeliveryPending(t)
      <3>1. order' = [by |-> "overdue", task |-> t, stage |-> "emit", batch |-> <<e>>]
        BY <2>1 DEF interrupt_delivery
      <3>2. e \in Event /\ ~IsOutput(e)
        BY <1>0 DEF Event, IsOutput, OutputKinds, FinalKinds
      <3>3. Outs(<<e>>) = {}
        BY <3>2 DEF Outs
      <3> QED BY <3>1, <3>3, EmptyOuts DEF Batch
    <2>2. CASE ~DeliveryPending(t)
      <3>1. order' = order
        BY <2>2 DEF interrupt_delivery
      <3> QED BY <1>2, <3>1, EmptyOuts DEF Batch
    <2> QED BY <2>1, <2>2
  <1>4. ASSUME NEW z \in Tasks PROVE NativeAt(z)'
    BY <1>0, <1>1, <1>2, <1>3, EmptyOuts DEF NativeAt, NewestAt, NewestKept, NothingEarly
  <1> QED BY <1>4 DEF NativeKept

(* The other steps neither move an event nor number one.                    *)
LEMMA QuietNative ==
  ASSUME NativeInvariant, UNCHANGED <<queued, outputSeq, acknowledged, emitted>>,
         \/ order' = order
         \/ OrderFree /\ order'.batch = <<>>
         \/ order'.task = order.task /\ order'.batch = order.batch
  PROVE  NativeKept
  <1>1. \A z \in Tasks : Batch(z)' = Batch(z)
    BY NativeFacts, NoBatch DEF Batch
  <1> QED BY <1>1, NativeFacts, NativeUntouched DEF NativeKept

LEMMA NativeStepKeeps == NativeInvariant /\ [Next]_vars => NativeInvariant'
  <1> SUFFICES ASSUME NativeInvariant, [Next]_vars PROVE NativeInvariant'
    OBVIOUS
  <1>0. Shape /\ DeliveryInvariant
    BY NativeFacts
  <1>1. DeliveryInvariant'
    BY <1>0, DeliveryStep
  <1>2. ASSUME Holder PROVE NativeKept
    <2>1. CASE finish_batch
      <3>1. order'.task = order.task /\ order'.batch = order.batch
        BY <1>0, <2>1 DEF finish_batch, Release, Shape, OrderState
      <3> QED BY <2>1, <3>1, QuietNative DEF finish_batch, entryVars
    <2> QED BY <1>2, <2>1, EmitNative, DrainNative DEF Holder
  <1>3. ASSUME NEW t \in Tasks, Waiter(t) PROVE NativeKept
    <2>1. ASSUME NEW x \in Tasks, emit_expired(t, x) PROVE NativeKept
      <3> DEFINE e == [kind |-> "lost", seq |-> statusSeq[x] + 1]
      <3>1. e \in Event /\ ~IsOutput(e)
        BY <1>0 DEF Event, IsOutput, OutputKinds, FinalKinds, Shape
      <3>2. emitted' = [emitted EXCEPT ![x] = Append(emitted[x], e)] /\ UNCHANGED <<entryVars, order>>
        BY <2>1 DEF emit_expired
      <3> HIDE DEF e
      <3> QED BY <3>1, <3>2, WaiterEmits
    <2>2. CASE emit_direct(t)
      <3> DEFINE e == [kind |-> "terminal", seq |-> statusSeq[t]]
      <3>1. e \in Event /\ ~IsOutput(e)
        BY <1>0 DEF Event, IsOutput, OutputKinds, FinalKinds, Shape
      <3>2. emitted' = [emitted EXCEPT ![t] = Append(emitted[t], e)] /\ UNCHANGED <<entryVars, order>>
        BY <2>2 DEF emit_direct
      <3> HIDE DEF e
      <3> QED BY <3>1, <3>2, WaiterEmits
    <2>3. CASE complete_drain(t)
      <3>1. UNCHANGED <<queued, outputSeq, acknowledged, emitted>>
        BY <2>3 DEF complete_drain, entryVars
      <3>2. order' = order \/ (OrderFree /\ order'.batch = <<>>)
        BY <2>3 DEF complete_drain
      <3> QED BY <3>1, <3>2, QuietNative
    <2>4. CASE poll_delivered(t) \/ poll_deadline(t)
      BY <2>4, QuietNative DEF poll_delivered, poll_deadline, entryVars
    <2> QED BY <1>3, <2>1, <2>2, <2>3, <2>4, CompleteNative, InterruptNative DEF Waiter
  <1>4. ASSUME NEW t \in Tasks, start(t) \/ commit_start(t) \/ abandon_start(t) PROVE NativeKept
    <2>1. UNCHANGED <<queued, outputSeq, acknowledged, emitted, order>>
      BY <1>4 DEF start, commit_start, abandon_start, entryVars
    <2> QED BY <2>1, QuietNative
  <1>5. ASSUME NEW t \in Tasks, NEW s \in 1..MaxOutputs[t], acknowledge_output(t, s)
        PROVE  NativeKept
    <2>1. OrderFree /\ order'.batch = <<>> /\ UNCHANGED <<queued, outputSeq, acknowledged, emitted>>
      BY <1>5 DEF acknowledge_output
    <2> QED BY <2>1, QuietNative
  <1>6. ASSUME UNCHANGED vars PROVE NativeKept
    <2>1. UNCHANGED <<queued, outputSeq, acknowledged, emitted, order>>
      BY <1>6 DEF vars, entryVars
    <2> QED BY <2>1, QuietNative
  <1>7. NativeKept
    BY <1>2, <1>3, <1>4, <1>5, <1>6, PublishNative, AcknowledgeNative DEF Next
  <1> QED BY <1>1, <1>7 DEF NativeKept, NativeInvariant

LEMMA NativeInit == Init => NativeInvariant
  <1> SUFFICES ASSUME Init PROVE NativeInvariant
    OBVIOUS
  <1>1. DeliveryInvariant
    BY DeliveryInit
  <1>2. ASSUME NEW t \in Tasks PROVE NativeAt(t)
    <2>1. outputSeq[t] = 0 /\ emitted[t] = <<>> /\ Batch(t) = <<>> /\ MaxOutputs[t] \in Nat
      BY BoundsAssumption DEF Init, Batch
    <2> QED BY <2>1, EmptyOuts DEF NativeAt, NewestAt, NewestKept, EndsLast, NothingEarly
  <1> QED BY <1>1, <1>2 DEF NativeInvariant

(* The ring may drop chunks, and never the newest one: while the ring holds *)
(* three events or more, a loss always shows as a gap in the numbers        *)
(* (push_queued, complete_settled).                                         *)
THEOREM NewestChunkSurvives == Spec => [](\A t \in Tasks : NewestAt(t))
  <1>1. NativeInvariant => \A t \in Tasks : NewestAt(t)
    BY DEF NativeInvariant, NativeAt
  <1> QED BY <1>1, NativeInit, NativeStepKeeps, PTL DEF Spec

----------------------------------------------------------------------------
(* Unfinished lines.                                                        *)

LEMMA ChunkFacts ==
  ASSUME NEW c \in Seq(Chunk)
  PROVE  /\ Len(c) \in Nat
         /\ \A i \in 1..Len(c) :
               /\ c[i] \in Chunk /\ c[i].stream \in Streams /\ c[i].starts \in BOOLEAN
               /\ c[i].empty \in BOOLEAN /\ c[i].break \in {"none", "inside", "end"}
  <1>1. Len(c) \in Nat /\ \A i \in 1..Len(c) : c[i] \in Chunk
    BY LenProperties, ElementOfSeq
  <1> QED BY <1>1 DEF Chunk

(* What was published does not change when another chunk follows.           *)
LEMMA UnfinishedAlike ==
  ASSUME NEW c, NEW d, NEW s, NEW m \in Nat, NEW h \in Nat, \A i \in 1..m : d[i] = c[i],
         Unfinished(c, s, m, h)
  PROVE  Unfinished(d, s, m, h)
  <1>1. \A i \in 1..m : Of(d, i, s) <=> Of(c, i, s)
    BY DEF Of
  <1>2. \A i \in 1..m : \A j \in (i + 1)..m : j \in 1..m
    OBVIOUS
  <1>3. CASE h = 0
    <2>1. ASSUME NEW i \in 1..m, Of(d, i, s), \A j \in (i + 1)..m : ~Of(d, j, s)
          PROVE  d[i].break = "end"
      <3>1. Of(c, i, s) /\ \A j \in (i + 1)..m : ~Of(c, j, s)
        BY <1>1, <1>2, <2>1
      <3>2. c[i].break = "end"
        BY <1>3, <3>1 DEF Unfinished
      <3> QED BY <3>2
    <2> QED BY <1>3, <2>1 DEF Unfinished
  <1>4. CASE h # 0
    <2>1. h \in 1..m /\ Of(c, h, s) /\ c[h].break # "end" /\ \A j \in (h + 1)..m : ~Of(c, j, s)
      BY <1>4 DEF Unfinished
    <2>2. Of(d, h, s) /\ d[h].break # "end" /\ \A j \in (h + 1)..m : ~Of(d, j, s)
      BY <1>1, <1>2, <2>1
    <2> QED BY <1>4, <2>1, <2>2 DEF Unfinished
  <1> QED BY <1>3, <1>4

LEMMA UnfinishedAppend ==
  ASSUME NEW c \in Seq(Chunk), NEW x \in Chunk, NEW s, NEW m \in 0..Len(c), NEW h \in Nat
  PROVE  Unfinished(Append(c, x), s, m, h) <=> Unfinished(c, s, m, h)
  <1> DEFINE d == Append(c, x)
  <1>1. Len(c) \in Nat /\ \A i \in 1..Len(c) : d[i] = c[i]
    BY AppendProperties, LenProperties
  <1> HIDE DEF d
  <1>2. m \in Nat /\ \A i \in 1..m : d[i] = c[i]
    BY <1>1
  <1> QED BY <1>2, UnfinishedAlike DEF d

(* A chunk of another stream leaves the line as it is; a chunk of the       *)
(* stream is the end of its line, or ends it.                               *)
LEMMA UnfinishedOther ==
  ASSUME NEW c, NEW s, NEW m \in Nat, NEW h \in Nat, Unfinished(c, s, m, h), ~Of(c, m + 1, s)
  PROVE  Unfinished(c, s, m + 1, h)
  <1>1. \A i \in 1..(m + 1) : i \in 1..m \/ i = m + 1
    OBVIOUS
  <1>2. \A i \in 1..m : \A j \in (i + 1)..(m + 1) : j \in (i + 1)..m \/ j = m + 1
    OBVIOUS
  <1>3. CASE h = 0
    <2>1. ASSUME NEW i \in 1..(m + 1), Of(c, i, s), \A j \in (i + 1)..(m + 1) : ~Of(c, j, s)
          PROVE  c[i].break = "end"
      <3>1. i \in 1..m
        BY <1>1, <2>1
      <3>2. \A j \in (i + 1)..m : ~Of(c, j, s)
        BY <2>1
      <3> QED BY <1>3, <2>1, <3>1, <3>2 DEF Unfinished
    <2> QED BY <1>3, <2>1 DEF Unfinished
  <1>4. CASE h # 0
    <2>1. h \in 1..m /\ Of(c, h, s) /\ c[h].break # "end" /\ \A j \in (h + 1)..m : ~Of(c, j, s)
      BY <1>4 DEF Unfinished
    <2>2. \A j \in (h + 1)..(m + 1) : ~Of(c, j, s)
      BY <1>2, <2>1
    <2> QED BY <1>4, <2>1, <2>2 DEF Unfinished
  <1> QED BY <1>3, <1>4

LEMMA UnfinishedOwn ==
  ASSUME NEW c, NEW s, NEW m \in Nat, Of(c, m + 1, s)
  PROVE  Unfinished(c, s, m + 1, IF c[m + 1].break = "end" THEN 0 ELSE m + 1)
  <1>1. CASE c[m + 1].break = "end"
    <2>1. ASSUME NEW i \in 1..(m + 1), \A j \in (i + 1)..(m + 1) : ~Of(c, j, s)
          PROVE  i = m + 1
      <3>1. i < m + 1 => m + 1 \in (i + 1)..(m + 1)
        OBVIOUS
      <3> QED BY <2>1, <3>1
    <2> QED BY <1>1, <2>1 DEF Unfinished
  <1>2. CASE c[m + 1].break # "end"
    BY <1>2 DEF Unfinished
  <1> QED BY <1>1, <1>2

(* There is an unfinished line, or there is none.                           *)
LEMMA UnfinishedOnce ==
  ASSUME NEW c, NEW s, NEW m \in Nat, NEW h \in Nat \ {0}, Unfinished(c, s, m, h)
  PROVE  ~Unfinished(c, s, m, 0)
  BY DEF Unfinished

(* The chunk before, as the parser's properties know it.                    *)
LEMMA PreviousIsHeld ==
  ASSUME NEW t \in Tasks, chunk[t] \in Seq(Chunk), NEW n \in 1..Len(chunk[t]), NEW h \in Nat \ {0},
         Unfinished(chunk[t], chunk[t][n].stream, n - 1, h)
  PROVE  Previous(t, n) = h
  <1> DEFINE s == chunk[t][n].stream
             same == {i \in 1..(n - 1) : ~chunk[t][i].empty /\ chunk[t][i].stream = s}
  <1>0. n \in Nat /\ n >= 1
    BY ChunkFacts
  <1>1. /\ h \in 1..(n - 1) /\ Of(chunk[t], h, s)
        /\ \A j \in (h + 1)..(n - 1) : ~Of(chunk[t], j, s)
    BY DEF Unfinished
  <1>2. h \in same
    BY <1>1 DEF Of
  <1>3. \A j \in same : j <= h
    <2> SUFFICES ASSUME NEW j \in same, ~(j <= h) PROVE FALSE
      OBVIOUS
    <2>1. j \in (h + 1)..(n - 1)
      BY <1>0, <1>1
    <2> QED BY <1>1, <2>1 DEF Of
  <1>4. same \subseteq Nat
    BY <1>0
  <1>5. Previous(t, n) = IF same = {} THEN 0 ELSE CHOOSE i \in same : \A j \in same : j <= i
    BY DEF Previous
  <1> HIDE DEF same
  <1>6. \A i \in same : (\A j \in same : j <= i) => i = h
    BY <1>2, <1>3, <1>4
  <1>7. (CHOOSE i \in same : \A j \in same : j <= i) = h
    BY <1>2, <1>3, <1>6
  <1> QED BY <1>2, <1>5, <1>7

(* A published chunk says whether it starts a line, and the boundary says   *)
(* it of the next one (publish_output_chunk).                               *)
LEMMA MarkedAppend ==
  ASSUME NEW c \in Seq(Chunk), NEW bound \in [Streams -> BOOLEAN], Marked(c, bound),
         NEW x \in Chunk, x.starts = bound[x.stream], x.empty => x.break = "none",
         NEW bound2 \in [Streams -> BOOLEAN],
         bound2 = IF x.empty THEN bound ELSE [bound EXCEPT ![x.stream] = x.break = "end"]
  PROVE  Marked(Append(c, x), bound2)
  <1> DEFINE d == Append(c, x)
             m == Len(c)
  <1>1. /\ m \in Nat /\ Len(d) = m + 1 /\ d[m + 1] = x /\ \A i \in 1..m : d[i] = c[i]
        /\ d \in Seq(Chunk)
    BY AppendProperties, LenProperties
  <1>2. \A s, k, h : k \in 0..m /\ h \in Nat => (Unfinished(d, s, k, h) <=> Unfinished(c, s, k, h))
    BY UnfinishedAppend
  <1> HIDE DEF d, m
  <1>3. \A s \in Streams : bound[s] <=> Unfinished(d, s, m, 0)
    BY <1>1, <1>2 DEF Marked, m
  <1>4. x.stream \in Streams /\ x.empty \in BOOLEAN /\ x.starts \in BOOLEAN
    BY DEF Chunk
  <1>5. ASSUME NEW s \in Streams PROVE bound2[s] <=> Unfinished(d, s, m + 1, 0)
    <2>1. CASE Of(d, m + 1, s)
      <3>1. ~x.empty /\ s = x.stream
        BY <1>1, <2>1 DEF Of
      <3>2. bound2[s] <=> x.break = "end"
        BY <3>1
      <3>3. Unfinished(d, s, m + 1, IF x.break = "end" THEN 0 ELSE m + 1)
        BY <1>1, <2>1, UnfinishedOwn
      <3>4. x.break # "end" => ~Unfinished(d, s, m + 1, 0)
        BY <1>1, <3>3, UnfinishedOnce
      <3> QED BY <3>2, <3>3, <3>4
    <2>2. CASE ~Of(d, m + 1, s)
      <3>1. bound2[s] = bound[s]
        <4>1. x.empty \/ s # x.stream
          BY <1>1, <2>2 DEF Of
        <4> QED BY <1>4, <4>1
      <3>2. Unfinished(d, s, m, 0) => Unfinished(d, s, m + 1, 0)
        BY <1>1, <2>2, UnfinishedOther
      <3>3. ASSUME Unfinished(d, s, m + 1, 0) PROVE Unfinished(d, s, m, 0)
        <4>1. ASSUME NEW i \in 1..m, Of(d, i, s), \A j \in (i + 1)..m : ~Of(d, j, s)
              PROVE  d[i].break = "end"
          <5>1. \A j \in (i + 1)..(m + 1) : j \in (i + 1)..m \/ j = m + 1
            BY <1>1
          <5>2. \A j \in (i + 1)..(m + 1) : ~Of(d, j, s)
            BY <2>2, <4>1, <5>1
          <5>3. i \in 1..(m + 1)
            BY <1>1
          <5> QED BY <3>3, <4>1, <5>2, <5>3 DEF Unfinished
        <4> QED BY <4>1 DEF Unfinished
      <3> QED BY <1>3, <3>1, <3>2, <3>3
    <2> QED BY <2>1, <2>2
  <1>6. ASSUME NEW n \in 1..(m + 1)
        PROVE  (d[n].starts <=> Unfinished(d, d[n].stream, n - 1, 0))
               /\ (d[n].empty => d[n].break = "none")
    <2>1. CASE n = m + 1
      <3>1. n - 1 = m /\ d[n] = x
        BY <1>1, <2>1
      <3> QED BY <1>3, <1>4, <3>1
    <2>2. CASE n # m + 1
      <3>1. n \in 1..m /\ d[n] = c[n] /\ n - 1 \in 0..m
        BY <1>1, <2>2
      <3>2. (c[n].starts <=> Unfinished(c, c[n].stream, n - 1, 0))
            /\ (c[n].empty => c[n].break = "none")
        BY <3>1 DEF Marked, m
      <3> QED BY <1>2, <3>1, <3>2
    <2> QED BY <2>1, <2>2
  <1>7. Marked(d, bound2)
    BY <1>1, <1>5, <1>6 DEF Marked
  <1> QED BY <1>7 DEF d

----------------------------------------------------------------------------
(* acceptAgentTurnOutput on chunk n: the parser is never given a torn line, *)
(* and a stream that stays complete has now seen n chunks.                  *)
LEMMA AcceptOK ==
  ASSUME NEW t \in Tasks, stream[t] \in StreamRecord, chunk[t] \in Seq(Chunk),
         NEW n \in 1..Len(chunk[t]), Marked(chunk[t], boundary[t]),
         ParserOK(stream[t], chunk[t]),
         stream[t].complete => stream[t].seen = 1..stream[t].lastSequence
  PROVE  /\ Accept(t, n) \in StreamRecord
         /\ ParserOK(Accept(t, n), chunk[t])
         /\ Accept(t, n).lastSequence = n /\ Accept(t, n).observed = TRUE
         /\ Accept(t, n).state = stream[t].state /\ Accept(t, n).epoch = stream[t].epoch
         /\ Accept(t, n).complete => Accept(t, n).seen = 1..n
  <1> DEFINE a == Accept(t, n)
             c == chunk[t][n]
             s == c.stream
             st == stream[t]
             gap == Gap(t, n)
             resync == IF gap THEN [x \in Streams |-> TRUE] ELSE st.resync
             held == PartialLines(t, n)
             whole == ~resync[s] \/ c.starts
             fed == ~c.empty /\ (whole \/ c.break # "none")
             joins == IF held[s] = 0 THEN c.starts ELSE held[s] = Previous(t, n)
             held2 == [held EXCEPT ![s] = IF ~fed THEN held[s] ELSE IF c.break = "end" THEN 0 ELSE n]
             resync2 == [resync EXCEPT ![s] = ~(whole \/ c.break # "none")]
  <1>0. st = [state |-> st.state, epoch |-> st.epoch, lastSequence |-> st.lastSequence,
              complete |-> st.complete, observed |-> st.observed, resync |-> st.resync,
              held |-> st.held, seen |-> st.seen, torn |-> st.torn]
    BY DEF StreamRecord
  <1>1. /\ a.lastSequence = n /\ a.complete = StillComplete(t, n) /\ a.observed = TRUE
        /\ a.state = st.state /\ a.epoch = st.epoch
        /\ a.resync = resync2
        /\ a.held = held2
        /\ a.seen = st.seen \cup (IF c.empty THEN {} ELSE {n})
        /\ a.torn = (st.torn \/ (fed /\ whole /\ ~joins))
        /\ a = [state |-> a.state, epoch |-> a.epoch, lastSequence |-> a.lastSequence,
                complete |-> a.complete, observed |-> a.observed, resync |-> a.resync,
                held |-> a.held, seen |-> a.seen, torn |-> a.torn]
    <2> DEFINE complete2 == StillComplete(t, n)
               seen2 == st.seen \cup (IF c.empty THEN {} ELSE {n})
               torn2 == st.torn \/ (fed /\ whole /\ ~joins)
    <2>1. a = [st EXCEPT
                 !.lastSequence = n, !.complete = complete2, !.observed = TRUE,
                 !.resync = resync2, !.held = held2, !.seen = seen2, !.torn = torn2]
      BY DEF Accept
    <2> HIDE DEF a, st, held2, resync2, complete2, seen2, torn2
    <2>2. a = [state |-> st.state, epoch |-> st.epoch, lastSequence |-> n,
               complete |-> complete2, observed |-> TRUE, resync |-> resync2,
               held |-> held2, seen |-> seen2, torn |-> torn2]
      BY <1>0, <2>1
    <2>3. /\ a.lastSequence = n /\ a.complete = complete2 /\ a.observed = TRUE
          /\ a.state = st.state /\ a.epoch = st.epoch /\ a.resync = resync2
          /\ a.held = held2 /\ a.seen = seen2 /\ a.torn = torn2
      BY <2>2
    <2> QED BY <2>2, <2>3 DEF complete2, seen2, torn2
  <1>2. /\ c \in Chunk /\ s \in Streams /\ c.starts \in BOOLEAN /\ c.empty \in BOOLEAN
        /\ c.break \in {"none", "inside", "end"} /\ n \in Nat /\ n # 0
    BY ChunkFacts
  <1>3. /\ st.resync \in [Streams -> BOOLEAN] /\ st.held \in [Streams -> Nat]
        /\ st.seen \in SUBSET Nat /\ st.lastSequence \in Nat /\ st.complete \in BOOLEAN
        /\ st.torn \in BOOLEAN /\ st.state \in {"none", "open", "closed"} /\ st.epoch \in Nat
    BY DEF StreamRecord
  <1>4. ~gap => n = st.lastSequence + 1 /\ ~c.empty
    BY DEF Gap
  <1>5. resync \in [Streams -> BOOLEAN] /\ held \in [Streams -> Nat]
    BY <1>3 DEF PartialLines
  <1>6. \A x \in Streams : IF resync[x] THEN held[x] = 0
                           ELSE ~gap /\ Unfinished(chunk[t], x, n - 1, held[x])
    <2>1. CASE gap
      BY <2>1 DEF PartialLines
    <2>2. CASE ~gap
      <3>1. n - 1 = st.lastSequence /\ held = st.held /\ resync = st.resync
        BY <1>3, <1>4, <2>2 DEF PartialLines
      <3> QED BY <2>2, <3>1 DEF ParserOK
    <2> QED BY <2>1, <2>2
  <1>7. (c.starts <=> Unfinished(chunk[t], s, n - 1, 0)) /\ (c.empty => c.break = "none")
    BY DEF Marked
  <1>8. StillComplete(t, n) = (st.complete /\ ~gap)
    BY DEF StillComplete
  <1> HIDE DEF a, c, st, gap, resync, held
  <1>9. fed /\ whole => joins
    <2> SUFFICES ASSUME whole, fed PROVE joins
      OBVIOUS
    <2>1. CASE resync[s]
      BY <1>2, <1>6, <2>1
    <2>2. CASE ~resync[s] /\ held[s] = 0
      BY <1>2, <1>6, <1>7, <2>2
    <2>3. CASE ~resync[s] /\ held[s] # 0
      <3>1. held[s] \in Nat \ {0} /\ Unfinished(chunk[t], chunk[t][n].stream, n - 1, held[s])
        BY <1>2, <1>5, <1>6, <2>3 DEF c
      <3>2. Previous(t, n) = held[s]
        BY <3>1, PreviousIsHeld
      <3> QED BY <2>3, <3>2
    <2> QED BY <2>1, <2>2, <2>3
  <1>10. a.torn = FALSE
    <2>1. st.torn = FALSE
      BY <1>3 DEF ParserOK, st
    <2> QED BY <1>1, <1>9, <2>1
  <1>11. held2 \in [Streams -> Nat] /\ resync2 \in [Streams -> BOOLEAN]
    BY <1>2, <1>5
  <1>12. ASSUME NEW x \in Streams
         PROVE  IF resync2[x] THEN held2[x] = 0 ELSE Unfinished(chunk[t], x, n, held2[x])
    <2>0. n - 1 \in Nat /\ (n - 1) + 1 = n
      BY <1>2
    <2>1. CASE x # s
      <3>1. resync2[x] = resync[x] /\ held2[x] = held[x] /\ held[x] \in Nat
        BY <1>5, <2>1
      <3>2. ~Of(chunk[t], n, x)
        BY <2>1 DEF Of, c
      <3>3. CASE resync[x]
        BY <1>6, <3>1, <3>3
      <3>4. CASE ~resync[x]
        <4>1. Unfinished(chunk[t], x, n - 1, held[x])
          BY <1>6, <3>4
        <4>2. Unfinished(chunk[t], x, n, held[x])
          BY <2>0, <3>1, <3>2, <4>1, UnfinishedOther
        <4> QED BY <3>1, <3>4, <4>2
      <3> QED BY <3>3, <3>4
    <2>2. CASE x = s
      <3>1. /\ resync2[x] = ~(whole \/ c.break # "none")
            /\ held2[x] = IF ~fed THEN held[s] ELSE IF c.break = "end" THEN 0 ELSE n
        BY <1>2, <1>5, <2>2
      <3>2. CASE fed
        <4>1. Of(chunk[t], n, x) /\ c = chunk[t][n]
          BY <2>2, <3>2 DEF Of, c
        <4>2. Unfinished(chunk[t], x, n, IF c.break = "end" THEN 0 ELSE n)
          BY <2>0, <4>1, UnfinishedOwn
        <4> QED BY <3>1, <3>2, <4>2
      <3>3. CASE ~fed /\ ~(whole \/ c.break # "none")
        <4>1. resync[s]
          BY <3>3
        <4> QED BY <1>2, <1>6, <3>1, <3>3, <4>1
      <3>4. CASE ~fed /\ (whole \/ c.break # "none")
        <4>1. c.empty
          BY <1>2, <3>4
        <4>2. gap
          BY <1>4, <4>1
        <4>3. resync[s] /\ held[s] = 0
          BY <1>2, <1>6, <4>2
        <4>4. CASE whole
          <5>1. c.starts
            BY <4>3, <4>4
          <5>2. Unfinished(chunk[t], x, n - 1, 0)
            BY <1>7, <2>2, <5>1
          <5>3. ~Of(chunk[t], n, x)
            BY <4>1 DEF Of, c
          <5>4. Unfinished(chunk[t], x, n, 0)
            BY <2>0, <5>2, <5>3, UnfinishedOther
          <5> QED BY <3>1, <3>4, <4>3, <5>4
        <4>5. CASE ~whole
          <5> QED BY <1>7, <3>4, <4>1, <4>5
        <4> QED BY <4>4, <4>5
      <3> QED BY <3>2, <3>3, <3>4
    <2> QED BY <2>1, <2>2
  <1> HIDE DEF held2, resync2, fed, whole, joins
  <1>13. ParserOK(a, chunk[t])
    BY <1>1, <1>10, <1>12 DEF ParserOK
  <1>14. a.complete => a.seen = 1..n
    <2> SUFFICES ASSUME a.complete PROVE a.seen = 1..n
      OBVIOUS
    <2>1. st.complete /\ ~gap
      BY <1>1, <1>8
    <2>2. st.seen = 1..st.lastSequence /\ n = st.lastSequence + 1 /\ ~c.empty
      BY <1>4, <2>1 DEF st
    <2> QED BY <1>1, <1>3, <2>2
  <1>15. a \in StreamRecord
    <2>1. a.complete \in BOOLEAN
      BY <1>1, <1>3, <1>8
    <2>2. a.seen \in SUBSET Nat
      BY <1>1, <1>2, <1>3
    <2> QED BY <1>1, <1>2, <1>3, <1>10, <1>11, <2>1, <2>2 DEF StreamRecord
  <1> QED BY <1>1, <1>13, <1>14, <1>15 DEF a, st

----------------------------------------------------------------------------
(* What the native end hands over is never taken back.                      *)

Grows(e, f) == Len(e) <= Len(f) /\ \A i \in 1..Len(e) : f[i] = e[i]

LEMMA EmittedGrows ==
  ASSUME Shape, [Next]_vars, NEW t \in Tasks
  PROVE  Grows(emitted[t], emitted'[t]) /\ emitted'[t] \in Seq(Event)
  <1>0. emitted \in [Tasks -> Seq(Event)] /\ Len(emitted[t]) \in Nat /\ Shape'
    BY ShapeStep, LenProperties DEF Shape
  <1>1. emitted' = emitted
        \/ \E x \in Tasks : \E e : emitted' = [emitted EXCEPT ![x] = Append(emitted[x], e)]
    <2>1. ASSUME Holder
          PROVE  emitted' = emitted \/ \E x \in Tasks : \E e : emitted' = [emitted EXCEPT ![x] = Append(emitted[x], e)]
      <3>1. order.task \in Tasks
        BY DEF Shape, OrderState
      <3>2. CASE emit_queued_event
        BY <3>1, <3>2 DEF emit_queued_event
      <3>3. CASE finish_batch \/ drain_acknowledgement
        BY <3>3 DEF finish_batch, drain_acknowledgement
      <3> QED BY <2>1, <3>2, <3>3 DEF Holder
    <2>2. ASSUME NEW x \in Tasks, Waiter(x)
          PROVE  emitted' = emitted \/ \E y \in Tasks : \E e : emitted' = [emitted EXCEPT ![y] = Append(emitted[y], e)]
      <3>1. ASSUME NEW y \in Tasks, emit_expired(x, y)
            PROVE  \E e : emitted' = [emitted EXCEPT ![y] = Append(emitted[y], e)]
        BY <3>1 DEF emit_expired
      <3>2. CASE emit_direct(x)
        BY <3>2 DEF emit_direct
      <3>3. CASE complete(x) \/ complete_drain(x) \/ poll_delivered(x) \/ poll_deadline(x)
                 \/ interrupt_delivery(x)
        BY <3>3 DEF complete, complete_drain, poll_delivered, poll_deadline, interrupt_delivery
      <3> QED BY <2>2, <3>1, <3>2, <3>3 DEF Waiter
    <2>3. ASSUME NEW x \in Tasks,
                 \/ start(x) \/ commit_start(x) \/ abandon_start(x)
                 \/ \E kind \in OutputKinds : publish(x, kind)
                 \/ acknowledge(x)
                 \/ \E s \in 1..MaxOutputs[x] : acknowledge_output(x, s)
          PROVE  emitted' = emitted
      BY <2>3 DEF start, commit_start, abandon_start, publish, acknowledge, acknowledge_output
    <2>4. ASSUME UNCHANGED vars PROVE emitted' = emitted
      BY <2>4 DEF vars
    <2> QED BY <2>1, <2>2, <2>3, <2>4 DEF Next
  <1>2. CASE emitted' = emitted
    BY <1>0, <1>2 DEF Grows
  <1>3. ASSUME NEW x \in Tasks, NEW e, emitted' = [emitted EXCEPT ![x] = Append(emitted[x], e)]
        PROVE  Grows(emitted[t], emitted'[t])
    <2>1. CASE x = t
      <3>1. emitted'[t] = Append(emitted[t], e) /\ emitted[t] \in Seq(Event)
        BY <1>0, <1>3, <2>1
      <3>2. emitted'[t] = [i \in 1..(Len(emitted[t]) + 1) |->
                              IF i = Len(emitted[t]) + 1 THEN e ELSE emitted[t][i]]
            /\ Len(emitted'[t]) = Len(emitted[t]) + 1
        <4>1. e \in Event
          <5>1. emitted'[t] \in Seq(Event)
            BY <1>0 DEF Shape
          <5>2. Append(emitted[t], e)[Len(emitted[t]) + 1] = e /\ Len(Append(emitted[t], e)) = Len(emitted[t]) + 1
            BY <3>1
          <5>3. Len(emitted[t]) + 1 \in 1..Len(emitted'[t])
            BY <1>0, <3>1, <5>2
          <5> QED BY <3>1, <5>1, <5>2, <5>3, ElementOfSeq
        <4> QED BY <3>1, <4>1
      <3> QED BY <1>0, <3>2 DEF Grows
    <2>2. CASE x # t
      BY <1>0, <1>3, <2>2 DEF Grows
    <2> QED BY <2>1, <2>2
  <1>4. emitted'[t] \in Seq(Event)
    BY <1>0 DEF Shape
  <1> QED BY <1>1, <1>2, <1>3, <1>4

(* Only publish numbers a chunk.                                            *)
LEMMA NumbersKept ==
  ASSUME NEW t \in Tasks,
         \/ Holder \/ Waiter(t) \/ start(t) \/ commit_start(t) \/ abandon_start(t)
         \/ acknowledge(t) \/ \E s : acknowledge_output(t, s)
  PROVE  outputSeq' = outputSeq
  <1>1. CASE Holder
    BY <1>1 DEF Holder, emit_queued_event, finish_batch, drain_acknowledgement, entryVars
  <1>2. CASE Waiter(t)
    BY <1>2 DEF Waiter, complete, emit_expired, emit_direct, complete_drain, poll_delivered,
                poll_deadline, interrupt_delivery, entryVars
  <1>3. CASE start(t) \/ commit_start(t) \/ abandon_start(t) \/ acknowledge(t)
    BY <1>3 DEF start, commit_start, abandon_start, acknowledge, entryVars
  <1>4. CASE \E s : acknowledge_output(t, s)
    BY <1>4 DEF acknowledge_output
  <1> QED BY <1>1, <1>2, <1>3, <1>4

(* Every step of the composition is a native step, or none.                 *)
LEMMA NativeSteps ==
  ASSUME NativeInvariant, [TurnOutputNext]_allVars
  PROVE  [Next]_vars
  <1>1. CASE NativeStep
    BY <1>1 DEF NativeStep, Next
  <1>2. ASSUME NEW t \in Tasks, Publishing(t) PROVE Next
    <2>1. publish(t, "output") \/ publish(t, "marker")
      BY <1>2 DEF Publishing, publish_output_chunk, publish_output_incomplete_marker
    <2> QED BY <2>1 DEF Next, OutputKinds
  <1>3. ASSUME NEW t \in Tasks, NEW w \in wire[t], native_acknowledge(t, w) PROVE [Next]_vars
    <2>1. UNCHANGED vars \/ acknowledge_output(t, w.seq)
      BY <1>3 DEF native_acknowledge
    <2>2. ASSUME acknowledge_output(t, w.seq) PROVE w.seq \in 1..MaxOutputs[t]
      <3>1. w.seq \in outstanding[t]
        BY <2>2 DEF acknowledge_output, Acknowledgeable
      <3>2. /\ outstanding[t] \subseteq (lastAck[t] + 1)..outputSeq[t]
            /\ lastAck[t] \in Nat /\ outputSeq[t] \in Nat /\ MaxOutputs[t] \in Nat
            /\ outputSeq[t] <= MaxOutputs[t]
        BY NativeFacts DEF NativeAt, TaskOrderAt, TaskOrder, Shape
      <3> QED BY <3>1, <3>2
    <2> QED BY <2>1, <2>2 DEF Next
  <1>4. ASSUME NEW t \in Tasks,
               \/ registerStream(t) \/ Dispatch(t) \/ flush(t)
               \/ \E w \in wire[t] : flush_resumed(t, w) \/ call_failed(t, w)
        PROVE  UNCHANGED vars
    BY <1>4 DEF registerStream, Dispatch, handleOutputEvent, handleStatusEvent, flush,
                flush_resumed, call_failed
  <1>5. CASE Subscribing \/ flushStreams
    BY <1>5 DEF Subscribing, attach, subscribed, subscribe_failed, resubscribe, flushStreams
  <1>6. CASE UNCHANGED allVars
    BY <1>6 DEF allVars
  <1> QED BY <1>1, <1>2, <1>3, <1>4, <1>5, <1>6 DEF TurnOutputNext, Acknowledging

(* The invariants of a turn do not depend on what is emitted later.         *)
LEMMA GrowsAt ==
  ASSUME NEW e \in Seq(Event), NEW f \in Seq(Event), Grows(e, f), NEW cur \in Nat, cur <= Len(e)
  PROVE  /\ cur <= Len(f)
         /\ Statuses(e) \subseteq Statuses(f)
         /\ \A st, c, m, sb : StreamOK(st, c, m, sb, e, cur) => StreamOK(st, c, m, sb, f, cur)
         /\ \A tn, st, m : TurnOK(tn, st, e, m) => TurnOK(tn, st, f, m)
  <1>0. Len(e) \in Nat /\ Len(f) \in Nat /\ Len(e) <= Len(f) /\ \A i \in 1..Len(e) : f[i] = e[i]
    BY LenProperties DEF Grows
  <1>1. cur <= Len(f)
    BY <1>0
  <1>2. Statuses(e) \subseteq Statuses(f)
    <2>1. \A i \in 1..Len(e) : i \in 1..Len(f)
      BY <1>0
    <2> QED BY <1>0, <2>1 DEF Statuses
  <1>3. \A i \in 1..cur : f[i] = e[i]
    BY <1>0
  <1>4. ASSUME NEW st, NEW c, NEW m, NEW sb, StreamOK(st, c, m, sb, e, cur)
        PROVE  StreamOK(st, c, m, sb, f, cur)
    BY <1>3, <1>4 DEF StreamOK
  <1>5. ASSUME NEW tn, NEW st, NEW m, TurnOK(tn, st, e, m) PROVE TurnOK(tn, st, f, m)
    BY <1>2, <1>5 DEF TurnOK
  <1> QED BY <1>1, <1>2, <1>4, <1>5

LEMMA RendererFacts ==
  ASSUME OutputInvariant
  PROVE  /\ NativeInvariant /\ Shape /\ RendererShape /\ SubscriptionOK
         /\ \A t \in Tasks :
               /\ RendererAt(t) /\ NativeAt(t) /\ LedgerAt(t) /\ TaskOrderAt(t)
               /\ boundary[t] \in [Streams -> BOOLEAN] /\ chunk[t] \in Seq(Chunk)
               /\ cursor[t] \in Nat /\ stream[t] \in StreamRecord /\ ack[t] \in AckRecord
               /\ wire[t] \subseteq Call /\ turn[t] \in TurnRecord
               /\ emitted[t] \in Seq(Event) /\ outputSeq[t] \in Nat /\ Len(emitted[t]) \in Nat
         /\ sub.epoch \in Nat \ {0} /\ sub.ready \in BOOLEAN /\ sub.run \in Subs
  BY NativeFacts, LenProperties DEF OutputInvariant, RendererInvariant, RendererShape

RendererKept == RendererShape' /\ SubscriptionOK' /\ \A x \in Tasks : RendererAt(x)'

(* A native step that numbers no chunk, while the renderer does nothing or  *)
(* only the acknowledgement calls move.                                     *)
LEMMA RendererIdle ==
  ASSUME OutputInvariant, [Next]_vars, outputSeq' = outputSeq,
         UNCHANGED <<boundary, chunk, cursor, sub, listener, stream, turn>>,
         ack' \in [Tasks -> AckRecord], wire' \in [Tasks -> SUBSET Call],
         \A x \in Tasks : AckOK(ack'[x], stream[x].lastSequence, wire'[x], sub.epoch)
  PROVE  RendererKept
  <1>1. RendererShape' /\ SubscriptionOK'
    BY RendererFacts DEF RendererShape, SubscriptionOK
  <1>2. ASSUME NEW x \in Tasks PROVE RendererAt(x)'
    <2>1. /\ RendererAt(x) /\ cursor[x] \in Nat /\ emitted[x] \in Seq(Event)
          /\ Grows(emitted[x], emitted'[x]) /\ emitted'[x] \in Seq(Event)
      BY RendererFacts, EmittedGrows
    <2>2. /\ cursor[x] <= Len(emitted[x])
          /\ StreamOK(stream[x], chunk[x], outputSeq[x], sub, emitted[x], cursor[x])
          /\ TurnOK(turn[x], stream[x], emitted[x], outputSeq[x])
      BY <2>1 DEF RendererAt
    <2>3. /\ cursor[x] <= Len(emitted'[x])
          /\ StreamOK(stream[x], chunk[x], outputSeq[x], sub, emitted'[x], cursor[x])
          /\ TurnOK(turn[x], stream[x], emitted'[x], outputSeq[x])
      BY <2>1, <2>2, GrowsAt
    <2> QED BY <2>1, <2>3 DEF RendererAt
  <1> QED BY <1>1, <1>2 DEF RendererKept

----------------------------------------------------------------------------
(* Chunks are published. *)

LEMMA ChunkPublished ==
  ASSUME OutputInvariant, NEW t \in Tasks, NEW kind \in OutputKinds, publish(t, kind),
         NEW x \in Chunk, x.starts = boundary[t][x.stream], x.empty => x.break = "none",
         chunk' = [chunk EXCEPT ![t] = Append(chunk[t], x)],
         NEW b, b = IF x.empty THEN boundary[t]
                    ELSE [boundary[t] EXCEPT ![x.stream] = x.break = "end"],
         boundary' = [boundary EXCEPT ![t] = b],
         UNCHANGED <<cursor, sub, listener, stream, ack, wire, turn>>
  PROVE  RendererKept
  <1> DEFINE c == chunk[t]
             m == outputSeq[t]
             d == Append(c, x)
             st == stream[t]
  <1>1. /\ RendererShape /\ SubscriptionOK /\ Shape
        /\ \A z \in Tasks : RendererAt(z)
        /\ LedgerAt(t) /\ c \in Seq(Chunk) /\ boundary[t] \in [Streams -> BOOLEAN]
        /\ st \in StreamRecord /\ m \in Nat
    BY RendererFacts
  <1>2. /\ phase[t] # "Terminal" /\ emitted' = emitted
        /\ outputSeq'[t] = m + 1 /\ \A z \in Tasks : z # t => outputSeq'[z] = outputSeq[z]
    BY <1>1 DEF publish, Shape
  <1>3. b \in [Streams -> BOOLEAN] /\ x.stream \in Streams
    <2>1. x.stream \in Streams
      BY DEF Chunk
    <2> QED BY <1>1, <2>1
  <1>4. d \in Seq(Chunk) /\ Len(d) = Len(c) + 1
    BY <1>1, AppendProperties
  <1>5. /\ chunk'[t] = d /\ boundary'[t] = b
        /\ \A z \in Tasks : z # t => chunk'[z] = chunk[z] /\ boundary'[z] = boundary[z]
    BY <1>1 DEF RendererShape
  <1>6. RendererShape'
    <2>1. chunk' \in [Tasks -> Seq(Chunk)]
      BY <1>1, <1>4 DEF RendererShape
    <2>2. boundary' \in [Tasks -> [Streams -> BOOLEAN]]
      BY <1>1, <1>3 DEF RendererShape
    <2> QED BY <1>1, <2>1, <2>2 DEF RendererShape
  <1>7. SubscriptionOK'
    BY <1>1 DEF SubscriptionOK
  <1> HIDE DEF d
  <1>8. /\ cursor[t] <= Len(emitted[t]) /\ Len(c) = m /\ Marked(c, boundary[t])
        /\ StreamOK(st, c, m, sub, emitted[t], cursor[t])
        /\ TurnOK(turn[t], st, emitted[t], m)
        /\ AckOK(ack[t], st.lastSequence, wire[t], sub.epoch)
    BY <1>1 DEF RendererAt
  <1>9. Marked(d, b)
    BY <1>1, <1>3, <1>8, MarkedAppend DEF d
  <1>10. StreamOK(st, d, m + 1, sub, emitted[t], cursor[t])
    <2>1. st.lastSequence \in 0..Len(c) /\ st.held \in [Streams -> Nat]
      BY <1>1, <1>8 DEF StreamOK, StreamRecord
    <2>2. ParserOK(st, c)
      BY <1>8 DEF StreamOK
    <2>3. \A s \in Streams : Unfinished(c, s, st.lastSequence, st.held[s])
                              => Unfinished(d, s, st.lastSequence, st.held[s])
      BY <1>1, <2>1, UnfinishedAppend DEF d
    <2>4. ParserOK(st, d)
      BY <2>2, <2>3 DEF ParserOK
    <2>5. st.lastSequence <= m + 1
      BY <1>1, <1>8, <2>1
    <2> QED BY <1>8, <2>4, <2>5 DEF StreamOK
  <1>11. turn[t].status \notin FinalKinds
    <2>1. FinalKinds \cap Statuses(emitted[t]) = {}
      BY <1>1, <1>2 DEF LedgerAt, Ledger
    <2> QED BY <1>8, <2>1 DEF TurnOK
  <1>12. TurnOK(turn[t], st, emitted[t], m + 1)
    BY <1>8, <1>11 DEF TurnOK
  <1>13. RendererAt(t)'
    BY <1>1, <1>2, <1>4, <1>5, <1>8, <1>9, <1>10, <1>12 DEF RendererAt
  <1>14. ASSUME NEW z \in Tasks, z # t PROVE RendererAt(z)'
    BY <1>1, <1>2, <1>5, <1>14 DEF RendererAt
  <1> QED BY <1>6, <1>7, <1>13, <1>14 DEF RendererKept

LEMMA PublishingKept ==
  ASSUME OutputInvariant, NEW t \in Tasks, Publishing(t)
  PROVE  RendererKept
  <1>0. boundary[t] \in [Streams -> BOOLEAN] /\ chunk \in [Tasks -> Seq(Chunk)]
        /\ boundary \in [Tasks -> [Streams -> BOOLEAN]]
    BY RendererFacts DEF RendererShape
  <1>1. ASSUME NEW s \in Streams, NEW break \in LineBreaks, publish_output_chunk(t, s, break)
        PROVE  RendererKept
    <2> DEFINE x == [stream |-> s, starts |-> boundary[t][s], break |-> break, empty |-> FALSE]
               b == [boundary[t] EXCEPT ![s] = break = "end"]
    <2>1. x \in Chunk
      BY <1>0, RendererAssumption DEF Chunk
    <2>2. /\ publish(t, "output") /\ "output" \in OutputKinds
          /\ chunk' = [chunk EXCEPT ![t] = Append(chunk[t], x)]
          /\ boundary' = [boundary EXCEPT ![t] = b]
          /\ UNCHANGED <<cursor, sub, listener, stream, ack, wire, turn>>
      BY <1>1 DEF publish_output_chunk, OutputKinds
    <2>3. x.stream = s /\ x.starts = boundary[t][s] /\ x.break = break /\ x.empty = FALSE
      OBVIOUS
    <2>4. b = IF x.empty THEN boundary[t] ELSE [boundary[t] EXCEPT ![x.stream] = x.break = "end"]
      BY <2>3
    <2> HIDE DEF x, b
    <2> QED BY <2>1, <2>2, <2>3, <2>4, ChunkPublished
  <1>2. ASSUME NEW s \in Streams, publish_output_incomplete_marker(t, s)
        PROVE  RendererKept
    <2> DEFINE x == [stream |-> s, starts |-> boundary[t][s], break |-> "none", empty |-> TRUE]
               b == boundary[t]
    <2>1. x \in Chunk
      BY <1>0 DEF Chunk
    <2>2. /\ publish(t, "marker") /\ "marker" \in OutputKinds
          /\ chunk' = [chunk EXCEPT ![t] = Append(chunk[t], x)]
          /\ boundary' = [boundary EXCEPT ![t] = b]
          /\ UNCHANGED <<cursor, sub, listener, stream, ack, wire, turn>>
      BY <1>0, <1>2 DEF publish_output_incomplete_marker, OutputKinds
    <2>3. x.stream = s /\ x.starts = boundary[t][s] /\ x.break = "none" /\ x.empty = TRUE
      OBVIOUS
    <2>4. b = IF x.empty THEN boundary[t] ELSE [boundary[t] EXCEPT ![x.stream] = x.break = "end"]
      BY <2>3
    <2> HIDE DEF x, b
    <2> QED BY <2>1, <2>2, <2>3, <2>4, ChunkPublished
  <1> QED BY <1>1, <1>2 DEF Publishing

----------------------------------------------------------------------------
(* Subscriptions. *)

(* A subscription that fails or is replaced makes streams incomplete; one   *)
(* that takes a new epoch leaves every stream and every call behind.        *)
LEMMA SubscriptionChanges ==
  ASSUME OutputInvariant, UNCHANGED <<vars, boundary, chunk, cursor, wire, turn>>,
         stream' = stream \/ stream' = Incomplete(stream),
         \/ sub'.epoch = sub.epoch /\ (sub.ready => sub'.ready) /\ ack' = ack
         \/ sub'.epoch \in Nat /\ sub'.epoch > sub.epoch /\ ack' = [x \in Tasks |-> NoAck]
  PROVE  stream' \in [Tasks -> StreamRecord] /\ \A x \in Tasks : RendererAt(x)'
  <1>0. sub.epoch \in Nat \ {0} /\ stream \in [Tasks -> StreamRecord]
    BY RendererFacts DEF RendererShape
  <1>1. stream' \in [Tasks -> StreamRecord]
    <2>1. \A a \in StreamRecord : [a EXCEPT !.complete = FALSE] \in StreamRecord
      BY DEF StreamRecord
    <2>2. Incomplete(stream) \in [Tasks -> StreamRecord]
      BY <1>0, <2>1 DEF Incomplete
    <2> QED BY <1>0, <2>2
  <1>2. ASSUME NEW x \in Tasks PROVE RendererAt(x)'
    <2> DEFINE a == stream[x]
               z == stream'[x]
    <2>0. /\ RendererAt(x) /\ a \in StreamRecord /\ wire[x] \subseteq Call /\ ack[x] \in AckRecord
      BY RendererFacts
    <2>1. /\ z.state = a.state /\ z.epoch = a.epoch /\ z.lastSequence = a.lastSequence
          /\ z.observed = a.observed /\ z.resync = a.resync /\ z.held = a.held
          /\ z.seen = a.seen /\ z.torn = a.torn /\ (z.complete => a.complete)
      BY <2>0 DEF Incomplete, StreamRecord
    <2>2. UNCHANGED <<emitted, outputSeq>>
      BY DEF vars, entryVars
    <2> HIDE DEF a, z
    <2>3. /\ StreamOK(a, chunk[x], outputSeq[x], sub, emitted[x], cursor[x])
          /\ TurnOK(turn[x], a, emitted[x], outputSeq[x])
          /\ AckOK(ack[x], a.lastSequence, wire[x], sub.epoch)
      BY <2>0 DEF RendererAt, a
    <2>4. ParserOK(z, chunk[x])
      BY <2>1, <2>3 DEF StreamOK, ParserOK
    <2>5. a.epoch \in Nat /\ a.epoch <= sub.epoch
      BY <2>0, <2>3 DEF StreamOK, StreamRecord, a
    <2>6. StreamOK(z, chunk[x], outputSeq[x], sub', emitted[x], cursor[x])
      <3>1. CASE sub'.epoch = sub.epoch /\ (sub.ready => sub'.ready)
        BY <2>1, <2>3, <2>4, <3>1 DEF StreamOK
      <3>2. CASE sub'.epoch \in Nat /\ sub'.epoch > sub.epoch
        <4>1. z.epoch # sub'.epoch /\ z.epoch <= sub'.epoch
          BY <1>0, <2>1, <2>5, <3>2
        <4> QED BY <2>1, <2>3, <2>4, <4>1 DEF StreamOK
      <3> QED BY <3>1, <3>2
    <2>7. TurnOK(turn[x], z, emitted[x], outputSeq[x])
      BY <2>1, <2>3 DEF TurnOK
    <2>8. AckOK(ack'[x], z.lastSequence, wire[x], sub'.epoch)
      <3>1. CASE sub'.epoch = sub.epoch /\ ack' = ack
        BY <2>1, <2>3, <3>1
      <3>2. CASE sub'.epoch \in Nat /\ sub'.epoch > sub.epoch /\ ack' = [y \in Tasks |-> NoAck]
        <4>1. /\ ack'[x].epoch = 0 /\ ack'[x].acknowledged = 0 /\ ack'[x].consumed = 0
          BY <3>2 DEF NoAck
        <4>2. z.lastSequence \in Nat
          BY <2>0, <2>1 DEF StreamRecord, a
        <4>3. \A w \in wire[x] : w.epoch \in Nat /\ w.epoch # 0 /\ w.epoch <= sub.epoch
          BY <2>0, <2>3 DEF AckOK, Call
        <4>4. \A w \in wire[x] : w.epoch # 0 /\ w.epoch <= sub'.epoch /\ w.epoch # sub'.epoch
          BY <1>0, <3>2, <4>3
        <4> QED BY <4>1, <4>2, <4>4 DEF AckOK
      <3> QED BY <3>1, <3>2
    <2> QED BY <2>0, <2>2, <2>6, <2>7, <2>8 DEF RendererAt, z
  <1> QED BY <1>1, <1>2

LEMMA SubscribingKept ==
  ASSUME OutputInvariant, Subscribing
  PROVE  RendererKept
  <1> DEFINE States == {"none", "waiting", "attached", "ready", "abandoned", "orphan", "gone"}
  <1>0. /\ RendererShape /\ SubscriptionOK
        /\ sub \in [epoch : Nat \ {0}, ready : BOOLEAN, run : Subs]
        /\ listener \in [Subs -> [Channels -> States]]
        /\ sub.epoch \in Nat \ {0} /\ sub.ready \in BOOLEAN /\ sub.run \in Subs
        /\ "output" \in Channels /\ \A k \in Subs : k \in Nat
    BY RendererFacts, RendererAssumption DEF RendererShape, Channels, Subs
  <1>1. ASSUME NEW k \in Subs, NEW ch \in Channels, attach(k, ch) PROVE RendererKept
    <2>1. /\ listener[k][ch] \in {"waiting", "abandoned"}
          /\ listener' = [listener EXCEPT ![k][ch] =
                             IF listener[k][ch] = "waiting" THEN "attached" ELSE "orphan"]
          /\ UNCHANGED <<vars, boundary, chunk, cursor, sub, stream, ack, wire, turn>>
      BY <1>1 DEF attach
    <2>2. listener' \in [Subs -> [Channels -> States]]
      BY <1>0, <2>1
    <2>3. SubscriptionOK'
      <3>1. CASE ch = "output"
        <4>1. \A j \in Subs : listener'[j]["output"] =
                 IF j = k THEN IF listener[k]["output"] = "waiting" THEN "attached" ELSE "orphan"
                 ELSE listener[j]["output"]
          BY <1>0, <2>1, <3>1
        <4> QED BY <1>0, <2>1, <3>1, <4>1 DEF SubscriptionOK
      <3>2. CASE ch # "output"
        <4>1. \A j \in Subs : listener'[j]["output"] = listener[j]["output"]
          BY <1>0, <2>1, <3>2
        <4> QED BY <1>0, <2>1, <4>1 DEF SubscriptionOK
      <3> QED BY <3>1, <3>2
    <2>4. stream' \in [Tasks -> StreamRecord] /\ \A x \in Tasks : RendererAt(x)'
      BY <2>1, SubscriptionChanges
    <2>5. RendererShape'
      BY <1>0, <2>1, <2>2 DEF RendererShape
    <2> QED BY <2>3, <2>4, <2>5 DEF RendererKept
  <1>2. ASSUME NEW k \in Subs, NEW ch \in Channels, subscribed(k, ch) PROVE RendererKept
    <2>1. /\ listener[k][ch] = "orphan" \/ (ch = "output" /\ listener[k][ch] = "attached")
          /\ listener' = [listener EXCEPT ![k][ch] =
                             IF listener[k][ch] = "attached" THEN "ready" ELSE "gone"]
          /\ sub' = [sub EXCEPT !.ready = sub.ready \/ (ch = "output" /\ listener[k][ch] = "attached")]
          /\ UNCHANGED <<vars, boundary, chunk, cursor, stream, ack, wire, turn>>
      BY <1>2 DEF subscribed
    <2>2. listener' \in [Subs -> [Channels -> States]]
      BY <1>0, <2>1
    <2>3. /\ sub' \in [epoch : Nat \ {0}, ready : BOOLEAN, run : Subs]
          /\ sub'.epoch = sub.epoch /\ sub'.run = sub.run
          /\ sub'.ready = (sub.ready \/ (ch = "output" /\ listener[k][ch] = "attached"))
      BY <1>0, <2>1
    <2>4. SubscriptionOK'
      <3>1. CASE ch = "output"
        <4>1. \A j \in Subs : listener'[j]["output"] =
                 IF j = k THEN IF listener[k]["output"] = "attached" THEN "ready" ELSE "gone"
                 ELSE listener[j]["output"]
          BY <1>0, <2>1, <3>1
        <4>2. listener[k]["output"] = "attached" => k = sub.run
          BY <1>0 DEF SubscriptionOK
        <4>3. listener[k]["output"] = "orphan" => k < sub.run
          BY <1>0 DEF SubscriptionOK
        <4> QED BY <1>0, <2>1, <2>3, <3>1, <4>1, <4>2, <4>3 DEF SubscriptionOK
      <3>2. CASE ch # "output"
        <4>1. \A j \in Subs : listener'[j]["output"] = listener[j]["output"]
          BY <1>0, <2>1, <3>2
        <4> QED BY <1>0, <2>3, <3>2, <4>1 DEF SubscriptionOK
      <3> QED BY <3>1, <3>2
    <2>5. stream' \in [Tasks -> StreamRecord] /\ \A x \in Tasks : RendererAt(x)'
      BY <2>1, <2>3, SubscriptionChanges
    <2>6. RendererShape'
      BY <1>0, <2>1, <2>2, <2>3 DEF RendererShape
    <2> QED BY <2>4, <2>5, <2>6 DEF RendererKept
  <1>3. ASSUME NEW k \in Subs, subscribe_failed(k) PROVE RendererKept
    <2>1. /\ listener[k]["output"] \in {"waiting", "abandoned"}
          /\ listener' = [listener EXCEPT ![k]["output"] = "gone"]
          /\ IF listener[k]["output"] = "waiting"
             THEN sub' = [sub EXCEPT !.ready = FALSE] /\ stream' = Incomplete(stream)
             ELSE UNCHANGED <<sub, stream>>
          /\ UNCHANGED <<vars, boundary, chunk, cursor, ack, wire, turn>>
      BY <1>3 DEF subscribe_failed
    <2>2. listener' \in [Subs -> [Channels -> States]]
          /\ \A j \in Subs : listener'[j]["output"] = IF j = k THEN "gone" ELSE listener[j]["output"]
      BY <1>0, <2>1
    <2>3. listener[k]["output"] = "waiting" => k = sub.run /\ ~sub.ready
      BY <1>0 DEF SubscriptionOK
    <2>4. sub' = sub
      BY <1>0, <2>1, <2>3
    <2>5. SubscriptionOK'
      <3>1. listener[k]["output"] = "abandoned" => k < sub.run
        BY <1>0 DEF SubscriptionOK
      <3> QED BY <1>0, <2>1, <2>2, <2>3, <2>4, <3>1 DEF SubscriptionOK
    <2>6. stream' = stream \/ stream' = Incomplete(stream)
      BY <2>1
    <2>7. stream' \in [Tasks -> StreamRecord] /\ \A x \in Tasks : RendererAt(x)'
      BY <2>1, <2>4, <2>6, SubscriptionChanges
    <2>8. RendererShape'
      BY <1>0, <2>1, <2>2, <2>4, <2>7 DEF RendererShape
    <2> QED BY <2>5, <2>7, <2>8 DEF RendererKept
  <1>4. ASSUME resubscribe PROVE RendererKept
    <2> DEFINE r == sub.run
    <2>1. /\ r < MaxSubs
          /\ sub' = [epoch |-> sub.epoch + 2, ready |-> FALSE, run |-> r + 1]
          /\ listener' = [listener EXCEPT
                ![r] = [ch \in Channels |-> Disposed(listener[r][ch])],
                ![r + 1] = [ch \in Channels |-> "waiting"]]
          /\ stream' = Incomplete(stream)
          /\ ack' = [x \in Tasks |-> NoAck]
          /\ UNCHANGED <<vars, boundary, chunk, cursor, wire, turn>>
      BY <1>0, <1>4 DEF resubscribe
    <2>2. /\ r + 1 \in Subs /\ r \in Subs /\ r \in Nat /\ sub'.run = r + 1 /\ sub'.ready = FALSE
          /\ sub'.epoch = sub.epoch + 2 /\ sub'.epoch \in Nat /\ sub'.epoch > sub.epoch
          /\ sub' \in [epoch : Nat \ {0}, ready : BOOLEAN, run : Subs]
      BY <1>0, <2>1, RendererAssumption DEF Subs
    <2>3. \A l : Disposed(l) \in {"abandoned", "orphan", "gone"}
      BY DEF Disposed
    <2>4. listener' \in [Subs -> [Channels -> States]]
      <3>1. [ch \in Channels |-> Disposed(listener[r][ch])] \in [Channels -> States]
        BY <2>3
      <3>2. [ch \in Channels |-> "waiting"] \in [Channels -> States]
        OBVIOUS
      <3> HIDE DEF States
      <3> QED BY <1>0, <2>1, <2>2, <3>1, <3>2
    <2>5. \A j \in Subs :
             listener'[j]["output"] = IF j = r + 1 THEN "waiting"
                                      ELSE IF j = r THEN Disposed(listener[r]["output"])
                                      ELSE listener[j]["output"]
      BY <1>0, <2>1, <2>2
    <2>6. SubscriptionOK'
      <3>1. ASSUME NEW j \in Subs
            PROVE  /\ j > r + 1 => listener'[j]["output"] = "none"
                   /\ j < r + 1 => listener'[j]["output"] \in {"abandoned", "orphan", "gone"}
        <4>1. j \in Nat /\ r \in Nat
          BY <1>0
        <4>2. CASE j > r + 1
          BY <1>0, <2>5, <4>1, <4>2 DEF SubscriptionOK
        <4>3. CASE j = r
          BY <2>3, <2>5, <4>1, <4>3
        <4>4. CASE j < r
          BY <1>0, <2>5, <4>1, <4>4 DEF SubscriptionOK
        <4> QED BY <4>1, <4>2, <4>3, <4>4
      <3>2. listener'[r + 1]["output"] = "waiting"
        BY <2>2, <2>5
      <3> QED BY <2>2, <3>1, <3>2 DEF SubscriptionOK
    <2>7. stream' \in [Tasks -> StreamRecord] /\ \A x \in Tasks : RendererAt(x)'
      BY <2>1, <2>2, SubscriptionChanges
    <2>8. ack' \in [Tasks -> AckRecord]
      BY <2>1 DEF NoAck, AckRecord
    <2>9. RendererShape'
      BY <1>0, <2>1, <2>2, <2>4, <2>7, <2>8 DEF RendererShape
    <2> QED BY <2>6, <2>7, <2>9 DEF RendererKept
  <1> QED BY <1>1, <1>2, <1>3, <1>4 DEF Subscribing

----------------------------------------------------------------------------
(* Streams. *)

(* registerStream: a task whose start is not acknowledged has sent nothing. *)
LEMMA RegisterKept ==
  ASSUME OutputInvariant, NEW t \in Tasks, registerStream(t)
  PROVE  RendererKept
  <1> DEFINE z == [NoStream EXCEPT !.state = "open", !.epoch = IF sub.ready THEN sub.epoch ELSE 0,
                                   !.complete = sub.ready]
  <1>0. /\ RendererShape /\ SubscriptionOK
        /\ \A x \in Tasks : RendererAt(x)
        /\ NativeAt(t) /\ emitted[t] \in Seq(Event) /\ cursor[t] \in Nat /\ Len(emitted[t]) \in Nat
        /\ sub.epoch \in Nat \ {0} /\ sub.ready \in BOOLEAN /\ turn[t] \in TurnRecord
        /\ stream[t] \in StreamRecord /\ outputSeq[t] \in Nat
    BY RendererFacts
  <1>1. /\ stream[t].state = "none" /\ ~acknowledged[t]
        /\ stream' = [stream EXCEPT ![t] = z]
        /\ turn' = [turn EXCEPT ![t].status = "pending"]
        /\ UNCHANGED <<vars, boundary, chunk, cursor, sub, listener, ack, wire>>
    BY DEF registerStream
  <1>2. /\ NoStream \in StreamRecord /\ NoStream.lastSequence = 0 /\ NoStream.observed = FALSE
        /\ NoStream.resync = [s \in Streams |-> FALSE] /\ NoStream.held = [s \in Streams |-> 0]
        /\ NoStream.seen = {} /\ NoStream.torn = FALSE
    BY DEF NoStream, StreamRecord
  <1>3. (IF sub.ready THEN sub.epoch ELSE 0) \in Nat
    BY <1>0
  <1>20. /\ z.state = "open" /\ z.epoch = (IF sub.ready THEN sub.epoch ELSE 0)
         /\ z.lastSequence = 0 /\ z.complete = sub.ready /\ z.observed = FALSE
         /\ z.resync = [s \in Streams |-> FALSE] /\ z.held = [s \in Streams |-> 0]
         /\ z.seen = {} /\ z.torn = FALSE
         /\ z \in StreamRecord
    <2> DEFINE f == IF sub.ready THEN sub.epoch ELSE 0
    <2>1. z = [NoStream EXCEPT !.state = "open", !.epoch = f, !.complete = sub.ready]
      OBVIOUS
    <2>2. f \in Nat /\ sub.ready \in BOOLEAN /\ NoStream \in StreamRecord
      BY <1>0, <1>2, <1>3
    <2> HIDE DEF z, f
    <2>3. /\ z \in StreamRecord
          /\ z.state = "open" /\ z.epoch = f /\ z.complete = sub.ready
          /\ z.lastSequence = NoStream.lastSequence /\ z.observed = NoStream.observed
          /\ z.resync = NoStream.resync /\ z.held = NoStream.held /\ z.seen = NoStream.seen
          /\ z.torn = NoStream.torn
      BY <2>1, <2>2 DEF StreamRecord
    <2> QED BY <1>2, <2>3 DEF f
  <1> HIDE DEF z
  <1>4. /\ turn'[t].status = "pending" /\ turn'[t].metrics = turn[t].metrics
        /\ turn' \in [Tasks -> TurnRecord]
        /\ stream' \in [Tasks -> StreamRecord] /\ stream'[t] = z
    BY <1>0, <1>1, <1>20 DEF RendererShape, TurnRecord
  <1>5. RendererShape' /\ SubscriptionOK'
    BY <1>0, <1>1, <1>4 DEF RendererShape, SubscriptionOK
  <1>6. UNCHANGED <<emitted, outputSeq>>
    BY <1>1 DEF vars, entryVars
  <1>7. StreamOK(z, chunk[t], outputSeq[t], sub, emitted[t], cursor[t])
    <2>1. ParserOK(z, chunk[t])
      BY <1>20 DEF ParserOK, Unfinished
    <2>2. ASSUME NEW i \in 1..cursor[t] PROVE ~IsOutput(emitted[t][i])
      <3>1. Outs(emitted[t]) = {}
        BY <1>0, <1>1 DEF NativeAt, NothingEarly
      <3>2. i \in 1..Len(emitted[t])
        BY <1>0, <2>2 DEF RendererAt
      <3> QED BY <3>1, <3>2 DEF Outs
    <2>3. z.seen = 1..z.lastSequence
      BY <1>20
    <2> QED BY <1>0, <1>20, <2>1, <2>2, <2>3 DEF StreamOK
  <1>8. TurnOK(turn'[t], z, emitted[t], outputSeq[t])
    <2>1. z.seen = 1..z.lastSequence
      BY <1>20
    <2> QED BY <1>4, <2>1 DEF TurnOK, FinalKinds
  <1>9. AckOK(ack[t], z.lastSequence, wire[t], sub.epoch)
    <2>1. ack[t].consumed <= stream[t].lastSequence /\ AckOK(ack[t], stream[t].lastSequence, wire[t], sub.epoch)
      BY <1>0 DEF RendererAt, AckOK
    <2>2. stream[t].lastSequence = 0
      BY <1>0, <1>1 DEF RendererAt, StreamOK
    <2> QED BY <1>20, <2>1, <2>2
  <1>10. RendererAt(t)'
    BY <1>0, <1>1, <1>4, <1>6, <1>7, <1>8, <1>9 DEF RendererAt
  <1>11. ASSUME NEW x \in Tasks, x # t PROVE RendererAt(x)'
    <2>1. stream'[x] = stream[x] /\ turn'[x] = turn[x]
      BY <1>0, <1>1, <1>11 DEF RendererShape
    <2> QED BY <1>0, <1>1, <1>6, <2>1 DEF RendererAt
  <1> QED BY <1>5, <1>10, <1>11 DEF RendererKept

(* acceptAgentTurnOutput and consumed.                                      *)
LEMMA ConsumedOK ==
  ASSUME NEW t \in Tasks, ack[t] \in AckRecord, NEW last \in Nat, NEW n \in Nat, last <= n,
         sub.epoch \in Nat \ {0}, AckOK(ack[t], last, wire[t], sub.epoch), wire[t] \subseteq Call
  PROVE  Consumed(t, n) \in AckRecord /\ AckOK(Consumed(t, n), n, wire[t], sub.epoch)
  <1> DEFINE owner == IF ack[t].epoch = 0 THEN [NoAck EXCEPT !.epoch = sub.epoch] ELSE ack[t]
             a == Consumed(t, n)
  <1>1. /\ ack[t].acknowledged \in Nat /\ ack[t].consumed \in Nat
        /\ ack[t].acknowledged <= ack[t].consumed /\ ack[t].consumed <= last
        /\ ack[t].epoch \in {0, sub.epoch}
        /\ \A w \in wire[t] : /\ w.epoch # 0 /\ w.epoch <= sub.epoch
                              /\ w.epoch = sub.epoch => ack[t].epoch = sub.epoch
                              /\ w.epoch = ack[t].epoch => w.seq <= ack[t].consumed
                              /\ w.seq \in Nat
    BY DEF AckOK, AckRecord, Call
  <1>2. /\ owner \in AckRecord /\ owner.epoch = sub.epoch
        /\ owner.acknowledged \in Nat /\ owner.consumed \in Nat
        /\ owner.acknowledged <= owner.consumed /\ owner.consumed <= last
        /\ \A w \in wire[t] : w.epoch = sub.epoch => w.seq <= owner.consumed
    <2>1. CASE ack[t].epoch = 0
      <3>1. owner = [epoch |-> sub.epoch, consumed |-> 0, acknowledged |-> 0, attempts |-> 0,
                     scheduled |-> FALSE, failed |-> FALSE]
        BY <2>1 DEF NoAck
      <3> HIDE DEF owner
      <3>2. \A w \in wire[t] : w.epoch # sub.epoch
        BY <1>1, <2>1
      <3>3. owner.consumed = 0 /\ owner.acknowledged = 0 /\ owner.epoch = sub.epoch
        BY <3>1
      <3>4. owner \in AckRecord
        BY <3>1 DEF AckRecord
      <3> QED BY <3>2, <3>3, <3>4
    <2>2. CASE ack[t].epoch # 0
      BY <1>1, <2>2
    <2> QED BY <2>1, <2>2
  <1>3. a = owner \/ (n > owner.consumed /\ a = [owner EXCEPT !.consumed = n, !.scheduled = TRUE])
    BY <1>2 DEF Consumed
  <1> HIDE DEF owner, a
  <1>4. /\ a \in AckRecord /\ a.epoch = sub.epoch /\ a.acknowledged = owner.acknowledged
        /\ a.consumed = owner.consumed \/ (a.consumed = n /\ n > owner.consumed)
    BY <1>2, <1>3 DEF AckRecord
  <1>5. a.acknowledged <= a.consumed /\ a.consumed <= n /\ owner.consumed <= a.consumed
    BY <1>2, <1>4
  <1>6. \A w \in wire[t] : w.epoch = sub.epoch => w.seq <= a.consumed
    BY <1>1, <1>2, <1>4
  <1> QED BY <1>1, <1>4, <1>5, <1>6 DEF AckOK, a

LEMMA OutputEventKept ==
  ASSUME OutputInvariant, NEW t \in Tasks, handleOutputEvent(t)
  PROVE  RendererKept
  <1> DEFINE e == emitted[t]
             cur == cursor[t]
             n == e[cur + 1].seq
             st == stream[t]
  <1>0. /\ RendererShape /\ SubscriptionOK
        /\ \A x \in Tasks : RendererAt(x)
        /\ TaskOrderAt(t) /\ e \in Seq(Event) /\ cur \in Nat /\ Len(e) \in Nat
        /\ sub.epoch \in Nat \ {0} /\ sub.ready \in BOOLEAN /\ sub.run \in Subs
        /\ st \in StreamRecord /\ outputSeq[t] \in Nat /\ chunk[t] \in Seq(Chunk)
        /\ ack[t] \in AckRecord /\ wire[t] \subseteq Call
        /\ cursor \in [Tasks -> Nat] /\ stream \in [Tasks -> StreamRecord]
        /\ ack \in [Tasks -> AckRecord]
    BY RendererFacts DEF RendererShape
  <1> DEFINE accepts == Receiving("output") /\ st.state = "open" /\ n > st.lastSequence
  <1>1. /\ cur < Len(e) /\ IsOutput(e[cur + 1])
        /\ cursor' = [cursor EXCEPT ![t] = cur + 1]
        /\ accepts => /\ stream' = [stream EXCEPT ![t] = Accept(t, n)]
                      /\ ack' = [ack EXCEPT ![t] = Consumed(t, n)]
        /\ ~accepts => stream' = stream /\ ack' = ack
        /\ UNCHANGED <<vars, boundary, chunk, sub, listener, wire, turn>>
    BY DEF handleOutputEvent, Pending, NextEvent, Dispatched
  <1> HIDE DEF accepts
  <1>2. UNCHANGED <<emitted, outputSeq>>
    BY <1>1 DEF vars, entryVars
  <1>3. /\ cur <= Len(e) /\ Len(chunk[t]) = outputSeq[t] /\ Marked(chunk[t], boundary[t])
        /\ StreamOK(st, chunk[t], outputSeq[t], sub, e, cur)
        /\ TurnOK(turn[t], st, e, outputSeq[t])
        /\ AckOK(ack[t], st.lastSequence, wire[t], sub.epoch)
    BY <1>0 DEF RendererAt
  <1>4. cur + 1 \in 1..Len(e) /\ n \in 1..outputSeq[t] /\ n \in Nat
    <2>1. cur + 1 \in 1..Len(e)
      BY <1>0, <1>1
    <2>2. n \in Outs(e)
      BY <1>1, <2>1 DEF Outs
    <2>3. Outs(e) \subseteq 1..outputSeq[t]
      BY <1>0 DEF TaskOrderAt, TaskOrder
    <2> QED BY <1>0, <2>1, <2>2, <2>3
  <1>5. st.lastSequence \in Nat /\ \A i \in 1..(cur + 1) : i \in 1..cur \/ i = cur + 1
    BY <1>0 DEF StreamRecord
  <1>6. \A i \in 1..cur : IsOutput(e[i]) => e[i].seq \in Nat
    <2>1. \A i \in 1..cur : i \in 1..Len(e)
      BY <1>0, <1>3
    <2>2. \A i \in 1..Len(e) : e[i] \in Event
      BY <1>0, ElementOfSeq
    <2> QED BY <2>1, <2>2 DEF Event
  <1>7. CASE accepts
    <2> DEFINE a == Accept(t, n)
    <2>0. st.state = "open" /\ n > st.lastSequence
      BY <1>7 DEF accepts
    <2>1. /\ a \in StreamRecord /\ ParserOK(a, chunk[t])
          /\ a.lastSequence = n /\ a.observed = TRUE
          /\ a.state = st.state /\ a.epoch = st.epoch
          /\ a.complete => a.seen = 1..n
      <3>1. n \in 1..Len(chunk[t])
        BY <1>3, <1>4
      <3>2. ParserOK(st, chunk[t]) /\ (st.complete => st.seen = 1..st.lastSequence)
        BY <1>3 DEF StreamOK
      <3> QED BY <1>0, <1>3, <3>1, <3>2, AcceptOK
    <2> HIDE DEF a
    <2>2. Consumed(t, n) \in AckRecord /\ AckOK(Consumed(t, n), n, wire[t], sub.epoch)
      BY <1>0, <1>3, <1>4, <1>5, <2>0, ConsumedOK
    <2>3. /\ stream'[t] = a /\ ack'[t] = Consumed(t, n) /\ cursor'[t] = cur + 1
          /\ stream' \in [Tasks -> StreamRecord] /\ ack' \in [Tasks -> AckRecord]
          /\ cursor' \in [Tasks -> Nat]
      <3>1. stream' = [stream EXCEPT ![t] = a] /\ ack' = [ack EXCEPT ![t] = Consumed(t, n)]
        BY <1>1, <1>7 DEF a
      <3>2. cursor' = [cursor EXCEPT ![t] = cur + 1] /\ cur + 1 \in Nat
        BY <1>0, <1>1
      <3> QED BY <1>0, <2>1, <2>2, <3>1, <3>2
    <2>4. RendererShape' /\ SubscriptionOK'
      BY <1>0, <1>1, <2>3 DEF RendererShape, SubscriptionOK
    <2>5. StreamOK(a, chunk[t], outputSeq[t], sub, e, cur + 1)
      <3>1. ASSUME a.epoch = sub.epoch, a.state = "open", NEW i \in 1..(cur + 1), IsOutput(e[i])
            PROVE  e[i].seq <= n
        <4>1. CASE i = cur + 1
          BY <1>4, <4>1
        <4>2. CASE i \in 1..cur
          <5>1. e[i].seq <= st.lastSequence /\ e[i].seq \in Nat
            BY <1>3, <1>6, <2>1, <3>1, <4>2 DEF StreamOK
          <5> QED BY <1>4, <1>5, <2>0, <5>1
        <4> QED BY <1>5, <4>1, <4>2
      <3>2. a.epoch <= sub.epoch /\ (a.epoch = sub.epoch => sub.ready)
        BY <1>3, <2>1 DEF StreamOK
      <3>3. a.lastSequence <= outputSeq[t] /\ a.state # "none"
        BY <1>0, <1>4, <2>0, <2>1
      <3> QED BY <2>1, <3>1, <3>2, <3>3 DEF StreamOK
    <2>6. TurnOK(turn[t], a, e, outputSeq[t])
      BY <1>3, <2>0, <2>1 DEF TurnOK
    <2>7. RendererAt(t)'
      BY <1>0, <1>1, <1>2, <1>3, <2>1, <2>2, <2>3, <2>5, <2>6 DEF RendererAt
    <2>8. ASSUME NEW x \in Tasks, x # t PROVE RendererAt(x)'
      <3>1. stream'[x] = stream[x] /\ ack'[x] = ack[x] /\ cursor'[x] = cursor[x]
        BY <1>0, <1>1, <1>7, <2>8
      <3>2. UNCHANGED <<emitted[x], outputSeq[x], boundary[x], chunk[x], sub, wire[x], turn[x]>>
        BY <1>1, <1>2
      <3>3. RendererAt(x)
        BY <1>0
      <3> QED BY <3>1, <3>2, <3>3 DEF RendererAt
    <2> QED BY <2>4, <2>7, <2>8 DEF RendererKept
  <1>8. CASE ~accepts
    <2>1. stream' = stream /\ ack' = ack /\ cursor'[t] = cur + 1 /\ cursor' \in [Tasks -> Nat]
      BY <1>0, <1>1, <1>8
    <2>2. RendererShape' /\ SubscriptionOK'
      BY <1>0, <1>1, <2>1 DEF RendererShape, SubscriptionOK
    <2>3. StreamOK(st, chunk[t], outputSeq[t], sub, e, cur + 1)
      <3>1. ASSUME st.epoch = sub.epoch, st.state = "open" PROVE n <= st.lastSequence
        <4>1. sub.ready
          BY <1>3, <3>1 DEF StreamOK
        <4>2. Receiving("output")
          BY <1>0, <4>1 DEF SubscriptionOK, Receiving
        <4> QED BY <1>4, <1>5, <1>8, <3>1, <4>2 DEF accepts
      <3> QED BY <1>3, <1>5, <3>1 DEF StreamOK
    <2>4. RendererAt(t)'
      BY <1>0, <1>1, <1>2, <1>3, <2>1, <2>3 DEF RendererAt
    <2>5. ASSUME NEW x \in Tasks, x # t PROVE RendererAt(x)'
      <3>1. cursor'[x] = cursor[x]
        BY <1>0, <1>1, <2>5
      <3> QED BY <1>0, <1>1, <1>2, <2>1, <3>1 DEF RendererAt
    <2> QED BY <2>2, <2>4, <2>5 DEF RendererKept
  <1> QED BY <1>7, <1>8

----------------------------------------------------------------------------
(* Turns are measured and settled. *)

(* drainAgentTurnOutput changes nothing of a stream but what was observed.  *)
LEMMA FlushedOK ==
  ASSUME OutputInvariant, NEW x \in Tasks, NEW z \in StreamRecord, NEW tn \in TurnRecord,
         z.state = stream[x].state, z.epoch = stream[x].epoch,
         z.lastSequence = stream[x].lastSequence, z.complete = stream[x].complete,
         z.resync = stream[x].resync, z.held = stream[x].held, z.seen = stream[x].seen,
         z.torn = stream[x].torn, z.observed = FALSE,
         tn.status = turn[x].status, tn.metrics = Flushed(x, stream[x])
  PROVE  /\ StreamOK(z, chunk[x], outputSeq[x], sub, emitted[x], cursor[x])
         /\ TurnOK(tn, z, emitted[x], outputSeq[x])
         /\ AckOK(ack[x], z.lastSequence, wire[x], sub.epoch)
  <1> DEFINE st == stream[x]
  <1>1. /\ StreamOK(st, chunk[x], outputSeq[x], sub, emitted[x], cursor[x])
        /\ TurnOK(turn[x], st, emitted[x], outputSeq[x])
        /\ AckOK(ack[x], st.lastSequence, wire[x], sub.epoch)
    BY RendererFacts DEF RendererAt
  <1>2. StreamOK(z, chunk[x], outputSeq[x], sub, emitted[x], cursor[x])
    <2>1. ParserOK(z, chunk[x])
      BY <1>1 DEF StreamOK, ParserOK
    <2> QED BY <1>1, <2>1 DEF StreamOK
  <1>3. TurnOK(tn, z, emitted[x], outputSeq[x])
    <2>1. ASSUME tn.metrics = "complete" PROVE z.seen = 1..z.lastSequence
      <3>1. CASE st.observed
        <4>1. st.complete
          BY <2>1, <3>1 DEF Flushed, Merge
        <4> QED BY <1>1, <4>1 DEF StreamOK
      <3>2. CASE ~st.observed
        <4>1. turn[x].metrics = "complete"
          BY <2>1, <3>2 DEF Flushed
        <4> QED BY <1>1, <3>2, <4>1 DEF TurnOK
      <3> QED BY <3>1, <3>2
    <2>2. ASSUME tn.status \in FinalKinds
          PROVE  /\ z.state = "closed" /\ FinalKinds \cap Statuses(emitted[x]) # {}
                 /\ tn.metrics = "complete" => z.seen = 1..outputSeq[x]
      <3>1. st.state = "closed" /\ ~st.observed
        BY <1>1, <2>2 DEF TurnOK
      <3>2. tn.metrics = turn[x].metrics
        BY <3>1 DEF Flushed
      <3> QED BY <1>1, <2>2, <3>1, <3>2 DEF TurnOK
    <2> QED BY <2>1, <2>2 DEF TurnOK
  <1> QED BY <1>1, <1>2, <1>3

(* What a flush writes. *)
LEMMA FlushedShape ==
  ASSUME OutputInvariant, NEW x \in Tasks
  PROVE  /\ Flushed(x, stream[x]) \in {"none", "complete", "incomplete"}
         /\ [turn[x] EXCEPT !.metrics = Flushed(x, stream[x])] \in TurnRecord
         /\ [turn[x] EXCEPT !.metrics = Flushed(x, stream[x])].status = turn[x].status
         /\ [turn[x] EXCEPT !.metrics = Flushed(x, stream[x])].metrics = Flushed(x, stream[x])
  <1>1. turn[x] \in TurnRecord
    BY RendererFacts
  <1>2. Flushed(x, stream[x]) \in {"none", "complete", "incomplete"}
    BY <1>1 DEF Flushed, Merge, TurnRecord
  <1> QED BY <1>1, <1>2 DEF TurnRecord

LEMMA FlushStreamsKept ==
  ASSUME OutputInvariant, flushStreams
  PROVE  RendererKept
  <1>1. /\ stream' = [x \in Tasks |-> [stream[x] EXCEPT !.observed = FALSE]]
        /\ turn' = [x \in Tasks |-> [turn[x] EXCEPT !.metrics = Flushed(x, stream[x])]]
        /\ UNCHANGED <<vars, boundary, chunk, cursor, sub, listener, ack, wire>>
    BY DEF flushStreams
  <1>2. UNCHANGED <<emitted, outputSeq>>
    BY <1>1 DEF vars, entryVars
  <1>3. ASSUME NEW x \in Tasks
        PROVE  stream'[x] \in StreamRecord /\ turn'[x] \in TurnRecord /\ RendererAt(x)'
    <2> DEFINE z == [stream[x] EXCEPT !.observed = FALSE]
    <2>1. stream[x] \in StreamRecord /\ RendererAt(x)
      BY RendererFacts
    <2>2. /\ z \in StreamRecord
          /\ z.state = stream[x].state /\ z.epoch = stream[x].epoch
          /\ z.lastSequence = stream[x].lastSequence /\ z.complete = stream[x].complete
          /\ z.resync = stream[x].resync /\ z.held = stream[x].held /\ z.seen = stream[x].seen
          /\ z.torn = stream[x].torn /\ z.observed = FALSE
      BY <2>1 DEF StreamRecord
    <2>3. stream'[x] = z /\ turn'[x] = [turn[x] EXCEPT !.metrics = Flushed(x, stream[x])]
      BY <1>1
    <2> HIDE DEF z
    <2>4. /\ turn'[x] \in TurnRecord /\ turn'[x].status = turn[x].status
          /\ turn'[x].metrics = Flushed(x, stream[x])
      BY <2>3, FlushedShape
    <2>5. /\ StreamOK(z, chunk[x], outputSeq[x], sub, emitted[x], cursor[x])
          /\ TurnOK(turn'[x], z, emitted[x], outputSeq[x])
          /\ AckOK(ack[x], z.lastSequence, wire[x], sub.epoch)
      BY <2>2, <2>4, FlushedOK
    <2> QED BY <1>1, <1>2, <2>1, <2>2, <2>3, <2>4, <2>5 DEF RendererAt
  <1>4. /\ stream' \in [Tasks -> StreamRecord] /\ turn' \in [Tasks -> TurnRecord]
    BY <1>1, <1>3
  <1>5. RendererShape' /\ SubscriptionOK'
    BY <1>1, <1>4, RendererFacts DEF RendererShape, SubscriptionOK
  <1> QED BY <1>3, <1>5 DEF RendererKept

(* finishAgentTurnOutput says "complete" of a stream that was registered    *)
(* and stayed under the present subscription, and that missed nothing.      *)
LEMMA FinishedClean ==
  ASSUME OutputInvariant, NEW t \in Tasks, NEW failed \in BOOLEAN,
         FinishedMetrics(t, failed) = "complete"
  PROVE  /\ ~failed /\ sub.ready /\ stream[t].epoch = sub.epoch
         /\ stream[t].seen = 1..stream[t].lastSequence
  <1> DEFINE st == stream[t]
             clean == ~failed /\ sub.ready /\ st.epoch = sub.epoch
  <1>1. /\ StreamOK(st, chunk[t], outputSeq[t], sub, emitted[t], cursor[t])
        /\ TurnOK(turn[t], st, emitted[t], outputSeq[t])
    BY RendererFacts DEF RendererAt
  <1>2. clean
    <2>1. CASE ~clean
      <3>1. FinishedMetrics(t, failed) = "incomplete"
        BY <2>1 DEF FinishedMetrics, Merge
      <3> QED BY <3>1
    <2> QED BY <2>1
  <1>3. CASE st.lastSequence = 0
    <2>1. FinishedMetrics(t, failed) = Merge(Flushed(t, st), st.complete /\ clean)
      BY <1>2, <1>3 DEF FinishedMetrics
    <2>2. st.complete
      BY <2>1 DEF Merge
    <2> QED BY <1>1, <1>2, <2>2 DEF StreamOK
  <1>4. CASE st.lastSequence # 0
    <2>1. Flushed(t, st) = "complete"
      BY <1>2, <1>4 DEF FinishedMetrics
    <2>2. CASE st.observed
      <3>1. st.complete
        BY <2>1, <2>2 DEF Flushed, Merge
      <3> QED BY <1>1, <1>2, <3>1 DEF StreamOK
    <2>3. CASE ~st.observed
      <3>1. turn[t].metrics = "complete"
        BY <2>1, <2>3 DEF Flushed
      <3> QED BY <1>1, <1>2, <2>3, <3>1 DEF TurnOK
    <2> QED BY <2>2, <2>3
  <1> QED BY <1>3, <1>4

(* A stream of the present subscription that sees the terminal status has   *)
(* accepted the newest chunk of its task.                                   *)
LEMMA TerminalIsLast ==
  ASSUME OutputInvariant, NEW t \in Tasks, cursor[t] < Len(emitted[t]),
         emitted[t][cursor[t] + 1].kind = "terminal",
         stream[t].state = "open", stream[t].epoch = sub.epoch
  PROVE  stream[t].lastSequence = outputSeq[t]
  <1> DEFINE e == emitted[t]
             cur == cursor[t]
             m == outputSeq[t]
             st == stream[t]
  <1>1. /\ StreamOK(st, chunk[t], m, sub, e, cur)
        /\ NativeAt(t) /\ LedgerAt(t)
        /\ cur \in Nat /\ Len(e) \in Nat /\ m \in Nat /\ st \in StreamRecord
    BY RendererFacts DEF RendererAt
  <1>2. cur + 1 \in 1..Len(e) /\ st.lastSequence \in Nat /\ st.lastSequence <= m
    BY <1>1 DEF StreamRecord, StreamOK
  <1>3. "terminal" \in Statuses(e)
    BY <1>2 DEF Statuses, OutputKinds
  <1>4. Batch(t) = <<>> /\ queued[t] = <<>>
    BY <1>1, <1>3 DEF LedgerAt, Ledger
  <1>5. ASSUME m > 0 PROVE m <= st.lastSequence
    <2>1. Outs(<<>>) = {}
      BY DEF Outs
    <2>2. m \in Outs(e)
      BY <1>1, <1>4, <1>5, <2>1 DEF NativeAt, NewestAt, NewestKept
    <2>3. PICK j \in 1..Len(e) : IsOutput(e[j]) /\ e[j].seq = m
      BY <2>2 DEF Outs
    <2>4. j < cur + 1
      BY <1>1, <1>2, <2>3 DEF NativeAt, EndsLast
    <2>5. j \in 1..cur
      BY <1>1, <2>4
    <2> QED BY <1>1, <2>3, <2>5 DEF StreamOK
  <1> QED BY <1>1, <1>2, <1>5

(* The terminal status of task t settles its turn.                          *)
LEMMA SettledOK ==
  ASSUME OutputInvariant, NEW t \in Tasks, cursor[t] < Len(emitted[t]),
         stream[t].state = "open", NEW failed \in BOOLEAN,
         NEW kind, kind = emitted[t][cursor[t] + 1].kind,
         kind \in FinalKinds, kind = "lost" => failed,
         NEW z \in StreamRecord, NEW tn \in TurnRecord,
         z.state = "closed", z.epoch = stream[t].epoch,
         z.lastSequence = stream[t].lastSequence, z.complete = stream[t].complete,
         z.resync = stream[t].resync, z.held = stream[t].held, z.seen = stream[t].seen,
         z.torn = stream[t].torn, z.observed = FALSE,
         tn.status = kind, tn.metrics = FinishedMetrics(t, failed)
  PROVE  /\ StreamOK(z, chunk[t], outputSeq[t], sub, emitted[t], cursor[t] + 1)
         /\ TurnOK(tn, z, emitted[t], outputSeq[t])
         /\ AckOK(ack[t], z.lastSequence, wire[t], sub.epoch)
  <1> DEFINE st == stream[t]
             e == emitted[t]
             cur == cursor[t]
  <1>1. /\ StreamOK(st, chunk[t], outputSeq[t], sub, e, cur)
        /\ TurnOK(turn[t], st, e, outputSeq[t])
        /\ AckOK(ack[t], st.lastSequence, wire[t], sub.epoch)
        /\ cur \in Nat /\ Len(e) \in Nat
    BY RendererFacts DEF RendererAt
  <1>2. StreamOK(z, chunk[t], outputSeq[t], sub, e, cur + 1)
    <2>1. ParserOK(z, chunk[t])
      BY <1>1 DEF StreamOK, ParserOK
    <2> QED BY <1>1, <2>1 DEF StreamOK
  <1>3. cur + 1 \in 1..Len(e)
    BY <1>1
  <1>4. FinalKinds \cap Statuses(e) # {}
    BY <1>3 DEF Statuses, FinalKinds, OutputKinds
  <1>5. ASSUME tn.metrics = "complete"
        PROVE  z.seen = 1..z.lastSequence /\ z.lastSequence = outputSeq[t]
    <2>1. ~failed /\ st.epoch = sub.epoch /\ st.seen = 1..st.lastSequence
      BY <1>5, FinishedClean
    <2>2. kind = "terminal"
      BY <2>1 DEF FinalKinds
    <2>3. st.lastSequence = outputSeq[t]
      BY <2>1, <2>2, TerminalIsLast
    <2> QED BY <2>1, <2>3
  <1>6. TurnOK(tn, z, e, outputSeq[t])
    BY <1>4, <1>5 DEF TurnOK
  <1> QED BY <1>1, <1>2, <1>6

LEMMA StatusEventKept ==
  ASSUME OutputInvariant, NEW t \in Tasks, handleStatusEvent(t)
  PROVE  RendererKept
  <1> DEFINE e == emitted[t]
             cur == cursor[t]
             kind == e[cur + 1].kind
             st == stream[t]
             settles == Receiving("status") /\ st.state = "open" /\ kind # "running"
  <1>0. /\ RendererShape /\ SubscriptionOK
        /\ \A x \in Tasks : RendererAt(x)
        /\ e \in Seq(Event) /\ cur \in Nat /\ Len(e) \in Nat
        /\ cursor \in [Tasks -> Nat] /\ stream \in [Tasks -> StreamRecord]
        /\ turn \in [Tasks -> TurnRecord]
    BY RendererFacts DEF RendererShape
  <1>1. /\ cur < Len(e) /\ ~IsOutput(e[cur + 1])
        /\ cursor' = [cursor EXCEPT ![t] = cur + 1]
        /\ UNCHANGED <<vars, boundary, chunk, sub, listener, ack, wire>>
    BY <1>0 DEF handleStatusEvent, Pending, NextEvent, Dispatched
  <1>2. /\ ~settles =>
              /\ stream' = stream
              /\ turn' = turn \/ (st.state = "open" /\ turn' = [turn EXCEPT ![t].status = "running"])
        /\ settles =>
              /\ stream' = [x \in Tasks |-> [stream[x] EXCEPT !.observed = FALSE,
                               !.state = IF x = t THEN "closed" ELSE @]]
              /\ \E failed \in BOOLEAN :
                    /\ kind = "lost" => failed
                    /\ turn' = [x \in Tasks |->
                          IF x = t
                          THEN [status |-> kind, metrics |-> FinishedMetrics(t, failed)]
                          ELSE [turn[x] EXCEPT !.metrics = Flushed(x, stream[x])]]
    BY DEF handleStatusEvent, NextEvent
  <1> HIDE DEF settles
  <1>3. UNCHANGED <<emitted, outputSeq>>
    BY <1>1 DEF vars, entryVars
  <1>4. /\ cur + 1 \in 1..Len(e) /\ cursor'[t] = cur + 1 /\ cursor' \in [Tasks -> Nat]
        /\ \A x \in Tasks : x # t => cursor'[x] = cursor[x]
        /\ \A i \in 1..(cur + 1) : i \in 1..cur \/ i = cur + 1
    BY <1>0, <1>1
  <1>5. CASE ~settles
    <2>1. stream' = stream
      BY <1>2, <1>5
    <2>2. /\ turn' \in [Tasks -> TurnRecord]
          /\ \A x \in Tasks : x # t => turn'[x] = turn[x]
          /\ turn'[t].metrics = turn[t].metrics
          /\ turn'[t].status = turn[t].status
             \/ (st.state = "open" /\ turn'[t].status = "running")
      <3>1. CASE turn' = turn
        BY <1>0, <3>1
      <3>2. CASE st.state = "open" /\ turn' = [turn EXCEPT ![t].status = "running"]
        BY <1>0, <3>2 DEF TurnRecord
      <3> QED BY <1>2, <1>5, <3>1, <3>2
    <2>3. RendererShape' /\ SubscriptionOK'
      BY <1>0, <1>1, <1>4, <2>1, <2>2 DEF RendererShape, SubscriptionOK
    <2>4. /\ StreamOK(st, chunk[t], outputSeq[t], sub, e, cur)
          /\ TurnOK(turn[t], st, e, outputSeq[t])
      BY <1>0 DEF RendererAt
    <2>5. StreamOK(st, chunk[t], outputSeq[t], sub, e, cur + 1)
      BY <1>1, <1>4, <2>4 DEF StreamOK
    <2>6. TurnOK(turn'[t], st, e, outputSeq[t])
      BY <2>2, <2>4 DEF TurnOK, FinalKinds
    <2>7. RendererAt(t)'
      BY <1>0, <1>1, <1>3, <1>4, <2>1, <2>5, <2>6 DEF RendererAt
    <2>8. ASSUME NEW x \in Tasks, x # t PROVE RendererAt(x)'
      BY <1>0, <1>1, <1>3, <1>4, <2>1, <2>2, <2>8 DEF RendererAt
    <2> QED BY <2>3, <2>7, <2>8 DEF RendererKept
  <1>6. CASE settles
    <2>0. st.state = "open" /\ kind \in FinalKinds
      <3>1. e[cur + 1] \in Event
        BY <1>0, <1>4, ElementOfSeq
      <3> QED BY <1>1, <1>6, <3>1 DEF settles, Event, IsOutput
    <2>1. PICK failed \in BOOLEAN :
            /\ kind = "lost" => failed
            /\ turn' = [x \in Tasks |->
                  IF x = t
                  THEN [status |-> kind, metrics |-> FinishedMetrics(t, failed)]
                  ELSE [turn[x] EXCEPT !.metrics = Flushed(x, stream[x])]]
      BY <1>2, <1>6
    <2>2. stream' = [x \in Tasks |-> [stream[x] EXCEPT !.observed = FALSE,
                        !.state = IF x = t THEN "closed" ELSE @]]
      BY <1>2, <1>6
    <2>3. ASSUME NEW x \in Tasks
          PROVE  /\ stream'[x] \in StreamRecord
                 /\ stream'[x].state = (IF x = t THEN "closed" ELSE stream[x].state)
                 /\ stream'[x].epoch = stream[x].epoch
                 /\ stream'[x].lastSequence = stream[x].lastSequence
                 /\ stream'[x].complete = stream[x].complete
                 /\ stream'[x].resync = stream[x].resync /\ stream'[x].held = stream[x].held
                 /\ stream'[x].seen = stream[x].seen /\ stream'[x].torn = stream[x].torn
                 /\ stream'[x].observed = FALSE
      <3>1. stream[x] \in StreamRecord
        BY <1>0
      <3>2. stream'[x] = [stream[x] EXCEPT !.observed = FALSE,
                             !.state = IF x = t THEN "closed" ELSE @]
        BY <2>2
      <3> QED BY <3>1, <3>2 DEF StreamRecord
    <2>4. /\ turn'[t].status = kind /\ turn'[t].metrics = FinishedMetrics(t, failed)
          /\ turn'[t] \in TurnRecord
      <3>1. turn'[t] = [status |-> kind, metrics |-> FinishedMetrics(t, failed)]
        BY <2>1
      <3>2. Flushed(t, st) \in {"none", "complete", "incomplete"}
        BY FlushedShape
      <3>3. FinishedMetrics(t, failed) \in {"none", "complete", "incomplete"}
        BY <3>2 DEF FinishedMetrics, Merge
      <3> QED BY <2>0, <3>1, <3>3 DEF TurnRecord
    <2>5. ASSUME NEW x \in Tasks, x # t
          PROVE  /\ turn'[x] \in TurnRecord /\ turn'[x].status = turn[x].status
                 /\ turn'[x].metrics = Flushed(x, stream[x])
      <3>1. turn'[x] = [turn[x] EXCEPT !.metrics = Flushed(x, stream[x])]
        BY <2>1, <2>5
      <3> QED BY <3>1, FlushedShape
    <2>6. stream' \in [Tasks -> StreamRecord] /\ turn' \in [Tasks -> TurnRecord]
      <3>1. \A x \in Tasks : turn'[x] \in TurnRecord
        BY <2>4, <2>5
      <3> QED BY <2>1, <2>2, <2>3, <3>1
    <2>7. RendererShape' /\ SubscriptionOK'
      BY <1>0, <1>1, <1>4, <2>6 DEF RendererShape, SubscriptionOK
    <2>8. RendererAt(t)'
      <3>1. /\ StreamOK(stream'[t], chunk[t], outputSeq[t], sub, e, cur + 1)
            /\ TurnOK(turn'[t], stream'[t], e, outputSeq[t])
            /\ AckOK(ack[t], stream'[t].lastSequence, wire[t], sub.epoch)
        BY <1>1, <2>0, <2>1, <2>3, <2>4, SettledOK
      <3> QED BY <1>0, <1>1, <1>3, <1>4, <3>1 DEF RendererAt
    <2>9. ASSUME NEW x \in Tasks, x # t PROVE RendererAt(x)'
      <3>1. stream'[x].state = stream[x].state
        BY <2>3, <2>9
      <3>2. /\ StreamOK(stream'[x], chunk[x], outputSeq[x], sub, emitted[x], cursor[x])
            /\ TurnOK(turn'[x], stream'[x], emitted[x], outputSeq[x])
            /\ AckOK(ack[x], stream'[x].lastSequence, wire[x], sub.epoch)
        BY <2>3, <2>5, <2>9, <3>1, FlushedOK
      <3> QED BY <1>0, <1>1, <1>3, <1>4, <2>9, <3>2 DEF RendererAt
    <2> QED BY <2>7, <2>8, <2>9 DEF RendererKept
  <1> QED BY <1>5, <1>6

----------------------------------------------------------------------------
(* Acknowledgements. *)

(* A call that is answered keeps its epoch and its sequence number.         *)
LEMMA ReplyKept ==
  ASSUME OutputInvariant, [Next]_vars, outputSeq' = outputSeq, NEW t \in Tasks, NEW w \in wire[t],
         NEW state \in {"sent", "ok", "error"}, Reply(t, w, state),
         UNCHANGED <<boundary, chunk, cursor, sub, listener, stream, ack, turn>>
  PROVE  RendererKept
  <1> DEFINE v == [w EXCEPT !.state = state]
  <1>0. /\ RendererShape /\ w \in Call /\ wire \in [Tasks -> SUBSET Call]
        /\ ack \in [Tasks -> AckRecord]
        /\ \A x \in Tasks : AckOK(ack[x], stream[x].lastSequence, wire[x], sub.epoch)
    BY RendererFacts DEF RendererShape, RendererAt
  <1>1. wire' = [wire EXCEPT ![t] = (wire[t] \ {w}) \cup {v}]
    BY DEF Reply
  <1>2. v \in Call /\ v.epoch = w.epoch /\ v.seq = w.seq
    BY <1>0 DEF Call
  <1> HIDE DEF v
  <1>3. wire' \in [Tasks -> SUBSET Call]
    BY <1>0, <1>1, <1>2
  <1>4. ASSUME NEW x \in Tasks PROVE AckOK(ack'[x], stream[x].lastSequence, wire'[x], sub.epoch)
    <2>1. CASE x = t
      <3>1. wire'[t] = (wire[t] \ {w}) \cup {v}
        BY <1>0, <1>1
      <3> QED BY <1>0, <1>2, <2>1, <3>1 DEF AckOK
    <2>2. CASE x # t
      BY <1>0, <1>1, <2>2
    <2> QED BY <2>1, <2>2
  <1> QED BY <1>0, <1>3, <1>4, RendererIdle

(* A flush sends what was consumed under the present subscription.          *)
LEMMA FlushKept ==
  ASSUME OutputInvariant, [Next]_vars, NEW t \in Tasks, flush(t)
  PROVE  RendererKept
  <1> DEFINE c == [epoch |-> ack[t].epoch, seq |-> ack[t].consumed, state |-> "sent"]
  <1>0. /\ RendererShape /\ wire \in [Tasks -> SUBSET Call]
        /\ ack \in [Tasks -> AckRecord] /\ sub.epoch \in Nat \ {0}
        /\ \A x \in Tasks : AckOK(ack[x], stream[x].lastSequence, wire[x], sub.epoch)
    BY RendererFacts DEF RendererShape, RendererAt
  <1>1. /\ UNCHANGED <<vars, boundary, chunk, cursor, sub, listener, stream, turn>>
        /\ \/ ack[t].epoch = sub.epoch /\ ack' = ack /\ wire' = [wire EXCEPT ![t] = wire[t] \cup {c}]
           \/ wire' = wire /\ ack' = [ack EXCEPT ![t].scheduled = FALSE]
    BY DEF flush, AckCurrent
  <1>2. outputSeq' = outputSeq
    BY <1>1 DEF vars, entryVars
  <1>3. CASE ack[t].epoch = sub.epoch /\ ack' = ack /\ wire' = [wire EXCEPT ![t] = wire[t] \cup {c}]
    <2>1. ack[t] \in AckRecord
      BY <1>0
    <2>2. c \in Call /\ c.epoch = sub.epoch /\ c.seq = ack[t].consumed
      BY <1>3, <2>1 DEF Call, AckRecord
    <2> HIDE DEF c
    <2>3. wire' \in [Tasks -> SUBSET Call]
      BY <1>0, <1>3, <2>2
    <2>4. ASSUME NEW x \in Tasks PROVE AckOK(ack'[x], stream[x].lastSequence, wire'[x], sub.epoch)
      <3>1. CASE x = t
        <4>1. wire'[t] = wire[t] \cup {c} /\ ack'[t] = ack[t] /\ ack[t].consumed \in Nat
          BY <1>0, <1>3, <2>1 DEF AckRecord
        <4> QED BY <1>0, <1>3, <2>2, <3>1, <4>1 DEF AckOK
      <3>2. CASE x # t
        BY <1>0, <1>3, <3>2
      <3> QED BY <3>1, <3>2
    <2> QED BY <1>0, <1>1, <1>2, <1>3, <2>3, <2>4, RendererIdle
  <1>4. CASE wire' = wire /\ ack' = [ack EXCEPT ![t].scheduled = FALSE]
    <2>1. ack[t] \in AckRecord
      BY <1>0
    <2>2. /\ ack'[t] \in AckRecord /\ ack'[t].epoch = ack[t].epoch
          /\ ack'[t].consumed = ack[t].consumed /\ ack'[t].acknowledged = ack[t].acknowledged
      BY <1>0, <1>4, <2>1 DEF AckRecord
    <2>3. ack' \in [Tasks -> AckRecord] /\ \A x \in Tasks : x # t => ack'[x] = ack[x]
      BY <1>0, <1>4, <2>2
    <2>4. ASSUME NEW x \in Tasks PROVE AckOK(ack'[x], stream[x].lastSequence, wire'[x], sub.epoch)
      <3>1. CASE x = t
        BY <1>0, <1>4, <2>2, <3>1 DEF AckOK
      <3>2. CASE x # t
        BY <1>0, <1>4, <2>3, <3>2
      <3> QED BY <3>1, <3>2
    <2> QED BY <1>0, <1>1, <1>2, <1>4, <2>3, <2>4, RendererIdle
  <1> QED BY <1>1, <1>3, <1>4

(* An answer counts for the owner that sent the call: never beyond what     *)
(* that owner consumed.                                                     *)
LEMMA ResumedKept ==
  ASSUME OutputInvariant, [Next]_vars, NEW t \in Tasks, NEW w \in wire[t], flush_resumed(t, w)
  PROVE  RendererKept
  <1> DEFINE o == ack[t]
             a == ack'[t]
  <1>0. /\ RendererShape /\ w \in Call /\ wire \in [Tasks -> SUBSET Call]
        /\ ack \in [Tasks -> AckRecord] /\ o \in AckRecord
        /\ \A x \in Tasks : AckOK(ack[x], stream[x].lastSequence, wire[x], sub.epoch)
    BY RendererFacts DEF RendererShape, RendererAt
  <1>1. /\ wire' = [wire EXCEPT ![t] = wire[t] \ {w}]
        /\ UNCHANGED <<vars, boundary, chunk, cursor, sub, listener, stream, turn>>
    BY DEF flush_resumed
  <1>2. \E y : /\ ack' = [ack EXCEPT ![t] = y]
               /\ \/ y = o
                  \/ y = [o EXCEPT !.scheduled = FALSE]
                  \/ w.epoch = o.epoch /\ y = [o EXCEPT !.acknowledged = w.seq, !.attempts = 0]
                  \/ y = [o EXCEPT !.attempts = o.attempts + 1, !.failed = TRUE, !.scheduled = FALSE]
                  \/ y = [o EXCEPT !.attempts = o.attempts + 1]
    <2> DEFINE next == CASE w.epoch # o.epoch -> o
                         [] w.epoch = o.epoch /\ ~AckCurrent(t) -> [o EXCEPT !.scheduled = FALSE]
                         [] w.epoch = o.epoch /\ AckCurrent(t) /\ w.state = "ok" ->
                               [o EXCEPT !.acknowledged = w.seq, !.attempts = 0]
                         [] OTHER ->
                               IF o.attempts + 1 >= MaxAttempts
                               THEN [o EXCEPT !.attempts = o.attempts + 1, !.failed = TRUE,
                                              !.scheduled = FALSE]
                               ELSE [o EXCEPT !.attempts = o.attempts + 1]
    <2>1. ack' = [ack EXCEPT ![t] = next]
      BY DEF flush_resumed
    <2>2. \/ next = o
          \/ next = [o EXCEPT !.scheduled = FALSE]
          \/ w.epoch = o.epoch /\ next = [o EXCEPT !.acknowledged = w.seq, !.attempts = 0]
          \/ next = [o EXCEPT !.attempts = o.attempts + 1, !.failed = TRUE, !.scheduled = FALSE]
          \/ next = [o EXCEPT !.attempts = o.attempts + 1]
      OBVIOUS
    <2> HIDE DEF next
    <2> QED BY <2>1, <2>2
  <1>3. outputSeq' = outputSeq
    BY <1>1 DEF vars, entryVars
  <1>4. /\ o.epoch \in Nat /\ o.consumed \in Nat /\ o.acknowledged \in Nat /\ o.attempts \in Nat
        /\ w.seq \in Nat /\ w.epoch \in Nat
        /\ o.acknowledged <= o.consumed /\ (w.epoch = o.epoch => w.seq <= o.consumed)
    BY <1>0 DEF AckRecord, Call, AckOK
  <1>5. /\ a \in AckRecord /\ a.epoch = o.epoch /\ a.consumed = o.consumed
        /\ a.acknowledged = o.acknowledged \/ (w.epoch = o.epoch /\ a.acknowledged = w.seq)
    <2>1. ASSUME NEW y,
                 \/ y = o
                 \/ y = [o EXCEPT !.scheduled = FALSE]
                 \/ w.epoch = o.epoch /\ y = [o EXCEPT !.acknowledged = w.seq, !.attempts = 0]
                 \/ y = [o EXCEPT !.attempts = o.attempts + 1, !.failed = TRUE, !.scheduled = FALSE]
                 \/ y = [o EXCEPT !.attempts = o.attempts + 1]
          PROVE  /\ y \in AckRecord /\ y.epoch = o.epoch /\ y.consumed = o.consumed
                 /\ y.acknowledged = o.acknowledged \/ (w.epoch = o.epoch /\ y.acknowledged = w.seq)
      <3> HIDE DEF o
      <3>1. CASE y = o
        BY <1>0, <3>1
      <3>2. CASE y = [o EXCEPT !.scheduled = FALSE]
        BY <1>0, <3>2 DEF AckRecord
      <3>3. CASE w.epoch = o.epoch /\ y = [o EXCEPT !.acknowledged = w.seq, !.attempts = 0]
        BY <1>0, <1>4, <3>3 DEF AckRecord
      <3>4. CASE y = [o EXCEPT !.attempts = o.attempts + 1, !.failed = TRUE, !.scheduled = FALSE]
        <4> DEFINE k == o.attempts + 1
        <4>1. o \in AckRecord /\ k \in Nat /\ y = [o EXCEPT !.attempts = k, !.failed = TRUE, !.scheduled = FALSE]
          BY <1>0, <1>4, <3>4
        <4> HIDE DEF k
        <4> QED BY <4>1 DEF AckRecord
      <3>5. CASE y = [o EXCEPT !.attempts = o.attempts + 1]
        BY <1>0, <1>4, <3>5 DEF AckRecord
      <3> QED BY <2>1, <3>1, <3>2, <3>3, <3>4, <3>5
    <2>2. PICK y :
            /\ ack' = [ack EXCEPT ![t] = y]
            /\ \/ y = o
               \/ y = [o EXCEPT !.scheduled = FALSE]
               \/ w.epoch = o.epoch /\ y = [o EXCEPT !.acknowledged = w.seq, !.attempts = 0]
               \/ y = [o EXCEPT !.attempts = o.attempts + 1, !.failed = TRUE, !.scheduled = FALSE]
               \/ y = [o EXCEPT !.attempts = o.attempts + 1]
      BY <1>2
    <2>3. a = y
      BY <1>0, <2>2
    <2> HIDE DEF a, o
    <2> QED BY <2>1, <2>2, <2>3
  <1>6. ack' \in [Tasks -> AckRecord] /\ \A x \in Tasks : x # t => ack'[x] = ack[x]
    BY <1>0, <1>2, <1>5
  <1> HIDE DEF a
  <1>7. wire' \in [Tasks -> SUBSET Call] /\ wire'[t] = wire[t] \ {w}
    BY <1>0, <1>1
  <1>8. ASSUME NEW x \in Tasks PROVE AckOK(ack'[x], stream[x].lastSequence, wire'[x], sub.epoch)
    <2>1. CASE x = t
      <3>1. a.acknowledged <= a.consumed
        BY <1>4, <1>5
      <3> QED BY <1>0, <1>5, <1>7, <2>1, <3>1 DEF AckOK, a
    <2>2. CASE x # t
      <3>1. wire'[x] = wire[x] /\ ack'[x] = ack[x]
        BY <1>0, <1>1, <1>6, <2>2
      <3> QED BY <1>0, <3>1
    <2> QED BY <2>1, <2>2
  <1> QED BY <1>0, <1>1, <1>3, <1>6, <1>7, <1>8, RendererIdle

----------------------------------------------------------------------------
(* The invariant of the composition. *)

LEMMA OutputStep == OutputInvariant /\ [TurnOutputNext]_allVars => OutputInvariant'
  <1> SUFFICES ASSUME OutputInvariant, [TurnOutputNext]_allVars PROVE OutputInvariant'
    OBVIOUS
  <1>1. NativeInvariant /\ [Next]_vars /\ NativeInvariant'
    BY NativeSteps, NativeStepKeeps DEF OutputInvariant
  <1>2. ack \in [Tasks -> AckRecord] /\ wire \in [Tasks -> SUBSET Call]
        /\ \A x \in Tasks : AckOK(ack[x], stream[x].lastSequence, wire[x], sub.epoch)
    BY RendererFacts DEF RendererShape, RendererAt
  <1>3. ASSUME outputSeq' = outputSeq, UNCHANGED rendererVars PROVE RendererKept
    BY <1>1, <1>2, <1>3, RendererIdle DEF rendererVars
  <1>4. ASSUME NativeStep PROVE RendererKept
    <2>1. outputSeq' = outputSeq
      <3>1. CASE Holder
        <4>1. PICK t \in Tasks : TRUE
          BY <1>1, NativeFacts DEF Shape, OrderState
        <4> QED BY <3>1, <4>1, NumbersKept
      <3>2. CASE \E t \in Tasks : \/ start(t) \/ commit_start(t) \/ abandon_start(t)
                                  \/ acknowledge(t) \/ Waiter(t)
        BY <3>2, NumbersKept
      <3> QED BY <1>4, <3>1, <3>2 DEF NativeStep
    <2> QED BY <1>3, <1>4, <2>1 DEF NativeStep
  <1>5. ASSUME Subscribing PROVE RendererKept
    BY <1>5, SubscribingKept
  <1>6. ASSUME flushStreams PROVE RendererKept
    BY <1>6, FlushStreamsKept
  <1>7. ASSUME NEW t \in Tasks, Publishing(t) PROVE RendererKept
    BY <1>7, PublishingKept
  <1>8. ASSUME NEW t \in Tasks, registerStream(t) PROVE RendererKept
    BY <1>8, RegisterKept
  <1>9. ASSUME NEW t \in Tasks, Dispatch(t) PROVE RendererKept
    BY <1>9, OutputEventKept, StatusEventKept DEF Dispatch
  <1>10. ASSUME NEW t \in Tasks, NEW w \in wire[t], native_acknowledge(t, w) PROVE RendererKept
    <2>1. outputSeq' = outputSeq
      <3>1. CASE acknowledge_output(t, w.seq)
        BY <3>1, NumbersKept
      <3>2. CASE UNCHANGED vars
        BY <3>2 DEF vars, entryVars
      <3> QED BY <1>10, <3>1, <3>2 DEF native_acknowledge
    <2>2. Reply(t, w, "ok") \/ Reply(t, w, "error")
      BY <1>10 DEF native_acknowledge
    <2>3. UNCHANGED <<boundary, chunk, cursor, sub, listener, stream, ack, turn>>
      BY <1>10 DEF native_acknowledge
    <2> QED BY <1>1, <2>1, <2>2, <2>3, ReplyKept
  <1>11. ASSUME NEW t \in Tasks, NEW w \in wire[t], call_failed(t, w) PROVE RendererKept
    <2>1. /\ Reply(t, w, "error") /\ UNCHANGED vars
          /\ UNCHANGED <<boundary, chunk, cursor, sub, listener, stream, ack, turn>>
      BY <1>11 DEF call_failed
    <2>2. outputSeq' = outputSeq
      BY <2>1 DEF vars, entryVars
    <2> QED BY <1>1, <2>1, <2>2, ReplyKept
  <1>12. ASSUME NEW t \in Tasks, Acknowledging(t) PROVE RendererKept
    BY <1>1, <1>10, <1>12, FlushKept, ResumedKept DEF Acknowledging
  <1>13. ASSUME UNCHANGED allVars PROVE RendererKept
    <2>1. outputSeq' = outputSeq /\ UNCHANGED rendererVars
      BY <1>13 DEF allVars, vars, entryVars
    <2> QED BY <1>3, <2>1
  <1>14. RendererKept
    BY <1>4, <1>5, <1>6, <1>7, <1>8, <1>9, <1>11, <1>12, <1>13 DEF TurnOutputNext
  <1> QED BY <1>1, <1>14 DEF OutputInvariant, RendererInvariant, RendererKept

LEMMA OutputInit == TurnOutputInit => OutputInvariant
  <1> SUFFICES ASSUME TurnOutputInit PROVE OutputInvariant
    OBVIOUS
  <1> DEFINE States == {"none", "waiting", "attached", "ready", "abandoned", "orphan", "gone"}
  <1>1. NativeInvariant
    BY NativeInit DEF TurnOutputInit
  <1>2. \A t \in Tasks : emitted[t] = <<>> /\ outputSeq[t] = 0
    BY DEF TurnOutputInit, Init
  <1>3. NoStream \in StreamRecord /\ NoAck \in AckRecord /\ 1 \in Subs
    BY RendererAssumption DEF NoStream, NoAck, StreamRecord, AckRecord, Subs
  <1>4. /\ boundary = [t \in Tasks |-> [s \in Streams |-> TRUE]]
        /\ chunk = [t \in Tasks |-> <<>>] /\ cursor = [t \in Tasks |-> 0]
        /\ sub = [epoch |-> 1, ready |-> Subscribed, run |-> 1]
        /\ listener = [k \in Subs |-> [ch \in Channels |->
              CASE k > 1 -> "none" [] k = 1 /\ Subscribed -> "ready" [] OTHER -> "waiting"]]
        /\ stream = [t \in Tasks |-> NoStream] /\ ack = [t \in Tasks |-> NoAck]
        /\ wire = [t \in Tasks |-> {}]
        /\ turn = [t \in Tasks |-> [status |-> "none", metrics |-> "none"]]
    BY DEF TurnOutputInit, RendererInit
  <1>5. listener \in [Subs -> [Channels -> States]]
    <2>1. ASSUME NEW k \in Subs, NEW ch \in Channels
          PROVE  (CASE k > 1 -> "none" [] k = 1 /\ Subscribed -> "ready" [] OTHER -> "waiting") \in States
      OBVIOUS
    <2> HIDE DEF States
    <2> QED BY <1>4, <2>1
  <1>6. RendererShape
    <2>1. Subscribed \in BOOLEAN
      BY RendererAssumption
    <2>2. sub \in [epoch : Nat \ {0}, ready : BOOLEAN, run : Subs]
      BY <1>3, <1>4, <2>1
    <2>3. chunk \in [Tasks -> Seq(Chunk)]
      BY <1>4
    <2>4. turn \in [Tasks -> TurnRecord]
      BY <1>4 DEF TurnRecord
    <2>5. boundary \in [Tasks -> [Streams -> BOOLEAN]]
      BY <1>4
    <2> QED BY <1>3, <1>4, <1>5, <2>2, <2>3, <2>4, <2>5 DEF RendererShape
  <1>7. SubscriptionOK
    <2>1. sub.run = 1 /\ sub.ready = Subscribed /\ "output" \in Channels /\ Subscribed \in BOOLEAN
      BY <1>4, RendererAssumption DEF Channels
    <2>2. \A k \in Subs : listener[k]["output"] =
             (CASE k > 1 -> "none" [] k = 1 /\ Subscribed -> "ready" [] OTHER -> "waiting")
      BY <1>4, <2>1
    <2>3. \A k \in Subs : k \in Nat /\ k >= 1
      BY RendererAssumption DEF Subs
    <2>4. listener[1]["output"] = IF Subscribed THEN "ready" ELSE "waiting"
      BY <1>3, <2>2
    <2>5. \A k \in Subs : k > 1 => listener[k]["output"] = "none"
      BY <2>2
    <2> QED BY <2>1, <2>3, <2>4, <2>5 DEF SubscriptionOK
  <1>8. ASSUME NEW t \in Tasks PROVE RendererAt(t)
    <2>1. /\ emitted[t] = <<>> /\ outputSeq[t] = 0 /\ cursor[t] = 0 /\ chunk[t] = <<>>
          /\ boundary[t] = [s \in Streams |-> TRUE] /\ stream[t] = NoStream /\ ack[t] = NoAck
          /\ wire[t] = {} /\ turn[t].status = "none" /\ turn[t].metrics = "none"
          /\ sub.epoch = 1 /\ Len(<<>>) = 0
      BY <1>2, <1>4
    <2>2. /\ NoStream.state = "none" /\ NoStream.epoch = 0 /\ NoStream.lastSequence = 0
          /\ NoStream.complete = FALSE /\ NoStream.resync = [s \in Streams |-> FALSE]
          /\ NoStream.held = [s \in Streams |-> 0] /\ NoStream.torn = FALSE
      BY DEF NoStream
    <2>3. Marked(chunk[t], boundary[t])
      BY <2>1 DEF Marked, Unfinished
    <2>4. StreamOK(stream[t], chunk[t], outputSeq[t], sub, emitted[t], cursor[t])
      <3>1. ParserOK(stream[t], chunk[t])
        BY <2>1, <2>2 DEF ParserOK, Unfinished
      <3> QED BY <2>1, <2>2, <3>1 DEF StreamOK
    <2>5. TurnOK(turn[t], stream[t], emitted[t], outputSeq[t])
      BY <2>1 DEF TurnOK, FinalKinds
    <2>6. AckOK(ack[t], stream[t].lastSequence, wire[t], sub.epoch)
      BY <2>1, <2>2 DEF AckOK, NoAck
    <2> QED BY <2>1, <2>3, <2>4, <2>5, <2>6 DEF RendererAt
  <1> QED BY <1>1, <1>6, <1>7, <1>8 DEF OutputInvariant, RendererInvariant

----------------------------------------------------------------------------
(* The theorems.                                                            *)

(* The inductive invariant: what the native end, the subscription, the      *)
(* stream, the turn and the acknowledgements keep of each other through     *)
(* every step of agentTurnOutputPipeline.ts and task_registry.rs.           *)
THEOREM OutputInvariance == TurnOutputSpec => []OutputInvariant
  BY OutputInit, OutputStep, PTL DEF TurnOutputSpec

(* Types, and no counter ahead of the one it follows: acknowledged, then    *)
(* consumed, then accepted, then produced (agentOutputAcknowledgement.ts).  *)
THEOREM RendererTypeCorrect == TurnOutputSpec => []RendererTypeOK
  <1>1. ASSUME OutputInvariant PROVE RendererTypeOK
    <2>1. TypeOK
      BY <1>1, NativeFacts DEF OutputInvariant, DeliveryInvariant, OrderInvariant
    <2>2. ASSUME NEW t \in Tasks
          PROVE  /\ Len(chunk[t]) = outputSeq[t] /\ cursor[t] \in 0..Len(emitted[t])
                 /\ turn[t].metrics \in {"none", "complete", "incomplete"}
                 /\ ack[t].acknowledged <= ack[t].consumed
                 /\ ack[t].consumed <= stream[t].lastSequence
                 /\ stream[t].lastSequence <= outputSeq[t]
      <3>1. /\ RendererAt(t) /\ cursor[t] \in Nat /\ Len(emitted[t]) \in Nat
            /\ turn[t] \in TurnRecord
        BY <1>1, RendererFacts
      <3> QED BY <3>1 DEF RendererAt, StreamOK, AckOK, TurnRecord
    <2> QED BY <2>1, <2>2 DEF RendererTypeOK
  <1> QED BY <1>1, OutputInvariance, PTL

(* A settled turn whose stream is reported complete was given every chunk   *)
(* the agent printed: no loss in the ring, at the deadline, to a failed     *)
(* listener or to a resubscription goes unreported                          *)
(* (finishAgentTurnOutput).                                                 *)
THEOREM NothingLostUnreported == TurnOutputSpec => []CompleteMeansNothingLost
  <1>1. ASSUME OutputInvariant PROVE CompleteMeansNothingLost
    <2>1. \A t \in Tasks : TurnOK(turn[t], stream[t], emitted[t], outputSeq[t])
      BY <1>1, RendererFacts DEF RendererAt
    <2> QED BY <2>1 DEF TurnOK, CompleteMeansNothingLost
  <1> QED BY <1>1, OutputInvariance, PTL

(* The parser is never given a line joined across a gap, nor the end of a   *)
(* line whose beginning was lost (acceptAgentTurnOutput).                   *)
THEOREM LinesStayWhole == TurnOutputSpec => []NoTornLine
  <1>1. ASSUME OutputInvariant PROVE NoTornLine
    <2>1. \A t \in Tasks : ParserOK(stream[t], chunk[t])
      BY <1>1, RendererFacts DEF RendererAt, StreamOK
    <2> QED BY <2>1 DEF ParserOK, NoTornLine
  <1> QED BY <1>1, OutputInvariance, PTL
=============================================================================
