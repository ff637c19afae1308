----------------------- MODULE AgentTaskDeliveryProofs -----------------------
(****************************************************************************)
(* Proofs about AgentTaskDelivery for every set of tasks, every ring and    *)
(* window size, and for both kinds of sink: first the order of the chunks,  *)
(* then that it implements TaskEventChannel.                                *)
(****************************************************************************)
EXTENDS AgentTaskDelivery, FiniteSetTheorems, SequenceTheorems, WellFoundedInduction, TLAPS

----------------------------------------------------------------------------
(* Sequences of events: what each operation of the code does to the set of  *)
(* chunk numbers in a sequence and to their order.                          *)

LEMMA EmptyOuts == Outs(<<>>) = {} /\ Sorted(<<>>)
  BY DEF Outs, Sorted

(* Handing the next event of a batch to the sink.                           *)
LEMMA AppendOuts ==
  ASSUME NEW s \in Seq(Event), NEW e \in Event
  PROVE  /\ Append(s, e) \in Seq(Event)
         /\ Outs(Append(s, e)) = Outs(s) \cup (IF IsOutput(e) THEN {e.seq} ELSE {})
         /\ Sorted(s) /\ (IsOutput(e) => Below(Outs(s), {e.seq})) => Sorted(Append(s, e))
  <1> DEFINE r == Append(s, e)
  <1>1. /\ r \in Seq(Event) /\ Len(r) = Len(s) + 1 /\ Len(s) \in Nat
        /\ \A i \in 1..Len(s) : r[i] = s[i]
        /\ r[Len(s) + 1] = e
    BY AppendProperties, LenProperties
  <1> HIDE DEF r
  <1>2. Outs(r) = Outs(s) \cup (IF IsOutput(e) THEN {e.seq} ELSE {})
    <2>1. ASSUME NEW x \in Outs(r) PROVE x \in Outs(s) \cup (IF IsOutput(e) THEN {e.seq} ELSE {})
      BY <1>1, <2>1 DEF Outs
    <2>2. ASSUME NEW x \in Outs(s) PROVE x \in Outs(r)
      BY <1>1, <2>2 DEF Outs
    <2>3. IsOutput(e) => e.seq \in Outs(r)
      BY <1>1 DEF Outs
    <2> QED BY <2>1, <2>2, <2>3
  <1>3. ASSUME Sorted(s), IsOutput(e) => Below(Outs(s), {e.seq}) PROVE Sorted(r)
    <2>1. \A i \in 1..Len(s) : IsOutput(s[i]) => s[i].seq \in Outs(s)
      BY DEF Outs
    <2> QED BY <1>1, <1>3, <2>1 DEF Sorted, Below
  <1> QED BY <1>1, <1>2, <1>3 DEF r

(* A sequence that keeps some positions of another in their order.          *)
LEMMA SubseqOuts ==
  ASSUME NEW s \in Seq(Event), NEW r \in Seq(Event),
         NEW f \in [1..Len(r) -> 1..Len(s)],
         \A i, j \in 1..Len(r) : i < j => f[i] < f[j],
         \A i \in 1..Len(r) : r[i] = s[f[i]]
  PROVE  Outs(r) \subseteq Outs(s) /\ (Sorted(s) => Sorted(r))
  <1>1. Outs(r) \subseteq Outs(s)
    BY DEF Outs
  <1>2. Sorted(s) => Sorted(r)
    <2> SUFFICES ASSUME Sorted(s), NEW i \in 1..Len(r), NEW j \in 1..Len(r),
                        i < j, IsOutput(r[i]), IsOutput(r[j])
                 PROVE  r[i].seq < r[j].seq
      BY DEF Sorted
    <2>1. f[i] \in 1..Len(s) /\ f[j] \in 1..Len(s) /\ f[i] < f[j]
      OBVIOUS
    <2>2. r[i] = s[f[i]] /\ r[j] = s[f[j]]
      OBVIOUS
    <2> QED BY <2>1, <2>2 DEF Sorted
  <1> QED BY <1>1, <1>2

LEMMA TailOuts ==
  ASSUME NEW s \in Seq(Event), s # <<>>
  PROVE  /\ Head(s) \in Event /\ Tail(s) \in Seq(Event)
         /\ Outs(s) = Outs(Tail(s)) \cup (IF IsOutput(Head(s)) THEN {Head(s).seq} ELSE {})
         /\ Sorted(s) => Sorted(Tail(s))
         /\ (Sorted(s) /\ IsOutput(Head(s))) => Below({Head(s).seq}, Outs(Tail(s)))
  <1> DEFINE r == Tail(s)
  <1>1. /\ r \in Seq(Event) /\ Len(r) = Len(s) - 1 /\ Len(s) \in Nat \ {0} /\ Len(r) \in Nat
        /\ \A i \in 1..Len(r) : r[i] = s[i + 1]
        /\ Head(s) = s[1] /\ Head(s) \in Event
    BY HeadTailProperties, EmptySeq, LenProperties
  <1> HIDE DEF r
  <1>2. \A i \in 1..Len(s) : i = 1 \/ (i - 1 \in 1..Len(r) /\ s[i] = r[i - 1])
    BY <1>1
  <1>3. \A i \in 1..Len(r) : i + 1 \in 1..Len(s)
    BY <1>1
  <1>4. Outs(s) = Outs(r) \cup (IF IsOutput(Head(s)) THEN {Head(s).seq} ELSE {})
    <2>1. ASSUME NEW x \in Outs(s) PROVE x \in Outs(r) \cup (IF IsOutput(Head(s)) THEN {Head(s).seq} ELSE {})
      BY <1>1, <1>2, <2>1 DEF Outs
    <2>2. ASSUME NEW x \in Outs(r) PROVE x \in Outs(s)
      BY <1>1, <1>3, <2>2 DEF Outs
    <2>3. IsOutput(Head(s)) => Head(s).seq \in Outs(s)
      BY <1>1 DEF Outs
    <2> QED BY <2>1, <2>2, <2>3
  <1>5. Sorted(s) => Sorted(r)
    BY <1>1, <1>3 DEF Sorted
  <1>6. (Sorted(s) /\ IsOutput(Head(s))) => Below({Head(s).seq}, Outs(r))
    BY <1>1, <1>3 DEF Sorted, Below, Outs
  <1> QED BY <1>1, <1>4, <1>5, <1>6 DEF r

(* take_ready_events splits the queue into the batch and the rest.          *)
LEMMA SplitPositions ==
  ASSUME NEW T, NEW q \in Seq(T), NEW n \in 0..Len(q)
  PROVE  /\ SubSeq(q, 1, n) \in Seq(T) /\ Len(SubSeq(q, 1, n)) = n
         /\ \A i \in 1..n : SubSeq(q, 1, n)[i] = q[i]
         /\ SubSeq(q, n + 1, Len(q)) \in Seq(T)
         /\ Len(SubSeq(q, n + 1, Len(q))) = Len(q) - n
         /\ \A i \in 1..(Len(q) - n) : SubSeq(q, n + 1, Len(q))[i] = q[n + i]
  <1> DEFINE b == SubSeq(q, 1, n)
             r == SubSeq(q, n + 1, Len(q))
  <1>0. Len(q) \in Nat /\ n \in Nat /\ n <= Len(q) /\ \A i \in 1..Len(q) : q[i] \in T
    BY LenProperties, ElementOfSeq
  <1>1. /\ b \in Seq(T) /\ Len(b) = n
        /\ \A i \in 1..n : b[i] = q[i]
    <2>1. \A i \in 1..n : q[i] \in T
      BY <1>0
    <2>2. /\ b \in Seq(T)
          /\ Len(b) = IF 1 <= n THEN n - 1 + 1 ELSE 0
          /\ \A i \in 1..(n - 1 + 1) : b[i] = q[1 + i - 1]
      BY <1>0, <2>1, SubSeqProperties
    <2> QED BY <1>0, <2>2
  <1>2. /\ r \in Seq(T) /\ Len(r) = Len(q) - n
        /\ \A i \in 1..(Len(q) - n) : r[i] = q[n + i]
    <2>1. \A i \in (n + 1)..Len(q) : q[i] \in T
      BY <1>0
    <2>2. /\ r \in Seq(T)
          /\ Len(r) = IF n + 1 <= Len(q) THEN Len(q) - (n + 1) + 1 ELSE 0
          /\ \A i \in 1..(Len(q) - (n + 1) + 1) : r[i] = q[(n + 1) + i - 1]
      BY <1>0, <2>1, SubSeqProperties
    <2>3. Len(r) = Len(q) - n
      BY <1>0, <2>2
    <2>4. ASSUME NEW i \in 1..(Len(q) - n) PROVE r[i] = q[n + i]
      <3>1. i \in 1..(Len(q) - (n + 1) + 1) /\ (n + 1) + i - 1 = n + i
        BY <1>0
      <3> QED BY <2>2, <3>1
    <2> QED BY <2>2, <2>3, <2>4
  <1> QED BY <1>1, <1>2

LEMMA SplitOuts ==
  ASSUME NEW q \in Seq(Event), NEW n \in 0..Len(q)
  PROVE  /\ SubSeq(q, 1, n) \in Seq(Event)
         /\ SubSeq(q, n + 1, Len(q)) \in Seq(Event)
         /\ Outs(SubSeq(q, 1, n)) = Taken(q, n)
         /\ Outs(SubSeq(q, 1, n)) \subseteq Outs(q)
         /\ Outs(SubSeq(q, n + 1, Len(q))) \subseteq Outs(q)
         /\ Sorted(q) => /\ Sorted(SubSeq(q, 1, n))
                         /\ Sorted(SubSeq(q, n + 1, Len(q)))
                         /\ Below(Outs(SubSeq(q, 1, n)), Outs(SubSeq(q, n + 1, Len(q))))
  <1> DEFINE b == SubSeq(q, 1, n)
             r == SubSeq(q, n + 1, Len(q))
  <1>0. Len(q) \in Nat /\ n \in Nat /\ n <= Len(q)
    BY LenProperties
  <1>1. /\ b \in Seq(Event) /\ Len(b) = n
        /\ \A i \in 1..n : b[i] = q[i]
    BY SplitPositions
  <1>2. /\ r \in Seq(Event) /\ Len(r) = Len(q) - n
        /\ \A i \in 1..Len(r) : r[i] = q[n + i]
    BY SplitPositions
  <1> HIDE DEF b, r
  <1>3. Outs(b) = Taken(q, n)
    BY <1>0, <1>1 DEF Outs, Taken
  <1>4. Outs(b) \subseteq Outs(q)
    BY <1>0, <1>1 DEF Outs
  <1>5. \A i \in 1..Len(r) : n + i \in 1..Len(q)
    BY <1>0, <1>2
  <1>6. Outs(r) \subseteq Outs(q)
    BY <1>2, <1>5 DEF Outs
  <1>7. ASSUME Sorted(q) PROVE Sorted(b)
    BY <1>0, <1>1, <1>7 DEF Sorted
  <1>8. ASSUME Sorted(q) PROVE Sorted(r)
    <2> SUFFICES ASSUME NEW i \in 1..Len(r), NEW j \in 1..Len(r), i < j,
                        IsOutput(r[i]), IsOutput(r[j])
                 PROVE  r[i].seq < r[j].seq
      BY DEF Sorted
    <2>1. n + i \in 1..Len(q) /\ n + j \in 1..Len(q) /\ n + i < n + j
      BY <1>0, <1>2, <1>5
    <2> QED BY <1>2, <1>8, <2>1 DEF Sorted
  <1>9. ASSUME Sorted(q) PROVE Below(Outs(b), Outs(r))
    <2> SUFFICES ASSUME NEW i \in 1..Len(b), IsOutput(b[i]),
                        NEW j \in 1..Len(r), IsOutput(r[j])
                 PROVE  b[i].seq < r[j].seq
      BY DEF Below, Outs
    <2>1. i \in 1..Len(q) /\ n + j \in 1..Len(q) /\ i < n + j
      BY <1>0, <1>1, <1>2
    <2> QED BY <1>1, <1>2, <1>9, <2>1 DEF Sorted
  <1> QED BY <1>1, <1>2, <1>3, <1>4, <1>6, <1>7, <1>8, <1>9 DEF b, r

(* Dropping one queued event to make room.                                  *)
(* Position i of r is position f[i] of q, and only position k is missing.   *)
AllBut(k, f, r, q) ==
    /\ Len(r) = Len(q) - 1
    /\ f \in [1..Len(r) -> 1..Len(q)]
    /\ \A i, j \in 1..Len(r) : i < j => f[i] < f[j]
    /\ \A i \in 1..Len(r) : f[i] # k /\ r[i] = q[f[i]]
    /\ \A j \in 1..Len(q) : j = k \/ \E i \in 1..Len(r) : f[i] = j

LEMMA RemoveAtPositions ==
  ASSUME NEW T, NEW q \in Seq(T), NEW k \in 1..Len(q)
  PROVE  /\ RemoveAt(q, k) \in Seq(T)
         /\ \E f : AllBut(k, f, RemoveAt(q, k), q)
  <1> DEFINE a == SubSeq(q, 1, k - 1)
             c == SubSeq(q, k + 1, Len(q))
             r == a \o c
             f == [i \in 1..(Len(q) - 1) |-> IF i < k THEN i ELSE i + 1]
  <1>0. Len(q) \in Nat /\ k \in Nat /\ 1 <= k /\ k <= Len(q)
        /\ \A i \in 1..Len(q) : q[i] \in T
    BY LenProperties, ElementOfSeq
  <1>1. /\ a \in Seq(T) /\ Len(a) = k - 1
        /\ \A i \in 1..(k - 1) : a[i] = q[i]
    <2>1. \A i \in 1..(k - 1) : q[i] \in T
      BY <1>0
    <2>2. /\ a \in Seq(T)
          /\ Len(a) = IF 1 <= k - 1 THEN (k - 1) - 1 + 1 ELSE 0
          /\ \A i \in 1..((k - 1) - 1 + 1) : a[i] = q[1 + i - 1]
      BY <1>0, <2>1, SubSeqProperties
    <2> QED BY <1>0, <2>2
  <1>2. /\ c \in Seq(T) /\ Len(c) = Len(q) - k
        /\ \A i \in 1..(Len(q) - k) : c[i] = q[k + i]
    <2>1. \A i \in (k + 1)..Len(q) : q[i] \in T
      BY <1>0
    <2>2. /\ c \in Seq(T)
          /\ Len(c) = IF k + 1 <= Len(q) THEN Len(q) - (k + 1) + 1 ELSE 0
          /\ \A i \in 1..(Len(q) - (k + 1) + 1) : c[i] = q[(k + 1) + i - 1]
      BY <1>0, <2>1, SubSeqProperties
    <2> QED BY <1>0, <2>2
  <1> HIDE DEF a, c
  <1>3. /\ r \in Seq(T)
        /\ Len(r) = Len(a) + Len(c)
        /\ \A i \in 1..(Len(a) + Len(c)) :
              r[i] = IF i <= Len(a) THEN a[i] ELSE c[i - Len(a)]
    BY <1>1, <1>2, ConcatProperties
  <1> HIDE DEF r
  <1>4. Len(r) = Len(q) - 1
    BY <1>0, <1>1, <1>2, <1>3
  <1>5. /\ f \in [1..(Len(q) - 1) -> 1..Len(q)]
        /\ \A i, j \in 1..(Len(q) - 1) : i < j => f[i] < f[j]
        /\ \A i \in 1..(Len(q) - 1) : f[i] # k
    BY <1>0
  <1>6. ASSUME NEW i \in 1..(Len(q) - 1) PROVE r[i] = q[f[i]]
    <2>1. CASE i < k
      <3>1. i \in 1..(k - 1) /\ i \in 1..(Len(a) + Len(c)) /\ i <= Len(a)
        BY <1>0, <1>1, <1>2, <2>1
      <3>2. r[i] = q[i]
        BY <1>1, <1>3, <3>1
      <3>3. f[i] = i
        BY <2>1
      <3> QED BY <3>2, <3>3
    <2>2. CASE ~(i < k)
      <3>0. i \in Nat /\ i >= k /\ i <= Len(q) - 1
        BY <1>0, <2>2
      <3>1. i \in 1..(Len(a) + Len(c)) /\ ~(i <= Len(a)) /\ i - Len(a) = i - (k - 1)
        BY <1>0, <1>1, <1>2, <3>0
      <3>2. r[i] = c[i - (k - 1)]
        BY <1>3, <3>1
      <3>3. i - (k - 1) \in 1..(Len(q) - k) /\ k + (i - (k - 1)) = i + 1
        BY <1>0, <3>0
      <3>4. c[i - (k - 1)] = q[i + 1]
        BY <1>2, <3>3
      <3>5. f[i] = i + 1
        BY <2>2
      <3> QED BY <3>2, <3>4, <3>5
    <2> QED BY <2>1, <2>2
  <1>7. ASSUME NEW j \in 1..Len(q), j # k PROVE \E i \in 1..(Len(q) - 1) : f[i] = j
    <2>1. CASE j < k
      <3>1. j \in 1..(Len(q) - 1) /\ f[j] = j
        BY <1>0, <2>1
      <3> QED BY <3>1
    <2>2. CASE ~(j < k)
      <3>1. j - 1 \in 1..(Len(q) - 1) /\ f[j - 1] = j
        BY <1>0, <1>7, <2>2
      <3> QED BY <3>1
    <2> QED BY <2>1, <2>2
  <1>8. RemoveAt(q, k) = r
    BY DEF RemoveAt, r, a, c
  <1>9. AllBut(k, f, r, q)
    BY <1>4, <1>5, <1>6, <1>7 DEF AllBut
  <1> HIDE DEF r, f
  <1> QED BY <1>3, <1>8, <1>9

LEMMA RemoveAtOuts ==
  ASSUME NEW q \in Seq(Event), NEW k \in 1..Len(q)
  PROVE  /\ RemoveAt(q, k) \in Seq(Event)
         /\ Len(RemoveAt(q, k)) = Len(q) - 1
         /\ Outs(RemoveAt(q, k)) \subseteq Outs(q)
         /\ Sorted(q) => Sorted(RemoveAt(q, k))
  <1> DEFINE r == RemoveAt(q, k)
  <1>0. r \in Seq(Event) /\ \E f : AllBut(k, f, r, q)
    BY RemoveAtPositions
  <1>1. PICK f : AllBut(k, f, r, q)
    BY <1>0
  <1> HIDE DEF r
  <1>2. Outs(r) \subseteq Outs(q) /\ (Sorted(q) => Sorted(r))
    <2>1. /\ f \in [1..Len(r) -> 1..Len(q)]
          /\ \A i, j \in 1..Len(r) : i < j => f[i] < f[j]
          /\ \A i \in 1..Len(r) : r[i] = q[f[i]]
      BY <1>1 DEF AllBut
    <2> QED BY <1>0, <2>1, SubseqOuts
  <1>3. Len(r) = Len(q) - 1
    BY <1>1 DEF AllBut
  <1> QED BY <1>0, <1>2, <1>3 DEF r

(* A nonempty set of positions has a least element.                         *)
LEMMA LeastPosition ==
  ASSUME NEW S \in SUBSET Nat, S # {}
  PROVE  Min(S) \in S /\ \A y \in S : Min(S) <= y
  <1> DEFINE R == {p \in Nat \X Nat : p[1] < p[2]}
  <1>1. IsWellFoundedOn(R, Nat)
    BY NatLessThanWellFounded, Zenon DEF OpToRel
  <1> HIDE DEF R
  <1>2. PICK x \in S : \A y \in S : ~(<<y, x>> \in R)
    BY <1>1, WFMin
  <1>3. ASSUME NEW y \in S PROVE x <= y
    <2>1. x \in Nat /\ y \in Nat
      OBVIOUS
    <2>2. ASSUME y < x PROVE <<y, x>> \in R
      BY <2>1, <2>2 DEF R
    <2> QED BY <1>2, <2>1, <2>2
  <1> QED BY <1>3 DEF Min

(* push_queued keeps the order; its result is at most the ring's limit when *)
(* the queue holds an output.                                               *)
LEMMA PushOuts ==
  ASSUME NEW q \in Seq(Event), NEW e \in Event
  PROVE  /\ push_queued(q, e) \in Seq(Event)
         /\ Outs(push_queued(q, e)) \subseteq
               Outs(q) \cup (IF IsOutput(e) THEN {e.seq} ELSE {})
         /\ Sorted(q) /\ (IsOutput(e) => Below(Outs(q), {e.seq}))
               => Sorted(push_queued(q, e))
  <1> DEFINE r == IF Len(q) >= MaxQueued THEN RemoveFirstMatch(q, IsOutput) ELSE q
  <1>1. r \in Seq(Event) /\ Outs(r) \subseteq Outs(q) /\ (Sorted(q) => Sorted(r))
    <2>1. CASE Len(q) >= MaxQueued /\ \E i \in 1..Len(q) : IsOutput(q[i])
      <3> DEFINE I == {i \in 1..Len(q) : IsOutput(q[i])}
      <3>1. I \in SUBSET Nat /\ I # {} /\ I \subseteq 1..Len(q)
        BY <2>1
      <3>2. Min(I) \in 1..Len(q)
        BY <3>1, LeastPosition
      <3>3. r = RemoveAt(q, Min(I))
        BY <2>1, <3>1 DEF RemoveFirstMatch, SelectInSeq
      <3> QED BY <3>2, <3>3, RemoveAtOuts
    <2>2. CASE ~(Len(q) >= MaxQueued /\ \E i \in 1..Len(q) : IsOutput(q[i]))
      BY <2>2 DEF RemoveFirstMatch
    <2> QED BY <2>1, <2>2
  <1>2. push_queued(q, e) = Append(r, e)
    BY DEF push_queued
  <1> HIDE DEF r
  <1>3. (IsOutput(e) => Below(Outs(q), {e.seq})) => (IsOutput(e) => Below(Outs(r), {e.seq}))
    BY <1>1 DEF Below
  <1> QED BY <1>1, <1>2, <1>3, AppendOuts

----------------------------------------------------------------------------
(* terminal_order: removing one id, and evicting the oldest ones.           *)

LEMMA RetainedType ==
  ASSUME NEW t, terminalOrder \in Seq(Tasks)
  PROVE  Retained(t) \in Seq(Tasks)
  <1> DEFINE q == terminalOrder
             I == {i \in 1..Len(q) : q[i] = t}
  <1>0. Len(q) \in Nat /\ \A i \in 1..Len(q) : q[i] \in Tasks
    BY LenProperties, ElementOfSeq
  <1>1. CASE I = {}
    BY <1>1 DEF Retained, RemoveFirst
  <1>2. CASE I # {}
    <2> DEFINE k == Min(I)
    <2>1. k \in 1..Len(q)
      <3>1. I \in SUBSET Nat /\ I \subseteq 1..Len(q)
        BY <1>0
      <3> QED BY <1>2, <3>1, LeastPosition
    <2>2. Retained(t) = SubSeq(q, 1, k - 1) \o SubSeq(q, k + 1, Len(q))
      BY <1>2 DEF Retained, RemoveFirst, RemoveAt, SelectInSeq
    <2> HIDE DEF k
    <2>3. (\A i \in 1..(k - 1) : q[i] \in Tasks) /\ (\A i \in (k + 1)..Len(q) : q[i] \in Tasks)
      BY <1>0, <2>1
    <2>4. SubSeq(q, 1, k - 1) \in Seq(Tasks) /\ SubSeq(q, k + 1, Len(q)) \in Seq(Tasks)
      BY <1>0, <2>1, <2>3, SubSeqProperties
    <2> QED BY <2>2, <2>4, ConcatProperties
  <1> QED BY <1>1, <1>2

LEMMA EvictionType ==
  ASSUME NEW s \in Seq(Tasks), NEW k \in 0..Len(s)
  PROVE  /\ SubSeq(s, k + 1, Len(s)) \in Seq(Tasks)
         /\ {s[i] : i \in 1..k} \subseteq Tasks
  <1>1. Len(s) \in Nat /\ \A i \in 1..Len(s) : s[i] \in Tasks
    BY LenProperties, ElementOfSeq
  <1>2. (\A i \in (k + 1)..Len(s) : s[i] \in Tasks) /\ (\A i \in 1..k : s[i] \in Tasks)
    BY <1>1
  <1>3. SubSeq(s, k + 1, Len(s)) \in Seq(Tasks)
    BY <1>1, <1>2, SubSeqProperties
  <1> QED BY <1>2, <1>3

----------------------------------------------------------------------------
(* Every step keeps the types. *)

LEMMA TakenType ==
  ASSUME NEW q \in Seq(Event), NEW n \in 0..Len(q)
  PROVE  Taken(q, n) \subseteq Nat
  <1>1. Len(q) \in Nat /\ \A i \in 1..Len(q) : q[i].seq \in Nat
    <2>1. \A i \in 1..Len(q) : q[i] \in Event
      BY ElementOfSeq
    <2> QED BY <2>1, LenProperties DEF Event
  <1> QED BY <1>1 DEF Taken

LEMMA TakeShape ==
  ASSUME Shape, NEW t \in Tasks, NEW q \in Seq(Event), NEW n \in 0..Len(q),
         take_ready_events(t, q, n)
  PROVE  /\ queued' \in [Tasks -> Seq(Event)]
         /\ outstanding' \in [Tasks -> SUBSET Nat]
         /\ SubSeq(q, 1, n) \in Seq(Event)
  <1>1. SubSeq(q, n + 1, Len(q)) \in Seq(Event) /\ SubSeq(q, 1, n) \in Seq(Event)
    BY SplitOuts
  <1>2. Taken(q, n) \subseteq Nat
    BY TakenType
  <1> QED BY <1>1, <1>2 DEF Shape, take_ready_events

LEMMA ReleaseShape == Shape /\ Release => order' \in OrderState
  BY DEF Shape, Release, OrderState, Holders

LEMMA ShapeStep == Shape /\ [Next]_vars => Shape'
  <1> SUFFICES ASSUME Shape, [Next]_vars PROVE Shape'
    OBVIOUS
  <1>1. ASSUME NEW t \in Tasks, start(t) PROVE Shape'
    BY <1>1 DEF Shape, start
  <1>2. ASSUME NEW t \in Tasks, commit_start(t) PROVE Shape'
    BY <1>2 DEF Shape, commit_start, entryVars
  <1>3. ASSUME NEW t \in Tasks, abandon_start(t) PROVE Shape'
    <2>1. Retained(t) \in Seq(Tasks)
      BY RetainedType DEF Shape
    <2> QED BY <1>3, <2>1 DEF Shape, abandon_start
  <1>4. ASSUME NEW t \in Tasks, NEW kind \in OutputKinds, publish(t, kind) PROVE Shape'
    <2> DEFINE e == [kind |-> kind, seq |-> outputSeq[t] + 1]
               q == push_queued(queued[t], e)
    <2>1. e \in Event /\ queued[t] \in Seq(Event)
      BY DEF Shape, Event, OutputKinds, FinalKinds
    <2>2. q \in Seq(Event)
      BY <2>1, PushOuts
    <2> HIDE DEF e, q
    <2>3. queued' \in [Tasks -> Seq(Event)] /\ outstanding' \in [Tasks -> SUBSET Nat]
          /\ order' \in OrderState
      <3>1. CASE acknowledged[t] /\ ~flushing[t]
        <4>1. PICK n \in 0..Len(q) :
                 /\ take_ready_events(t, q, n)
                 /\ order' = [by |-> "pump", task |-> t, stage |-> "emit",
                              batch |-> SubSeq(q, 1, n)]
          BY <1>4, <3>1 DEF publish, q, e
        <4> QED BY <2>2, <4>1, TakeShape DEF OrderState, Holders
      <3>2. CASE ~(acknowledged[t] /\ ~flushing[t])
        <4>1. queued' = [queued EXCEPT ![t] = q] /\ UNCHANGED <<outstanding, order>>
          BY <1>4, <3>2 DEF publish, q, e
        <4> QED BY <2>2, <4>1 DEF Shape
      <3> QED BY <3>1, <3>2
    <2>4. reported' \in [Tasks -> BOOLEAN]
      BY <1>4 DEF Shape, publish
    <2>5. outputSeq' \in [Tasks -> Nat]
      BY <1>4 DEF Shape, publish
    <2>6. UNCHANGED <<life, phase, acknowledged, flushing, statusSeq, lastAck,
                      terminalOrder, waiter, expiring, emitted>>
      BY <1>4 DEF publish
    <2> QED BY <2>3, <2>4, <2>5, <2>6 DEF Shape
  <1>5. ASSUME NEW t \in Tasks, acknowledge(t) PROVE Shape'
    <2> DEFINE running == [kind |-> "running", seq |-> statusSeq[t] + 1]
               q == IF phase[t] = "Pending" THEN Append(queued[t], running) ELSE queued[t]
    <2>1. q \in Seq(Event)
      <3>1. running \in Event /\ queued[t] \in Seq(Event)
        BY DEF Shape, Event, OutputKinds, FinalKinds
      <3> HIDE DEF running
      <3> QED BY <3>1, AppendProperties
    <2> HIDE DEF q
    <2>2. PICK n \in 0..Len(q) :
             /\ take_ready_events(t, q, n)
             /\ order' = [by |-> "ack", task |-> t, stage |-> "emit",
                          batch |-> SubSeq(q, 1, n)]
      BY <1>5 DEF acknowledge, q
    <2>3. queued' \in [Tasks -> Seq(Event)] /\ outstanding' \in [Tasks -> SUBSET Nat]
          /\ order' \in OrderState
      BY <2>1, <2>2, TakeShape DEF OrderState, Holders
    <2>4. /\ acknowledged' \in [Tasks -> BOOLEAN] /\ flushing' \in [Tasks -> BOOLEAN]
          /\ phase' \in [Tasks -> {"Pending", "Running", "Terminal"}]
          /\ statusSeq' \in [Tasks -> Nat]
      BY <1>5 DEF acknowledge, Shape
    <2> QED BY <1>5, <2>3, <2>4 DEF Shape, acknowledge
  <1>6. ASSUME NEW t \in Tasks, NEW s \in 1..MaxOutputs[t], acknowledge_output(t, s) PROVE Shape'
    <2>1. order' \in OrderState
      BY <1>6 DEF acknowledge_output, OrderState, Holders
    <2>2. lastAck' \in [Tasks -> Nat] /\ outstanding' \in [Tasks -> SUBSET Nat]
      BY <1>6, BoundsAssumption DEF acknowledge_output, Shape
    <2> QED BY <1>6, <2>1, <2>2 DEF Shape, acknowledge_output
  <1>7. ASSUME emit_queued_event PROVE Shape'
    <2>1. order.task \in Tasks /\ order.batch \in Seq(Event) /\ order.batch # <<>>
      BY <1>7 DEF Shape, OrderState, emit_queued_event
    <2>2. Head(order.batch) \in Event /\ Tail(order.batch) \in Seq(Event)
      BY <2>1, HeadTailProperties
    <2>3. order' \in OrderState
      BY <1>7, <2>2 DEF Shape, OrderState, emit_queued_event
    <2>4. emitted' \in [Tasks -> Seq(Event)]
      BY <1>7, <2>1, <2>2 DEF Shape, emit_queued_event
    <2> QED BY <1>7, <2>3, <2>4 DEF Shape, emit_queued_event, entryVars
  <1>8. ASSUME finish_batch PROVE Shape'
    <2>1. order' \in OrderState
      BY <1>8, ReleaseShape DEF Shape, OrderState, finish_batch
    <2> QED BY <1>8, <2>1 DEF Shape, finish_batch, entryVars
  <1>9. ASSUME drain_acknowledgement PROVE Shape'
    <2> DEFINE t == order.task
    <2>1. t \in Tasks
      BY DEF Shape, OrderState
    <2>2. Retained(t) \in Seq(Tasks)
      BY RetainedType DEF Shape
    <2>3. queued[t] \in Seq(Event)
      BY <2>1 DEF Shape
    <2>4. CASE life[t] # "live" \/ ~acknowledged[t]
      <3>1. Release /\ UNCHANGED <<entryVars, terminalOrder, waiter, expiring, emitted>>
        BY <1>9, <2>4 DEF drain_acknowledgement
      <3>2. order' \in OrderState
        BY <3>1, ReleaseShape
      <3> QED BY <3>1, <3>2 DEF Shape, entryVars
    <2>5. CASE ~(life[t] # "live" \/ ~acknowledged[t])
      <3>1. PICK n \in 0..Len(queued[t]) :
              /\ take_ready_events(t, queued[t], n)
              /\ IF n > 0
                 THEN /\ order' = [order EXCEPT !.stage = "emit",
                                        !.batch = SubSeq(queued[t], 1, n)]
                      /\ UNCHANGED <<life, flushing, terminalOrder>>
                 ELSE /\ Release
                      /\ flushing' = [flushing EXCEPT ![t] = FALSE]
                      /\ IF phase[t] = "Terminal" /\ queued[t] = <<>> /\ outstanding[t] = {}
                         THEN /\ life' = [life EXCEPT ![t] = "removed"]
                              /\ terminalOrder' = Retained(t)
                         ELSE UNCHANGED <<life, terminalOrder>>
              /\ UNCHANGED <<phase, acknowledged, statusSeq, outputSeq, reported, lastAck>>
        BY <1>9, <2>5 DEF drain_acknowledgement
      <3>2. /\ queued' \in [Tasks -> Seq(Event)] /\ outstanding' \in [Tasks -> SUBSET Nat]
            /\ SubSeq(queued[t], 1, n) \in Seq(Event)
        BY <2>1, <2>3, <3>1, TakeShape
      <3>3. order' \in OrderState
        BY <3>1, <3>2, ReleaseShape DEF Shape, OrderState
      <3>4. /\ life' \in [Tasks -> {"unstarted", "live", "removed"}]
            /\ flushing' \in [Tasks -> BOOLEAN] /\ terminalOrder' \in Seq(Tasks)
        BY <2>2, <3>1 DEF Shape
      <3> QED BY <1>9, <3>1, <3>2, <3>3, <3>4 DEF Shape, drain_acknowledgement
    <2> QED BY <2>4, <2>5
  <1>10. ASSUME NEW t \in Tasks, complete(t) PROVE Shape'
    <2> DEFINE direct == EmitsDirectly(t)
               pending == phase[t] = "Pending"
               final == [kind |-> "terminal",
                         seq |-> IF pending /\ ~direct THEN statusSeq[t] + 2 ELSE statusSeq[t] + 1]
               recorded == Append(terminalOrder, t)
               excess == IF Len(recorded) > MaxTerminal THEN Len(recorded) - MaxTerminal ELSE 0
               evicted == {recorded[i] : i \in 1..excess}
    <2>1. final \in Event
      BY DEF Shape, Event, OutputKinds, FinalKinds
    <2>2. WithRunning(t, queued[t]) \in Seq(Event)
      <3>1. [kind |-> "running", seq |-> statusSeq[t] + 1] \in Event /\ queued[t] \in Seq(Event)
        BY DEF Shape, Event, OutputKinds, FinalKinds
      <3> QED BY <3>1, PushOuts DEF WithRunning
    <2>3. push_queued(WithRunning(t, queued[t]), final) \in Seq(Event)
      BY <2>1, <2>2, PushOuts
    <2>4. recorded \in Seq(Tasks) /\ excess \in 0..Len(recorded)
      <3>1. recorded \in Seq(Tasks) /\ Len(recorded) \in Nat
        BY AppendProperties, LenProperties DEF Shape
      <3> HIDE DEF recorded
      <3> QED BY <3>1, BoundsAssumption
    <2>5. SubSeq(recorded, excess + 1, Len(recorded)) \in Seq(Tasks) /\ evicted \subseteq Tasks
      <3> HIDE DEF recorded, excess
      <3> QED BY <2>4, EvictionType
    <2>6. /\ statusSeq' = [statusSeq EXCEPT ![t] = final.seq]
          /\ queued' = [queued EXCEPT ![t] =
                IF direct THEN @ ELSE push_queued(WithRunning(t, @), final)]
          /\ waiter' = [waiter EXCEPT ![t] = IF direct THEN "direct" ELSE "expire"]
          /\ terminalOrder' = SubSeq(recorded, excess + 1, Len(recorded))
          /\ life' = [x \in Tasks |-> IF x \in evicted THEN "removed" ELSE life[x]]
          /\ expiring' = [expiring EXCEPT ![t] =
                 {x \in evicted : acknowledged[x] /\ Undelivered(x)}]
      BY <1>10 DEF complete
    <2>7. statusSeq' \in [Tasks -> Nat]
      BY <2>1, <2>6 DEF Shape
    <2> HIDE DEF recorded, excess, evicted, final, direct
    <2>8. queued' \in [Tasks -> Seq(Event)]
      BY <2>3, <2>6 DEF Shape
    <2>9. /\ terminalOrder' \in Seq(Tasks)
          /\ life' \in [Tasks -> {"unstarted", "live", "removed"}]
          /\ expiring' \in [Tasks -> SUBSET Tasks]
      BY <2>5, <2>6 DEF Shape
    <2>10. /\ phase' \in [Tasks -> {"Pending", "Running", "Terminal"}]
           /\ UNCHANGED <<acknowledged, flushing, outputSeq, reported, outstanding,
                          lastAck, order, emitted>>
      BY <1>10 DEF complete, Shape
    <2> QED BY <2>6, <2>7, <2>8, <2>9, <2>10 DEF Shape
  <1>11. ASSUME NEW t \in Tasks, NEW x \in Tasks, emit_expired(t, x) PROVE Shape'
    <2>1. [kind |-> "lost", seq |-> statusSeq[x] + 1] \in Event
      BY DEF Shape, Event, FinalKinds
    <2>2. /\ expiring' = [expiring EXCEPT ![t] = expiring[t] \ {x}]
          /\ emitted' = [emitted EXCEPT ![x] =
                 Append(emitted[x], [kind |-> "lost", seq |-> statusSeq[x] + 1])]
          /\ UNCHANGED <<entryVars, terminalOrder, waiter, order>>
      BY <1>11 DEF emit_expired
    <2>3. emitted' \in [Tasks -> Seq(Event)]
      BY <2>1, <2>2 DEF Shape
    <2>4. expiring' \in [Tasks -> SUBSET Tasks]
      BY <2>2 DEF Shape
    <2> QED BY <2>2, <2>3, <2>4 DEF Shape, entryVars
  <1>12. ASSUME NEW t \in Tasks, emit_direct(t) PROVE Shape'
    <2>1. [kind |-> "terminal", seq |-> statusSeq[t]] \in Event
      BY DEF Shape, Event, FinalKinds
    <2>2. /\ emitted' = [emitted EXCEPT ![t] =
                 Append(emitted[t], [kind |-> "terminal", seq |-> statusSeq[t]])]
          /\ waiter' = [waiter EXCEPT ![t] = "done"]
          /\ UNCHANGED <<entryVars, terminalOrder, expiring, order>>
      BY <1>12 DEF emit_direct
    <2>3. emitted' \in [Tasks -> Seq(Event)]
      BY <2>1, <2>2 DEF Shape
    <2> QED BY <2>2, <2>3 DEF Shape, entryVars
  <1>13. ASSUME NEW t \in Tasks, complete_drain(t) PROVE Shape'
    <2>1. order' \in OrderState
      <3>1. <<>> \in Seq(Event)
        BY EmptySeq
      <3>2. order \in OrderState
        BY DEF Shape
      <3>3. CASE AckRequired
        <4>1. order' = [by |-> "waiter", task |-> t, stage |-> "drain", batch |-> <<>>]
          BY <1>13, <3>3 DEF complete_drain
        <4>2. [by |-> "waiter", task |-> t, stage |-> "drain", batch |-> <<>>] \in OrderState
          BY <3>1 DEF OrderState, Holders
        <4> QED BY <4>1, <4>2
      <3>4. CASE ~AckRequired
        BY <1>13, <3>2, <3>4 DEF complete_drain
      <3> QED BY <3>3, <3>4
    <2>2. /\ waiter' = [waiter EXCEPT ![t] = IF AckRequired THEN "await" ELSE "done"]
          /\ UNCHANGED <<entryVars, terminalOrder, expiring, emitted>>
      BY <1>13 DEF complete_drain
    <2>3. waiter' \in [Tasks -> {"none", "starting", "running", "direct", "expire",
                                 "await", "overdue", "done"}]
      BY <2>2 DEF Shape
    <2> QED BY <2>1, <2>2, <2>3 DEF Shape, entryVars
  <1>14. ASSUME NEW t \in Tasks, poll_delivered(t) \/ poll_deadline(t) PROVE Shape'
    <2>1. /\ waiter' \in {[waiter EXCEPT ![t] = "done"], [waiter EXCEPT ![t] = "overdue"]}
          /\ UNCHANGED <<entryVars, terminalOrder, expiring, order, emitted>>
      BY <1>14 DEF poll_delivered, poll_deadline
    <2>2. waiter' \in [Tasks -> {"none", "starting", "running", "direct", "expire",
                                 "await", "overdue", "done"}]
      BY <2>1 DEF Shape
    <2> QED BY <2>1, <2>2 DEF Shape, entryVars
  <1>15. ASSUME NEW t \in Tasks, interrupt_delivery(t) PROVE Shape'
    <2>1. [kind |-> "lost", seq |-> statusSeq[t] + 1] \in Event
      BY DEF Shape, Event, FinalKinds
    <2>2. Retained(t) \in Seq(Tasks)
      BY RetainedType DEF Shape
    <2>3. order' \in OrderState
      <3> DEFINE lost == [kind |-> "lost", seq |-> statusSeq[t] + 1]
      <3>1. <<lost>> \in Seq(Event)
        BY <2>1
      <3> HIDE DEF lost
      <3>2. order' = order \/ order' = [by |-> "overdue", task |-> t, stage |-> "emit",
                                        batch |-> <<lost>>]
        BY <1>15 DEF interrupt_delivery, lost
      <3>3. order \in OrderState
        BY DEF Shape
      <3>4. [by |-> "overdue", task |-> t, stage |-> "emit", batch |-> <<lost>>] \in OrderState
        BY <3>1 DEF OrderState, Holders
      <3> QED BY <3>2, <3>3, <3>4
    <2>4. terminalOrder' \in Seq(Tasks) /\ life' \in [Tasks -> {"unstarted", "live", "removed"}]
      BY <1>15, <2>2 DEF Shape, interrupt_delivery
    <2> QED BY <1>15, <2>3, <2>4 DEF Shape, interrupt_delivery
  <1>16. CASE UNCHANGED vars
    BY <1>16 DEF Shape, vars, entryVars
  <1> QED
    BY <1>1, <1>2, <1>3, <1>4, <1>5, <1>6, <1>7, <1>8, <1>9, <1>10, <1>11, <1>12,
       <1>13, <1>14, <1>15, <1>16 DEF Next, Holder, Waiter

----------------------------------------------------------------------------
(* The order of one task's chunks, as a relation between what was emitted   *)
(* (E), the batch (B), the queue (Q), the window (out), the last            *)
(* acknowledgement (last) and the chunks produced (m).                      *)

TaskOrder(E, B, Q, out, last, m) ==
    /\ Sorted(E) /\ Sorted(B) /\ Sorted(Q)
    /\ Below(Outs(E), Outs(B)) /\ Below(Outs(E), Outs(Q)) /\ Below(Outs(B), Outs(Q))
    /\ Outs(E) \cup Outs(B) \cup Outs(Q) \subseteq 1..m
    /\ last <= m /\ out \subseteq (last + 1)..m
    /\ Below({last} \cup out, Outs(Q))
    /\ AckRequired => Outs(E) \cup Outs(B) \subseteq 1..last \cup out

TaskOrderAt(t) == TaskOrder(emitted[t], Batch(t), queued[t], outstanding[t], lastAck[t], outputSeq[t])

LEMMA OrderInvariantByTask ==
  OrderInvariant <=> Shape /\ BatchHeld /\ \A t \in Tasks : TaskOrderAt(t)
  BY DEF OrderInvariant, TypeOK, AcksInRange, StagesInOrder, WindowCovers, TaskOrderAt, TaskOrder

(* take_ready_events on a queue whose order is right.                       *)
LEMMA TakeOrder ==
  ASSUME NEW E \in Seq(Event), NEW q \in Seq(Event), NEW out \in SUBSET Nat,
         NEW last \in Nat, NEW m \in Nat, NEW n \in 0..Len(q),
         TaskOrder(E, <<>>, q, out, last, m)
  PROVE  TaskOrder(E, SubSeq(q, 1, n), SubSeq(q, n + 1, Len(q)),
                   IF AckRequired THEN out \cup Taken(q, n) ELSE out, last, m)
  <1> DEFINE b == SubSeq(q, 1, n)
             r == SubSeq(q, n + 1, Len(q))
             o == IF AckRequired THEN out \cup Taken(q, n) ELSE out
  <1>1. /\ b \in Seq(Event) /\ r \in Seq(Event)
        /\ Outs(b) = Taken(q, n) /\ Outs(b) \subseteq Outs(q) /\ Outs(r) \subseteq Outs(q)
        /\ Sorted(b) /\ Sorted(r) /\ Below(Outs(b), Outs(r))
    BY SplitOuts DEF TaskOrder
  <1>2. /\ Sorted(E) /\ Below(Outs(E), Outs(q)) /\ Outs(E) \cup Outs(q) \subseteq 1..m
        /\ last <= m /\ out \subseteq (last + 1)..m /\ Below({last} \cup out, Outs(q))
        /\ AckRequired => Outs(E) \subseteq 1..last \cup out
    BY DEF TaskOrder
  <1> HIDE DEF b, r
  <1>3. Below(Outs(E), Outs(b)) /\ Below(Outs(E), Outs(r))
    BY <1>1, <1>2 DEF Below
  <1>4. o \subseteq (last + 1)..m
    <2>1. \A x \in Outs(b) : x \in (last + 1)..m
      BY <1>1, <1>2 DEF Below
    <2> QED BY <1>1, <1>2, <2>1
  <1>5. Below({last} \cup o, Outs(r))
    <2>1. ASSUME NEW x \in {last} \cup o, NEW y \in Outs(r) PROVE x < y
      BY <1>1, <1>2, <2>1 DEF Below
    <2> QED BY <2>1 DEF Below
  <1>6. AckRequired => Outs(E) \cup Outs(b) \subseteq 1..last \cup o
    BY <1>1, <1>2
  <1> HIDE DEF o
  <1>7. TaskOrder(E, b, r, o, last, m)
    BY <1>1, <1>2, <1>3, <1>4, <1>5, <1>6 DEF TaskOrder
  <1> QED BY <1>7 DEF b, r, o

(* The queue may lose chunks and gain statuses, or gain the newest chunk.   *)
LEMMA QueueOrder ==
  ASSUME NEW E, NEW B, NEW Q, NEW R, NEW out \in SUBSET Nat, NEW last \in Nat, NEW m \in Nat,
         TaskOrder(E, B, Q, out, last, m), Outs(R) \subseteq Outs(Q), Sorted(R)
  PROVE  TaskOrder(E, B, R, out, last, m)
  BY DEF TaskOrder, Below

LEMMA PublishOrder ==
  ASSUME NEW E, NEW B, NEW Q \in Seq(Event), NEW out \in SUBSET Nat, NEW last \in Nat,
         NEW m \in Nat, NEW e \in Event, e.seq = m + 1,
         TaskOrder(E, B, Q, out, last, m)
  PROVE  TaskOrder(E, B, push_queued(Q, e), out, last, m + 1)
  <1> DEFINE R == push_queued(Q, e)
  <1>1. Below(Outs(Q), {e.seq}) /\ Below(Outs(E), {e.seq}) /\ Below(Outs(B), {e.seq})
        /\ Below({last} \cup out, {e.seq})
    BY DEF TaskOrder, Below
  <1>2. Outs(R) \subseteq Outs(Q) \cup {e.seq} /\ Sorted(R)
    BY <1>1, PushOuts DEF TaskOrder
  <1> HIDE DEF R
  <1>3. Below(Outs(E), Outs(R)) /\ Below(Outs(B), Outs(R)) /\ Below({last} \cup out, Outs(R))
    BY <1>1, <1>2 DEF TaskOrder, Below
  <1>4. Outs(E) \cup Outs(B) \cup Outs(R) \subseteq 1..(m + 1) /\ last <= m + 1
        /\ out \subseteq (last + 1)..(m + 1)
    BY <1>2 DEF TaskOrder
  <1>5. TaskOrder(E, B, R, out, last, m + 1)
    BY <1>2, <1>3, <1>4 DEF TaskOrder
  <1> QED BY <1>5 DEF R

(* A status handed to the sink does not disturb the order of the chunks.    *)
LEMMA StatusOrder ==
  ASSUME NEW E \in Seq(Event), NEW B, NEW Q, NEW out, NEW last, NEW m,
         NEW e \in Event, ~IsOutput(e), TaskOrder(E, B, Q, out, last, m)
  PROVE  TaskOrder(Append(E, e), B, Q, out, last, m)
  <1>1. Outs(Append(E, e)) = Outs(E) /\ Sorted(Append(E, e))
    BY AppendOuts DEF TaskOrder
  <1> QED BY <1>1 DEF TaskOrder

(* The next event of the batch is handed to the sink.                       *)
LEMMA EmitOrder ==
  ASSUME NEW E \in Seq(Event), NEW B \in Seq(Event), NEW Q, NEW out, NEW last, NEW m \in Nat,
         B # <<>>, TaskOrder(E, B, Q, out, last, m)
  PROVE  TaskOrder(Append(E, Head(B)), Tail(B), Q, out, last, m)
  <1> DEFINE h == Head(B)
             T == Tail(B)
             A == Append(E, h)
  <1>1. /\ h \in Event /\ T \in Seq(Event) /\ (Sorted(B) => Sorted(T))
        /\ Outs(B) = Outs(T) \cup (IF IsOutput(h) THEN {h.seq} ELSE {})
        /\ (Sorted(B) /\ IsOutput(h)) => Below({h.seq}, Outs(T))
    BY TailOuts
  <1> HIDE DEF h, T
  <1>2. IsOutput(h) => Below(Outs(E), {h.seq})
    BY <1>1 DEF TaskOrder, Below
  <1>3. /\ Outs(A) = Outs(E) \cup (IF IsOutput(h) THEN {h.seq} ELSE {})
        /\ Sorted(A)
    BY <1>1, <1>2, AppendOuts DEF TaskOrder
  <1> HIDE DEF A
  <1>4. Below(Outs(A), Outs(T)) /\ Below(Outs(A), Outs(Q)) /\ Below(Outs(T), Outs(Q))
    BY <1>1, <1>3 DEF TaskOrder, Below
  <1>5. TaskOrder(A, T, Q, out, last, m)
    BY <1>1, <1>3, <1>4 DEF TaskOrder
  <1> QED BY <1>5 DEF h, T, A

(* A cumulative acknowledgement.                                            *)
LEMMA AcknowledgeOrder ==
  ASSUME NEW E, NEW B, NEW Q, NEW out \in SUBSET Nat, NEW last \in Nat, NEW m \in Nat,
         TaskOrder(E, B, Q, out, last, m), NEW s \in out, s > last,
         NEW rest, rest = {x \in out : x > s}
  PROVE  TaskOrder(E, B, Q, rest, s, m)
  <1>0. \A x \in out : x \in Nat /\ x <= m
    BY DEF TaskOrder
  <1>1. s <= m /\ rest \subseteq (s + 1)..m
    <2>1. ASSUME NEW x \in rest PROVE x \in (s + 1)..m
      <3>1. x \in Nat /\ s \in Nat /\ x > s /\ x <= m
        BY <1>0, <2>1
      <3> QED BY <3>1
    <2> QED BY <1>0, <2>1
  <1>2. Below({s} \cup rest, Outs(Q))
    BY DEF TaskOrder, Below
  <1>3. AckRequired => Outs(E) \cup Outs(B) \subseteq 1..s \cup rest
    <2> SUFFICES ASSUME AckRequired, NEW y \in Outs(E) \cup Outs(B)
                 PROVE  y \in 1..s \cup rest
      OBVIOUS
    <2>1. y \in 1..last \/ y \in out
      BY DEF TaskOrder
    <2>2. y \in 1..m
      BY DEF TaskOrder
    <2> QED BY <1>0, <2>1, <2>2
  <1> QED BY <1>1, <1>2, <1>3 DEF TaskOrder

----------------------------------------------------------------------------
(* Every step keeps the order. *)

(* A step that leaves a task's chunks where they are.                       *)
LEMMA Untouched ==
  ASSUME NEW x \in Tasks, TaskOrderAt(x),
         emitted'[x] = emitted[x], Batch(x)' = Batch(x), queued'[x] = queued[x],
         outstanding'[x] = outstanding[x], lastAck'[x] = lastAck[x], outputSeq'[x] = outputSeq[x]
  PROVE  TaskOrderAt(x)'
  BY DEF TaskOrderAt

(* A thread that takes the lock finds no batch.                             *)
LEMMA NoBatch ==
  ASSUME BatchHeld, OrderFree \/ order.stage = "drain"
  PROVE  \A x : Batch(x) = <<>>
  BY DEF BatchHeld, Batch

LEMMA OrderStep == OrderInvariant /\ [Next]_vars => OrderInvariant'
  <1> SUFFICES ASSUME OrderInvariant, [Next]_vars PROVE OrderInvariant'
    OBVIOUS
  <1>0. Shape /\ BatchHeld /\ \A t \in Tasks : TaskOrderAt(t)
    BY OrderInvariantByTask
  <1>S. Shape'
    BY <1>0, ShapeStep
  <1>T. \A t \in Tasks : /\ emitted[t] \in Seq(Event) /\ queued[t] \in Seq(Event)
                         /\ outstanding[t] \in SUBSET Nat /\ lastAck[t] \in Nat
                         /\ outputSeq[t] \in Nat /\ statusSeq[t] \in Nat
    BY <1>0 DEF Shape
  <1> DEFINE Goal == BatchHeld' /\ \A x \in Tasks : TaskOrderAt(x)'
  <1>1. ASSUME UNCHANGED <<emitted, order, queued, outstanding, lastAck, outputSeq>>
        PROVE  Goal
    BY <1>0, <1>1, Untouched DEF BatchHeld, OrderFree, Batch
  <1>2. ASSUME NEW t \in Tasks, start(t) \/ commit_start(t) \/ abandon_start(t)
                                 \/ poll_delivered(t) \/ poll_deadline(t)
        PROVE  Goal
    <2>1. UNCHANGED <<emitted, order, queued, outstanding, lastAck, outputSeq>>
      BY <1>2 DEF start, commit_start, abandon_start, poll_delivered, poll_deadline, entryVars
    <2> QED BY <1>1, <2>1
  <1>3. ASSUME NEW t \in Tasks, NEW q \in Seq(Event), NEW n \in 0..Len(q), NEW m \in Nat,
               OrderFree \/ order.stage = "drain",
               TaskOrder(emitted[t], <<>>, q, outstanding[t], lastAck[t], m),
               take_ready_events(t, q, n), outputSeq' = [outputSeq EXCEPT ![t] = m],
               UNCHANGED <<emitted, lastAck>>,
               order'.task = t, order'.batch = SubSeq(q, 1, n)
        PROVE  \A x \in Tasks : TaskOrderAt(x)'
    <2>1. TaskOrderAt(t)'
      <3>1. /\ Batch(t)' = SubSeq(q, 1, n)
            /\ queued'[t] = SubSeq(q, n + 1, Len(q))
            /\ outstanding'[t] = IF AckRequired THEN outstanding[t] \cup Taken(q, n)
                                                ELSE outstanding[t]
            /\ emitted'[t] = emitted[t] /\ lastAck'[t] = lastAck[t] /\ outputSeq'[t] = m
        BY <1>0, <1>3 DEF Batch, take_ready_events, Shape
      <3>2. TaskOrder(emitted[t], SubSeq(q, 1, n), SubSeq(q, n + 1, Len(q)),
                      IF AckRequired THEN outstanding[t] \cup Taken(q, n) ELSE outstanding[t],
                      lastAck[t], m)
        BY <1>3, <1>T, TakeOrder
      <3> QED BY <3>1, <3>2 DEF TaskOrderAt
    <2>2. ASSUME NEW x \in Tasks, x # t PROVE TaskOrderAt(x)'
      <3>1. Batch(x) = <<>> /\ Batch(x)' = <<>>
        BY <1>0, <1>3, <2>2, NoBatch DEF Batch
      <3>2. /\ queued'[x] = queued[x] /\ outstanding'[x] = outstanding[x]
            /\ outputSeq'[x] = outputSeq[x] /\ emitted'[x] = emitted[x] /\ lastAck'[x] = lastAck[x]
        BY <1>0, <1>3, <2>2 DEF take_ready_events, Shape
      <3> QED BY <1>0, <3>1, <3>2, Untouched
    <2> QED BY <2>1, <2>2
  <1>4. ASSUME NEW t \in Tasks, NEW kind \in OutputKinds, publish(t, kind) PROVE Goal
    <2> DEFINE m == outputSeq[t] + 1
               e == [kind |-> kind, seq |-> m]
               q == push_queued(queued[t], e)
    <2>1. e \in Event /\ e.seq = m /\ m \in Nat /\ outputSeq' = [outputSeq EXCEPT ![t] = m]
      BY <1>4, <1>T DEF Event, publish
    <2>2. Batch(t) = <<>> /\ OrderFree
      BY <1>0, <1>4, NoBatch DEF publish
    <2>3. q \in Seq(Event)
      BY <1>T, <2>1, PushOuts
    <2>4. TaskOrder(emitted[t], <<>>, queued[t], outstanding[t], lastAck[t], outputSeq[t])
      BY <1>0, <2>2 DEF TaskOrderAt
    <2>5. TaskOrder(emitted[t], <<>>, q, outstanding[t], lastAck[t], m)
      BY <1>T, <2>1, <2>4, PublishOrder
    <2>6. UNCHANGED <<emitted, lastAck>>
      BY <1>4 DEF publish
    <2> HIDE DEF m, e, q
    <2>7. CASE acknowledged[t] /\ ~flushing[t]
      <3>1. PICK n \in 0..Len(q) :
               /\ take_ready_events(t, q, n)
               /\ order' = [by |-> "pump", task |-> t, stage |-> "emit",
                            batch |-> SubSeq(q, 1, n)]
        BY <1>4, <2>7 DEF publish, q, e, m
      <3>2. BatchHeld'
        BY <3>1 DEF BatchHeld, OrderFree
      <3>3. order'.task = t /\ order'.batch = SubSeq(q, 1, n)
        BY <3>1
      <3> QED BY <1>3, <2>1, <2>2, <2>3, <2>5, <2>6, <3>1, <3>2, <3>3
    <2>8. CASE ~(acknowledged[t] /\ ~flushing[t])
      <3>1. queued' = [queued EXCEPT ![t] = q] /\ UNCHANGED <<outstanding, order>>
        BY <1>4, <2>8 DEF publish, q, e, m
      <3>2. BatchHeld' /\ \A x \in Tasks : Batch(x)' = Batch(x)
        BY <1>0, <3>1 DEF BatchHeld, OrderFree, Batch
      <3>3. TaskOrderAt(t)'
        <4>1. queued'[t] = q /\ outputSeq'[t] = m /\ emitted'[t] = emitted[t]
              /\ lastAck'[t] = lastAck[t] /\ outstanding'[t] = outstanding[t] /\ Batch(t)' = <<>>
          BY <1>0, <2>1, <2>2, <2>6, <3>1, <3>2 DEF Shape
        <4> QED BY <2>5, <4>1 DEF TaskOrderAt
      <3>4. ASSUME NEW x \in Tasks, x # t PROVE TaskOrderAt(x)'
        <4>1. queued'[x] = queued[x] /\ outputSeq'[x] = outputSeq[x] /\ emitted'[x] = emitted[x]
              /\ lastAck'[x] = lastAck[x] /\ outstanding'[x] = outstanding[x] /\ Batch(x)' = Batch(x)
          BY <1>0, <2>1, <2>6, <3>1, <3>2, <3>4 DEF Shape
        <4> QED BY <1>0, <4>1, Untouched
      <3> QED BY <3>2, <3>3, <3>4
    <2> QED BY <2>7, <2>8
  <1>5. ASSUME NEW t \in Tasks, acknowledge(t) PROVE Goal
    <2> DEFINE running == [kind |-> "running", seq |-> statusSeq[t] + 1]
               q == IF phase[t] = "Pending" THEN Append(queued[t], running) ELSE queued[t]
    <2>1. running \in Event /\ ~IsOutput(running)
      BY <1>T DEF Event, IsOutput, OutputKinds
    <2>2. Batch(t) = <<>> /\ OrderFree
      BY <1>0, <1>5, NoBatch DEF acknowledge
    <2>3. TaskOrder(emitted[t], <<>>, queued[t], outstanding[t], lastAck[t], outputSeq[t])
      BY <1>0, <2>2 DEF TaskOrderAt
    <2>4. q \in Seq(Event) /\ Outs(q) \subseteq Outs(queued[t]) /\ Sorted(q)
      <3> HIDE DEF running
      <3> QED BY <1>T, <2>1, <2>3, AppendOuts DEF TaskOrder
    <2> HIDE DEF q
    <2>5. TaskOrder(emitted[t], <<>>, q, outstanding[t], lastAck[t], outputSeq[t])
      BY <1>T, <2>3, <2>4, QueueOrder
    <2>6. PICK n \in 0..Len(q) :
             /\ take_ready_events(t, q, n)
             /\ order' = [by |-> "ack", task |-> t, stage |-> "emit",
                          batch |-> SubSeq(q, 1, n)]
      BY <1>5 DEF acknowledge, q
    <2>7. /\ UNCHANGED <<emitted, lastAck>> /\ outputSeq' = [outputSeq EXCEPT ![t] = outputSeq[t]]
          /\ order'.task = t /\ order'.batch = SubSeq(q, 1, n)
      BY <1>0, <1>5, <2>6 DEF acknowledge, Shape
    <2>8. BatchHeld'
      BY <2>6 DEF BatchHeld, OrderFree
    <2> QED BY <1>3, <1>T, <2>2, <2>4, <2>5, <2>6, <2>7, <2>8
  <1>6. ASSUME NEW t \in Tasks, NEW s \in 1..MaxOutputs[t], acknowledge_output(t, s) PROVE Goal
    <2>1. /\ OrderFree /\ s \in outstanding[t] /\ s > lastAck[t]
          /\ outstanding' = [outstanding EXCEPT ![t] = {x \in outstanding[t] : x > s}]
          /\ lastAck' = [lastAck EXCEPT ![t] = s]
          /\ order' = [by |-> "ackOutput", task |-> t, stage |-> "drain", batch |-> <<>>]
          /\ UNCHANGED <<emitted, queued, outputSeq>>
      BY <1>6 DEF acknowledge_output, Acknowledgeable
    <2>2. BatchHeld' /\ \A x \in Tasks : Batch(x) = <<>> /\ Batch(x)' = <<>>
      BY <1>0, <2>1, NoBatch DEF BatchHeld, Batch
    <2>3. TaskOrderAt(t)'
      <3>1. TaskOrder(emitted[t], <<>>, queued[t], outstanding[t], lastAck[t], outputSeq[t])
        BY <1>0, <2>2 DEF TaskOrderAt
      <3>2. outstanding'[t] = {x \in outstanding[t] : x > s} /\ lastAck'[t] = s
        BY <1>0, <2>1 DEF Shape
      <3>3. TaskOrder(emitted[t], <<>>, queued[t], outstanding'[t], s, outputSeq[t])
        BY <1>T, <2>1, <3>1, <3>2, AcknowledgeOrder
      <3> QED BY <2>1, <2>2, <3>2, <3>3 DEF TaskOrderAt
    <2>4. ASSUME NEW x \in Tasks, x # t PROVE TaskOrderAt(x)'
      <3>1. outstanding'[x] = outstanding[x] /\ lastAck'[x] = lastAck[x]
        BY <1>0, <2>1, <2>4 DEF Shape
      <3> QED BY <1>0, <2>1, <2>2, <3>1, Untouched
    <2> QED BY <2>2, <2>3, <2>4
  <1>7. ASSUME emit_queued_event PROVE Goal
    <2>0. PICK t \in Tasks : t = order.task
      BY <1>0 DEF Shape, OrderState
    <2>1. /\ order.batch \in Seq(Event) /\ order.batch # <<>>
          /\ ~OrderFree /\ order.stage = "emit" /\ Batch(t) = order.batch
      BY <1>0, <1>7, <2>0 DEF Shape, OrderState, emit_queued_event, Batch
    <2>2. /\ emitted' = [emitted EXCEPT ![t] = Append(emitted[t], Head(order.batch))]
          /\ order' = [order EXCEPT !.batch = Tail(order.batch)]
          /\ UNCHANGED <<queued, outstanding, lastAck, outputSeq>>
      BY <1>7, <2>0 DEF emit_queued_event, entryVars
    <2>3. order'.by = order.by /\ order'.stage = "emit" /\ order'.task = t
          /\ order'.batch = Tail(order.batch)
      BY <1>0, <2>0, <2>1, <2>2 DEF Shape, OrderState
    <2>4. BatchHeld'
      BY <2>1, <2>3 DEF BatchHeld, OrderFree
    <2>5. TaskOrderAt(t)'
      <3>1. TaskOrder(emitted[t], order.batch, queued[t], outstanding[t], lastAck[t], outputSeq[t])
        BY <1>0, <2>1 DEF TaskOrderAt
      <3>2. TaskOrder(Append(emitted[t], Head(order.batch)), Tail(order.batch), queued[t],
                      outstanding[t], lastAck[t], outputSeq[t])
        BY <1>T, <2>1, <3>1, EmitOrder
      <3>3. emitted'[t] = Append(emitted[t], Head(order.batch)) /\ Batch(t)' = Tail(order.batch)
        BY <1>0, <2>1, <2>2, <2>3 DEF Shape, Batch
      <3> QED BY <2>2, <3>2, <3>3 DEF TaskOrderAt
    <2>6. ASSUME NEW x \in Tasks, x # t PROVE TaskOrderAt(x)'
      <3>1. emitted'[x] = emitted[x] /\ Batch(x)' = Batch(x)
        BY <1>0, <2>0, <2>1, <2>2, <2>3, <2>6 DEF Shape, Batch
      <3> QED BY <1>0, <2>2, <3>1, Untouched
    <2> QED BY <2>4, <2>5, <2>6
  <1>8. ASSUME order'.batch = order.batch, order.batch = <<>>,
               UNCHANGED <<emitted, queued, outstanding, lastAck, outputSeq>>
        PROVE  Goal
    <2>1. BatchHeld' /\ \A x \in Tasks : Batch(x) = <<>> /\ Batch(x)' = <<>>
      BY <1>8 DEF BatchHeld, Batch
    <2> QED BY <1>0, <1>8, <2>1, Untouched
  <1>9. ASSUME finish_batch PROVE Goal
    <2>1. order'.batch = order.batch /\ order.batch = <<>>
      BY <1>0, <1>9 DEF finish_batch, Release, Shape, OrderState
    <2> QED BY <1>8, <1>9, <2>1 DEF finish_batch, entryVars
  <1>10. ASSUME drain_acknowledgement PROVE Goal
    <2>0. PICK t \in Tasks : t = order.task
      BY <1>0 DEF Shape, OrderState
    <2>1. order.stage = "drain" /\ order.batch = <<>> /\ Batch(t) = <<>>
          /\ UNCHANGED <<emitted, outputSeq, lastAck>>
      BY <1>0, <1>10, <2>0 DEF drain_acknowledgement, Shape, OrderState, BatchHeld, Batch, entryVars
    <2>2. CASE life[t] # "live" \/ ~acknowledged[t]
      <3>1. Release /\ UNCHANGED <<queued, outstanding>>
        BY <1>10, <2>0, <2>2 DEF drain_acknowledgement, entryVars
      <3>2. order'.batch = order.batch
        BY <1>0, <3>1 DEF Release, Shape, OrderState
      <3> QED BY <1>8, <2>1, <3>1, <3>2
    <2>3. CASE ~(life[t] # "live" \/ ~acknowledged[t])
      <3>1. PICK n \in 0..Len(queued[t]) :
              /\ take_ready_events(t, queued[t], n)
              /\ (n > 0) => order' = [order EXCEPT !.stage = "emit",
                                        !.batch = SubSeq(queued[t], 1, n)]
              /\ ~(n > 0) => Release
        BY <1>10, <2>0, <2>3 DEF drain_acknowledgement
      <3>2. order'.task = t /\ order'.batch = SubSeq(queued[t], 1, n) /\ BatchHeld'
        <4>1. CASE n > 0
          <5>1. order' = [order EXCEPT !.stage = "emit", !.batch = SubSeq(queued[t], 1, n)]
            BY <3>1, <4>1
          <5>2. order'.task = t /\ order'.batch = SubSeq(queued[t], 1, n)
                /\ order'.stage = "emit" /\ order'.by = order.by
            BY <1>0, <2>0, <5>1 DEF Shape, OrderState
          <5>3. ~OrderFree
            BY <1>10 DEF drain_acknowledgement
          <5> QED BY <5>2, <5>3 DEF BatchHeld, OrderFree
        <4>2. CASE ~(n > 0)
          <5>1. n = 0 /\ SubSeq(queued[t], 1, n) = <<>>
            BY <1>T, <2>1, <4>2, SubSeqEmpty
          <5>2. order'.task = t /\ order'.batch = <<>>
            BY <1>0, <2>0, <2>1, <3>1, <4>2 DEF Release, Shape, OrderState
          <5> QED BY <5>1, <5>2 DEF BatchHeld
        <4> QED BY <4>1, <4>2
      <3>3. TaskOrder(emitted[t], <<>>, queued[t], outstanding[t], lastAck[t], outputSeq[t])
        BY <1>0, <2>1 DEF TaskOrderAt
      <3>4. outputSeq' = [outputSeq EXCEPT ![t] = outputSeq[t]]
        BY <1>0, <2>1 DEF Shape
      <3> QED BY <1>3, <1>T, <2>1, <3>1, <3>2, <3>3, <3>4
    <2> QED BY <2>2, <2>3
  <1>11. ASSUME NEW t \in Tasks, complete(t) PROVE Goal
    <2> DEFINE direct == EmitsDirectly(t)
               final == [kind |-> "terminal",
                         seq |-> IF phase[t] = "Pending" /\ ~direct
                                 THEN statusSeq[t] + 2 ELSE statusSeq[t] + 1]
               running == [kind |-> "running", seq |-> statusSeq[t] + 1]
               w == WithRunning(t, queued[t])
               r == push_queued(w, final)
    <2>1. final \in Event /\ ~IsOutput(final) /\ running \in Event /\ ~IsOutput(running)
      BY <1>T DEF Event, IsOutput, OutputKinds, FinalKinds
    <2>2. queued' = [queued EXCEPT ![t] = IF direct THEN queued[t] ELSE r]
      BY <1>11 DEF complete
    <2>3. Sorted(queued[t])
      BY <1>0 DEF TaskOrderAt, TaskOrder
    <2> HIDE DEF final, direct, running
    <2>4. w \in Seq(Event) /\ Outs(w) \subseteq Outs(queued[t]) /\ Sorted(w)
      BY <1>T, <2>1, <2>3, PushOuts DEF WithRunning, running
    <2> HIDE DEF w
    <2>5. Outs(r) \subseteq Outs(queued[t]) /\ Sorted(r)
      BY <2>1, <2>4, PushOuts
    <2> HIDE DEF r
    <2>6. UNCHANGED <<emitted, order, outstanding, lastAck, outputSeq>>
      BY <1>11 DEF complete
    <2>7. BatchHeld' /\ \A x \in Tasks : Batch(x)' = Batch(x)
      BY <1>0, <2>6 DEF BatchHeld, OrderFree, Batch
    <2>8. TaskOrderAt(t)'
      <3>1. TaskOrder(emitted[t], Batch(t), r, outstanding[t], lastAck[t], outputSeq[t])
        BY <1>0, <1>T, <2>5, QueueOrder DEF TaskOrderAt
      <3>2. queued'[t] = queued[t] \/ queued'[t] = r
        BY <1>0, <2>2 DEF Shape
      <3> QED BY <1>0, <2>6, <2>7, <3>1, <3>2 DEF TaskOrderAt
    <2>9. ASSUME NEW x \in Tasks, x # t PROVE TaskOrderAt(x)'
      <3>1. queued'[x] = queued[x]
        BY <1>0, <2>2, <2>9 DEF Shape
      <3> QED BY <1>0, <2>6, <2>7, <3>1, Untouched
    <2> QED BY <2>7, <2>8, <2>9
  <1>12. ASSUME NEW x \in Tasks, NEW e \in Event, ~IsOutput(e),
                emitted' = [emitted EXCEPT ![x] = Append(emitted[x], e)],
                UNCHANGED <<order, queued, outstanding, lastAck, outputSeq>>
         PROVE  Goal
    <2>1. BatchHeld' /\ \A y \in Tasks : Batch(y)' = Batch(y)
      BY <1>0, <1>12 DEF BatchHeld, OrderFree, Batch
    <2>2. TaskOrderAt(x)'
      <3>1. TaskOrder(Append(emitted[x], e), Batch(x), queued[x], outstanding[x], lastAck[x], outputSeq[x])
        BY <1>0, <1>12, <1>T, StatusOrder DEF TaskOrderAt
      <3>2. emitted'[x] = Append(emitted[x], e)
        BY <1>0, <1>12 DEF Shape
      <3> QED BY <1>12, <2>1, <3>1, <3>2 DEF TaskOrderAt
    <2>3. ASSUME NEW y \in Tasks, y # x PROVE TaskOrderAt(y)'
      <3>1. emitted'[y] = emitted[y]
        BY <1>0, <1>12, <2>3 DEF Shape
      <3> QED BY <1>0, <1>12, <2>1, <3>1, Untouched
    <2> QED BY <2>1, <2>2, <2>3
  <1>13. ASSUME NEW t \in Tasks, NEW x \in Tasks, emit_expired(t, x) PROVE Goal
    <2> DEFINE e == [kind |-> "lost", seq |-> statusSeq[x] + 1]
    <2>1. e \in Event /\ ~IsOutput(e)
      BY <1>T DEF Event, IsOutput, OutputKinds, FinalKinds
    <2>2. emitted' = [emitted EXCEPT ![x] = Append(emitted[x], e)]
          /\ UNCHANGED <<order, queued, outstanding, lastAck, outputSeq>>
      BY <1>13 DEF emit_expired, entryVars
    <2> HIDE DEF e
    <2> QED BY <1>12, <2>1, <2>2
  <1>14. ASSUME NEW t \in Tasks, emit_direct(t) PROVE Goal
    <2> DEFINE e == [kind |-> "terminal", seq |-> statusSeq[t]]
    <2>1. e \in Event /\ ~IsOutput(e)
      BY <1>T DEF Event, IsOutput, OutputKinds, FinalKinds
    <2>2. emitted' = [emitted EXCEPT ![t] = Append(emitted[t], e)]
          /\ UNCHANGED <<order, queued, outstanding, lastAck, outputSeq>>
      BY <1>14 DEF emit_direct, entryVars
    <2> HIDE DEF e
    <2> QED BY <1>12, <2>1, <2>2
  <1>15. ASSUME NEW t \in Tasks, complete_drain(t) PROVE Goal
    <2>1. UNCHANGED <<emitted, queued, outstanding, lastAck, outputSeq>>
      BY <1>15 DEF complete_drain, entryVars
    <2>2. CASE AckRequired
      <3>1. OrderFree /\ order' = [by |-> "waiter", task |-> t, stage |-> "drain", batch |-> <<>>]
        BY <1>15, <2>2 DEF complete_drain
      <3>2. order'.batch = order.batch /\ order.batch = <<>>
        BY <1>0, <3>1 DEF BatchHeld
      <3> QED BY <1>8, <2>1, <3>2
    <2>3. CASE ~AckRequired
      <3>1. order' = order
        BY <1>15, <2>3 DEF complete_drain
      <3> QED BY <1>1, <2>1, <3>1
    <2> QED BY <2>2, <2>3
  <1>16. ASSUME NEW t \in Tasks, interrupt_delivery(t) PROVE Goal
    <2> DEFINE e == [kind |-> "lost", seq |-> statusSeq[t] + 1]
    <2>1. e \in Event /\ ~IsOutput(e)
      BY <1>T DEF Event, IsOutput, OutputKinds, FinalKinds
    <2>2. UNCHANGED <<emitted, queued, outstanding, lastAck, outputSeq>> /\ OrderFree
      BY <1>16 DEF interrupt_delivery
    <2>3. \/ order' = order
          \/ order' = [by |-> "overdue", task |-> t, stage |-> "emit", batch |-> <<e>>]
      BY <1>16 DEF interrupt_delivery
    <2> HIDE DEF e
    <2>4. CASE order' = order
      BY <1>1, <2>2, <2>4
    <2>5. CASE order' = [by |-> "overdue", task |-> t, stage |-> "emit", batch |-> <<e>>]
      <3>1. BatchHeld'
        BY <2>5 DEF BatchHeld, OrderFree
      <3>2. Outs(<<e>>) = {} /\ Sorted(<<e>>)
        BY <2>1 DEF Outs, Sorted
      <3>3. TaskOrderAt(t)'
        <4>1. Batch(t) = <<>> /\ Batch(t)' = <<e>>
          BY <1>0, <2>2, <2>5, NoBatch DEF Batch
        <4>2. TaskOrder(emitted[t], <<e>>, queued[t], outstanding[t], lastAck[t], outputSeq[t])
          BY <1>0, <3>2, <4>1, EmptyOuts DEF TaskOrderAt, TaskOrder
        <4> QED BY <2>2, <4>1, <4>2 DEF TaskOrderAt
      <3>4. ASSUME NEW x \in Tasks, x # t PROVE TaskOrderAt(x)'
        <4>1. Batch(x) = <<>> /\ Batch(x)' = <<>>
          BY <1>0, <2>2, <2>5, <3>4, NoBatch DEF Batch
        <4> QED BY <1>0, <2>2, <4>1, Untouched
      <3> QED BY <3>1, <3>3, <3>4
    <2> QED BY <2>3, <2>4, <2>5
  <1>17. ASSUME UNCHANGED vars PROVE Goal
    <2>1. UNCHANGED <<emitted, order, queued, outstanding, lastAck, outputSeq>>
      BY <1>17 DEF vars, entryVars
    <2> QED BY <1>1, <2>1
  <1>18. Goal
    <2> HIDE DEF Goal
    <2> QED
      BY <1>2, <1>4, <1>5, <1>6, <1>7, <1>9, <1>10, <1>11, <1>13, <1>14, <1>15,
         <1>16, <1>17 DEF Next, Holder, Waiter
  <1>19. OrderInvariant' <=> Shape' /\ BatchHeld' /\ \A t \in Tasks : TaskOrderAt(t)'
    BY DEF OrderInvariant, TypeOK, AcksInRange, StagesInOrder, WindowCovers, TaskOrderAt, TaskOrder
  <1> QED BY <1>S, <1>18, <1>19

LEMMA OrderInit == Init => OrderInvariant
  <1> SUFFICES ASSUME Init PROVE OrderInvariant
    OBVIOUS
  <1>1. Shape
    <2>1. <<>> \in Seq(Event) /\ <<>> \in Seq(Tasks)
      BY EmptySeq
    <2>2. order \in OrderState
      BY <2>1 DEF Init, OrderState, Holders
    <2> QED BY <2>1, <2>2 DEF Init, Shape
  <1>2. BatchHeld /\ \A t \in Tasks : Batch(t) = <<>>
    BY DEF Init, BatchHeld, Batch
  <1>3. ASSUME NEW t \in Tasks PROVE TaskOrderAt(t)
    <2>1. TaskOrder(<<>>, <<>>, <<>>, {}, 0, 0)
      BY EmptyOuts DEF TaskOrder, Below
    <2> QED BY <1>2, <2>1 DEF Init, TaskOrderAt
  <1> QED BY <1>1, <1>2, <1>3, OrderInvariantByTask

(* The inductive invariant holds of every behaviour: chunks keep their      *)
(* order on the way through queue, batch and sink.                          *)
THEOREM OrderInvariance == Spec => []OrderInvariant
  BY OrderInit, OrderStep, PTL DEF Spec

(* Types, and acknowledgements within what was produced.                    *)
THEOREM TypeCorrect == Spec => []TypeOK
  <1>1. OrderInvariant => TypeOK
    BY DEF OrderInvariant
  <1> QED BY <1>1, OrderInvariance, PTL

(* For every number of tasks, every ring and window size and both kinds of  *)
(* sink, chunks reach the sink in the order they were produced.             *)
THEOREM OutputsOrdered == Spec => []OutputsInOrder
  <1>1. OrderInvariant => OutputsInOrder
    BY DEF OrderInvariant, StagesInOrder, Sorted, OutputsInOrder
  <1> QED BY <1>1, OrderInvariance, PTL

----------------------------------------------------------------------------
(* AgentTaskDelivery implements TaskEventChannel: the promise to the sink   *)
(* is kept step by step.  Besides the order of the chunks, which was shown  *)
(* above, this rests on where the status events of a task are on their way  *)
(* and on what each of them rules out.                                      *)

(* The status events of a sequence.                                         *)
Statuses(s) == {s[i].kind : i \in 1..Len(s)} \ OutputKinds

Numbered(e) ==
    /\ e.kind = "running" => e.seq = 1
    /\ e.kind = "terminal" => e.seq = 2
    /\ e.kind = "lost" => e.seq = 3

(* Each status at most once, with its number, and nothing after the         *)
(* terminal one.                                                            *)
Tidy(s) ==
    /\ \A i \in 1..Len(s) :
          /\ Numbered(s[i])
          /\ s[i].kind = "terminal" => i = Len(s)
          /\ \A j \in 1..Len(s) : i < j /\ ~IsOutput(s[i]) => s[i].kind # s[j].kind

(* Where the statuses of a task are: e was emitted, b is the batch, q the   *)
(* queue; a waiter wt = "direct" is about to emit the terminal status       *)
(* itself, the waiters of the tasks in ex are about to replace it.          *)
Ledger(e, b, q, out, ph, lf, ackd, wt, ex) ==
    LET E == Statuses(e)
        B == Statuses(b)
        Q == Statuses(q) IN
    /\ Tidy(b) /\ Tidy(q) /\ "lost" \notin Q
    /\ E \cap B = {} /\ E \cap Q = {} /\ B \cap Q = {}
    /\ ph = "Pending" => E \cup B \cup Q = {}
    /\ ph # "Pending" => "running" \in E \cup B \cup Q
    /\ ph # "Terminal" => FinalKinds \cap (E \cup B \cup Q) = {} /\ ex = {} /\ wt # "direct"
    /\ ph = "Terminal" /\ wt # "direct" => "terminal" \in E \cup B \cup Q
    /\ "terminal" \in E => b = <<>>
    /\ "terminal" \in E \cup B => q = <<>> /\ out = {}
    /\ wt = "direct" => b = <<>> /\ q = <<>> /\ out = {} /\ "terminal" \notin E
    /\ lf # "removed" /\ ~ackd => e = <<>> /\ b = <<>>
    /\ "lost" \in E \cup B \/ ex # {} => lf = "removed" /\ "terminal" \in Q
    /\ ex # {} => "lost" \notin E \cup B

(* What is in the window was handed over or is about to be, and is not      *)
(* acknowledged; only an acknowledging sink has a window, and it is kept.   *)
InWindow(e, b, out, last) ==
    /\ out \subseteq Outs(e) \cup Outs(b)
    /\ Below({last}, Outs(b))
    /\ IsFiniteSet(out)
    /\ IF AckRequired THEN Cardinality(out) <= Window ELSE out = {}

Expirers(t) == {y \in Tasks : t \in expiring[y]}

LedgerAt(t) ==
    Ledger(emitted[t], Batch(t), queued[t], outstanding[t], phase[t], life[t],
           acknowledged[t], waiter[t], Expirers(t))

WindowAt(t) == InWindow(emitted[t], Batch(t), outstanding[t], lastAck[t])

Counted(t) ==
    /\ statusSeq[t] = CASE phase[t] = "Pending" -> 0 [] phase[t] = "Running" -> 1
                        [] OTHER -> 2
    /\ acknowledged[t] => phase[t] # "Pending"

(* A sink that acknowledges nothing is handed whatever is queued at once,   *)
(* except while the acknowledgement of the start is flushed.                *)
Prompt(t) ==
    /\ life[t] = "unstarted" => waiter[t] = "none"
    /\ ~AckRequired /\ acknowledged[t] /\ ~flushing[t] => queued[t] = <<>>
    /\ ~AckRequired => waiter[t] \notin {"await", "overdue"}

HolderOK ==
    /\ order.by = "ack" => flushing[order.task]
    /\ order.by \in {"ackOutput", "waiter", "overdue"} => AckRequired

(* terminal_order names registered, completed tasks, each once; each evicted *)
(* one expires with one waiter.                                              *)
Ids(s) == {s[i] : i \in 1..Len(s)}
Distinct(s) == \A i, j \in 1..Len(s) : i # j => s[i] # s[j]

EvictionOK ==
    /\ \A x \in Ids(terminalOrder) : life[x] = "live" /\ phase[x] = "Terminal"
    /\ Distinct(terminalOrder)
    /\ \A y, z \in Tasks : expiring[y] \cap expiring[z] # {} => y = z

TaskOK(t) == LedgerAt(t) /\ WindowAt(t) /\ Counted(t) /\ Prompt(t)

DeliveryInvariant ==
    /\ OrderInvariant /\ HolderOK /\ EvictionOK
    /\ \A t \in Tasks : TaskOK(t)

----------------------------------------------------------------------------
(* Status events: what each operation of the code does to a sequence.       *)

StatusOf(e) == IF IsOutput(e) THEN {} ELSE {e.kind}

LEMMA EmptyTidy == Statuses(<<>>) = {} /\ Tidy(<<>>)
  BY DEF Statuses, Tidy

LEMMA StatusesAreKinds ==
  ASSUME NEW s \in Seq(Event), NEW i \in 1..Len(s), ~IsOutput(s[i])
  PROVE  s[i].kind \in Statuses(s)
  BY DEF Statuses, IsOutput

(* Handing an event to the sink, or queueing a status past the limit.       *)
LEMMA AppendTidy ==
  ASSUME NEW s \in Seq(Event), NEW e \in Event
  PROVE  /\ Append(s, e) \in Seq(Event)
         /\ Statuses(Append(s, e)) = Statuses(s) \cup StatusOf(e)
         /\ Tidy(s) /\ Numbered(e) /\ "terminal" \notin Statuses(s)
                    /\ StatusOf(e) \cap Statuses(s) = {}
               => Tidy(Append(s, e))
  <1> DEFINE r == Append(s, e)
  <1>1. /\ r \in Seq(Event) /\ Len(r) = Len(s) + 1 /\ Len(s) \in Nat
        /\ \A i \in 1..Len(s) : r[i] = s[i]
        /\ r[Len(s) + 1] = e
    BY AppendProperties, LenProperties
  <1> HIDE DEF r
  <1>2. Statuses(r) = Statuses(s) \cup StatusOf(e)
    <2>1. ASSUME NEW x \in Statuses(r) PROVE x \in Statuses(s) \cup StatusOf(e)
      BY <1>1, <2>1 DEF Statuses, StatusOf, IsOutput
    <2>2. ASSUME NEW x \in Statuses(s) PROVE x \in Statuses(r)
      BY <1>1, <2>2 DEF Statuses
    <2>3. ASSUME NEW x \in StatusOf(e) PROVE x \in Statuses(r)
      BY <1>1, <2>3 DEF Statuses, StatusOf, IsOutput
    <2> QED BY <2>1, <2>2, <2>3
  <1>3. ASSUME Tidy(s), Numbered(e), "terminal" \notin Statuses(s),
               StatusOf(e) \cap Statuses(s) = {}
        PROVE  Tidy(r)
    <2>1. ASSUME NEW i \in 1..Len(r)
          PROVE  Numbered(r[i]) /\ (r[i].kind = "terminal" => i = Len(r))
      <3>1. CASE i \in 1..Len(s)
        <4>1. r[i] = s[i] /\ Numbered(s[i])
          BY <1>1, <1>3, <3>1 DEF Tidy
        <4>2. s[i].kind # "terminal"
          BY <1>3, <3>1 DEF Statuses, OutputKinds
        <4> QED BY <4>1, <4>2
      <3>2. CASE i = Len(s) + 1
        BY <1>1, <1>3, <3>2
      <3> QED BY <1>1, <3>1, <3>2
    <2>2. ASSUME NEW i \in 1..Len(r), NEW j \in 1..Len(r), i < j, ~IsOutput(r[i])
          PROVE  r[i].kind # r[j].kind
      <3>1. i \in 1..Len(s) /\ r[i] = s[i]
        BY <1>1, <2>2
      <3>2. CASE j \in 1..Len(s)
        BY <1>1, <1>3, <2>2, <3>1, <3>2 DEF Tidy
      <3>3. CASE j = Len(s) + 1
        <4>1. s[i].kind \in Statuses(s) /\ r[j] = e
          BY <1>1, <2>2, <3>1, <3>3 DEF Statuses, IsOutput
        <4>2. CASE IsOutput(e)
          BY <2>2, <3>1, <4>1, <4>2 DEF IsOutput
        <4>3. CASE ~IsOutput(e)
          BY <1>3, <3>1, <4>1, <4>3 DEF StatusOf
        <4> QED BY <4>2, <4>3
      <3> QED BY <1>1, <3>2, <3>3
    <2> QED BY <2>1, <2>2 DEF Tidy
  <1> QED BY <1>1, <1>2, <1>3 DEF r

LEMMA TailTidy ==
  ASSUME NEW s \in Seq(Event), s # <<>>
  PROVE  /\ Statuses(s) = Statuses(Tail(s)) \cup StatusOf(Head(s))
         /\ Tidy(s) => /\ Tidy(Tail(s)) /\ Numbered(Head(s))
                       /\ StatusOf(Head(s)) \cap Statuses(Tail(s)) = {}
                       /\ Head(s).kind = "terminal" => Tail(s) = <<>>
  <1> DEFINE r == Tail(s)
  <1>1. /\ r \in Seq(Event) /\ Len(r) = Len(s) - 1 /\ Len(s) \in Nat \ {0} /\ Len(r) \in Nat
        /\ \A i \in 1..Len(r) : r[i] = s[i + 1]
        /\ Head(s) = s[1] /\ Head(s) \in Event
    BY HeadTailProperties, EmptySeq, LenProperties
  <1> HIDE DEF r
  <1>2. \A i \in 1..Len(s) : i = 1 \/ (i - 1 \in 1..Len(r) /\ s[i] = r[i - 1])
    BY <1>1
  <1>3. \A i \in 1..Len(r) : i + 1 \in 1..Len(s)
    BY <1>1
  <1>4. Statuses(s) = Statuses(r) \cup StatusOf(Head(s))
    <2>1. ASSUME NEW x \in Statuses(s) PROVE x \in Statuses(r) \cup StatusOf(Head(s))
      <3>1. PICK i \in 1..Len(s) : s[i].kind = x /\ x \notin OutputKinds
        BY <2>1 DEF Statuses
      <3>2. CASE i = 1
        BY <1>1, <3>1, <3>2 DEF StatusOf, IsOutput
      <3>3. CASE i - 1 \in 1..Len(r) /\ s[i] = r[i - 1]
        BY <3>1, <3>3 DEF Statuses
      <3> QED BY <1>2, <3>1, <3>2, <3>3
    <2>2. ASSUME NEW x \in Statuses(r) PROVE x \in Statuses(s)
      BY <1>1, <1>3, <2>2 DEF Statuses
    <2>3. ASSUME NEW x \in StatusOf(Head(s)) PROVE x \in Statuses(s)
      BY <1>1, <2>3 DEF Statuses, StatusOf, IsOutput
    <2> QED BY <2>1, <2>2, <2>3
  <1>5. ASSUME Tidy(s) PROVE Tidy(r)
    <2>1. ASSUME NEW i \in 1..Len(r)
          PROVE  Numbered(r[i]) /\ (r[i].kind = "terminal" => i = Len(r))
      <3>1. r[i] = s[i + 1] /\ i + 1 \in 1..Len(s)
        BY <1>1, <1>3
      <3>2. Numbered(s[i + 1]) /\ (s[i + 1].kind = "terminal" => i + 1 = Len(s))
        BY <1>5, <3>1 DEF Tidy
      <3> QED BY <1>1, <3>1, <3>2
    <2>2. ASSUME NEW i \in 1..Len(r), NEW j \in 1..Len(r), i < j, ~IsOutput(r[i])
          PROVE  r[i].kind # r[j].kind
      <3>1. r[i] = s[i + 1] /\ r[j] = s[j + 1] /\ i + 1 \in 1..Len(s) /\ j + 1 \in 1..Len(s)
            /\ i + 1 < j + 1
        BY <1>1, <1>3, <2>2
      <3> QED BY <1>5, <2>2, <3>1 DEF Tidy
    <2> QED BY <2>1, <2>2 DEF Tidy
  <1>6. ASSUME Tidy(s)
        PROVE  /\ Numbered(Head(s))
               /\ StatusOf(Head(s)) \cap Statuses(r) = {}
               /\ Head(s).kind = "terminal" => r = <<>>
    <2>1. Numbered(Head(s)) /\ 1 \in 1..Len(s)
      BY <1>1, <1>6 DEF Tidy
    <2>2. ASSUME NEW i \in 1..Len(r), ~IsOutput(s[1]) PROVE r[i].kind # s[1].kind
      <3>1. r[i] = s[i + 1] /\ i + 1 \in 1..Len(s) /\ 1 < i + 1
        BY <1>1, <1>3
      <3> QED BY <1>6, <2>1, <2>2, <3>1 DEF Tidy
    <2>3. StatusOf(Head(s)) \cap Statuses(r) = {}
      BY <1>1, <2>2 DEF StatusOf, Statuses
    <2>4. ASSUME Head(s).kind = "terminal" PROVE r = <<>>
      <3>1. Len(s) = 1
        BY <1>1, <1>6, <2>1, <2>4 DEF Tidy
      <3> QED BY <1>1, <3>1, EmptySeq
    <2> QED BY <2>1, <2>3, <2>4
  <1> QED BY <1>4, <1>5, <1>6 DEF r

(* A sequence that keeps some positions of another in their order.          *)
Within(f, r, s) ==
    /\ f \in [1..Len(r) -> 1..Len(s)]
    /\ \A i, j \in 1..Len(r) : i < j => f[i] < f[j]
    /\ \A i \in 1..Len(r) : r[i] = s[f[i]]

LEMMA SubseqTidy ==
  ASSUME NEW s \in Seq(Event), NEW r \in Seq(Event), NEW f, Within(f, r, s)
  PROVE  Statuses(r) \subseteq Statuses(s) /\ (Tidy(s) => Tidy(r))
  <1> USE DEF Within
  <1>0. Len(s) \in Nat /\ Len(r) \in Nat
    BY LenProperties
  <1>1. Statuses(r) \subseteq Statuses(s)
    BY DEF Statuses
  <1>2. ASSUME Tidy(s) PROVE Tidy(r)
    <2>1. ASSUME NEW i \in 1..Len(r)
          PROVE  Numbered(r[i]) /\ (r[i].kind = "terminal" => i = Len(r))
      <3>1. Numbered(r[i]) /\ f[i] \in 1..Len(s)
        BY <1>2 DEF Tidy
      <3>2. ASSUME r[i].kind = "terminal", i # Len(r) PROVE FALSE
        <4>1. i < Len(r) /\ Len(r) \in 1..Len(r)
          BY <1>0, <3>2
        <4>2. f[i] < f[Len(r)] /\ f[Len(r)] \in 1..Len(s)
          BY <4>1
        <4>3. f[i] = Len(s)
          BY <1>2, <3>1, <3>2 DEF Tidy
        <4> QED BY <1>0, <4>2, <4>3
      <3> QED BY <3>1, <3>2
    <2>2. ASSUME NEW i \in 1..Len(r), NEW j \in 1..Len(r), i < j, ~IsOutput(r[i])
          PROVE  r[i].kind # r[j].kind
      <3>1. r[i] = s[f[i]] /\ r[j] = s[f[j]] /\ f[i] \in 1..Len(s) /\ f[j] \in 1..Len(s)
            /\ f[i] < f[j]
        BY <2>2
      <3> QED BY <1>2, <2>2, <3>1 DEF Tidy
    <2> QED BY <2>1, <2>2 DEF Tidy
  <1> QED BY <1>1, <1>2

(* take_ready_events splits the statuses between the batch and the rest.    *)
Split(q, n, b, r) ==
    /\ b \in Seq(Event) /\ r \in Seq(Event)
    /\ Tidy(b) /\ Tidy(r)
    /\ Statuses(q) = Statuses(b) \cup Statuses(r)
    /\ Statuses(b) \cap Statuses(r) = {}
    /\ "terminal" \in Statuses(b) => r = <<>> /\ n > 0 /\ q[n].kind = "terminal"

LEMMA SplitTidy ==
  ASSUME NEW q \in Seq(Event), NEW n \in 0..Len(q), Tidy(q)
  PROVE  Split(q, n, SubSeq(q, 1, n), SubSeq(q, n + 1, Len(q)))
  <1> DEFINE b == SubSeq(q, 1, n)
             r == SubSeq(q, n + 1, Len(q))
  <1>0. Len(q) \in Nat /\ n \in Nat /\ n <= Len(q)
    BY LenProperties
  <1>1. /\ b \in Seq(Event) /\ Len(b) = n /\ \A i \in 1..Len(b) : b[i] = q[i]
    BY SplitPositions
  <1>2. /\ r \in Seq(Event) /\ Len(r) = Len(q) - n /\ \A i \in 1..Len(r) : r[i] = q[n + i]
    BY SplitPositions
  <1> HIDE DEF b, r
  <1>3. (\A i \in 1..Len(b) : i \in 1..Len(q)) /\ (\A i \in 1..Len(r) : n + i \in 1..Len(q))
    BY <1>0, <1>1, <1>2
  <1>4. Tidy(b) /\ Statuses(b) \subseteq Statuses(q)
    <2> DEFINE f == [i \in 1..Len(b) |-> i]
    <2>1. f \in [1..Len(b) -> 1..Len(q)]
      BY <1>3
    <2>2. \A i, j \in 1..Len(b) : i < j => f[i] < f[j]
      OBVIOUS
    <2>3. \A i \in 1..Len(b) : b[i] = q[f[i]]
      BY <1>1
    <2>4. Within(f, b, q)
      BY <2>1, <2>2, <2>3 DEF Within
    <2> HIDE DEF f
    <2> QED BY <1>1, <2>4, SubseqTidy
  <1>5. Tidy(r) /\ Statuses(r) \subseteq Statuses(q)
    <2> DEFINE f == [i \in 1..Len(r) |-> n + i]
    <2>1. f \in [1..Len(r) -> 1..Len(q)]
      BY <1>3
    <2>2. \A i, j \in 1..Len(r) : i < j => f[i] < f[j]
      BY <1>0
    <2>3. \A i \in 1..Len(r) : r[i] = q[f[i]]
      BY <1>2
    <2>4. Within(f, r, q)
      BY <2>1, <2>2, <2>3 DEF Within
    <2> HIDE DEF f
    <2> QED BY <1>2, <2>4, SubseqTidy
  <1>6. Statuses(q) \subseteq Statuses(b) \cup Statuses(r)
    <2> SUFFICES ASSUME NEW j \in 1..Len(q), q[j].kind \notin OutputKinds
                 PROVE  q[j].kind \in Statuses(b) \cup Statuses(r)
      BY DEF Statuses
    <2>1. CASE j <= n
      <3>1. j \in 1..Len(b) /\ b[j] = q[j]
        BY <1>0, <1>1, <2>1
      <3> QED BY <3>1 DEF Statuses
    <2>2. CASE ~(j <= n)
      <3>1. j - n \in 1..Len(r) /\ n + (j - n) = j
        BY <1>0, <1>2, <2>2
      <3>2. r[j - n] = q[j]
        BY <1>2, <3>1
      <3> QED BY <3>1, <3>2 DEF Statuses
    <2> QED BY <2>1, <2>2
  <1>7. ASSUME NEW x \in Statuses(b), x \in Statuses(r) PROVE FALSE
    <2>1. PICK i \in 1..Len(b) : b[i].kind = x /\ x \notin OutputKinds
      BY <1>7 DEF Statuses
    <2>2. PICK j \in 1..Len(r) : r[j].kind = x
      BY <1>7 DEF Statuses
    <2>3. i \in 1..Len(q) /\ n + j \in 1..Len(q) /\ i < n + j /\ b[i] = q[i] /\ r[j] = q[n + j]
      BY <1>0, <1>1, <1>2, <1>3
    <2> QED BY <2>1, <2>2, <2>3 DEF Tidy, IsOutput
  <1>8. ASSUME "terminal" \in Statuses(b) PROVE r = <<>> /\ n > 0 /\ q[n].kind = "terminal"
    <2>1. PICK i \in 1..Len(b) : b[i].kind = "terminal"
      BY <1>8 DEF Statuses
    <2>2. i = Len(q) /\ i <= n
      BY <1>0, <1>1, <1>3, <2>1 DEF Tidy
    <2>3. n = Len(q) /\ n > 0
      BY <1>0, <1>1, <2>2
    <2> QED BY <1>1, <1>2, <2>1, <2>2, <2>3, EmptySeq
  <1>9. Split(q, n, b, r)
    BY <1>1, <1>2, <1>4, <1>5, <1>6, <1>7, <1>8 DEF Split
  <1> QED BY <1>9 DEF b, r

(* At its limit the ring drops an output and no status.                     *)
LEMMA PushTidy ==
  ASSUME NEW q \in Seq(Event), NEW e \in Event, Tidy(q), Numbered(e),
         "terminal" \notin Statuses(q), StatusOf(e) \cap Statuses(q) = {}
  PROVE  /\ push_queued(q, e) \in Seq(Event)
         /\ Tidy(push_queued(q, e))
         /\ Statuses(push_queued(q, e)) = Statuses(q) \cup StatusOf(e)
  <1> DEFINE r == IF Len(q) >= MaxQueued THEN RemoveFirstMatch(q, IsOutput) ELSE q
  <1>1. r \in Seq(Event) /\ Tidy(r) /\ Statuses(r) = Statuses(q)
    <2>1. CASE Len(q) >= MaxQueued /\ \E i \in 1..Len(q) : IsOutput(q[i])
      <3> DEFINE I == {i \in 1..Len(q) : IsOutput(q[i])}
                 k == Min(I)
      <3>1. I \in SUBSET Nat /\ I # {} /\ I \subseteq 1..Len(q)
        BY <2>1
      <3>2. k \in I /\ k \in 1..Len(q)
        BY <3>1, LeastPosition
      <3>3. r = RemoveAt(q, k)
        BY <2>1, <3>1 DEF RemoveFirstMatch, SelectInSeq
      <3>4. IsOutput(q[k])
        BY <3>2
      <3> HIDE DEF I, k, r
      <3>5. r \in Seq(Event) /\ \E f : AllBut(k, f, r, q)
        BY <3>2, <3>3, RemoveAtPositions
      <3>6. PICK f : AllBut(k, f, r, q)
        BY <3>5
      <3>7. Within(f, r, q)
        BY <3>6 DEF AllBut, Within
      <3>8. Statuses(r) \subseteq Statuses(q) /\ Tidy(r)
        BY <3>5, <3>7, SubseqTidy
      <3>9. ASSUME NEW j \in 1..Len(q), q[j].kind \notin OutputKinds
            PROVE  q[j].kind \in Statuses(r)
        <4>1. j # k
          BY <3>4, <3>9 DEF IsOutput
        <4>2. PICK i \in 1..Len(r) : f[i] = j
          BY <3>6, <4>1 DEF AllBut
        <4>3. r[i] = q[j]
          BY <3>6, <4>2 DEF AllBut
        <4> QED BY <3>9, <4>2, <4>3 DEF Statuses
      <3>10. Statuses(q) \subseteq Statuses(r)
        BY <3>9 DEF Statuses
      <3> QED BY <3>5, <3>8, <3>10
    <2>2. CASE ~(Len(q) >= MaxQueued /\ \E i \in 1..Len(q) : IsOutput(q[i]))
      BY <2>2 DEF RemoveFirstMatch
    <2> QED BY <2>1, <2>2
  <1>2. push_queued(q, e) = Append(r, e)
    BY DEF push_queued
  <1> HIDE DEF r
  <1> QED BY <1>1, <1>2, AppendTidy

----------------------------------------------------------------------------
(* take_ready_events and the window. *)

LEMMA TakenFinite ==
  ASSUME NEW q \in Seq(Event), NEW n \in 0..Len(q)
  PROVE  IsFiniteSet(Taken(q, n))
  <1> DEFINE P == {j \in 1..n : IsOutput(q[j])}
             f == [i \in P |-> q[i].seq]
  <1>1. IsFiniteSet(1..n)
    BY FS_Interval, LenProperties
  <1>2. IsFiniteSet(P)
    BY <1>1, FS_Subset
  <1>3. Taken(q, n) = {q[i].seq : i \in P}
    BY DEF Taken
  <1> HIDE DEF P
  <1>4. f \in Surjection(P, Taken(q, n))
    BY <1>3 DEF Surjection
  <1> QED BY <1>2, <1>4, FS_Surjection

(* What is taken fits the window.                                           *)
LEMMA TakenFits ==
  ASSUME NEW q \in Seq(Event), NEW n \in 0..Len(q), NEW out, IsFiniteSet(out),
         AckRequired, Cardinality(out) <= Window, ReadyCount(q, out, n)
  PROVE  /\ IsFiniteSet(out \cup Taken(q, n))
         /\ Cardinality(out \cup Taken(q, n)) <= Window
  <1>0. Len(q) \in Nat /\ n \in Nat /\ n <= Len(q) /\ Window \in Nat
    BY LenProperties, BoundsAssumption
  <1>1. IsFiniteSet(out \cup Taken(q, n))
    BY TakenFinite, FS_Union
  <1> DEFINE S == {j \in 0..n : Taken(q, j) = Taken(q, n)}
             k == Min(S)
  <1>2. k \in S
    <2>1. n \in S /\ S \in SUBSET Nat
      BY <1>0
    <2> QED BY <2>1, LeastPosition
  <1>3. \A j \in S : k <= j
    <2>1. S \in SUBSET Nat /\ S # {}
      BY <1>0, <1>2
    <2> HIDE DEF S
    <2> QED BY <2>1, LeastPosition
  <1> HIDE DEF k
  <1>4. CASE k = 0
    <2>1. Taken(q, 0) = {}
      BY DEF Taken
    <2>2. Taken(q, k) = Taken(q, n)
      BY <1>2
    <2>3. out \cup Taken(q, n) = out
      BY <1>4, <2>1, <2>2
    <2> QED BY <1>1, <2>3
  <1>5. CASE k # 0
    <2>1. k \in 1..n /\ k - 1 \in 0..n /\ k - 1 \in 0..Len(q) /\ ~(k <= k - 1)
      BY <1>0, <1>2, <1>5
    <2>2. Taken(q, k - 1) # Taken(q, k)
      BY <1>2, <1>3, <2>1
    <2>3. \A i : i \in 1..k <=> (i \in 1..(k - 1) \/ i = k)
      BY <1>0, <2>1
    <2>4. Taken(q, k) = Taken(q, k - 1) \cup (IF IsOutput(q[k]) THEN {q[k].seq} ELSE {})
      BY <2>3 DEF Taken
    <2>5. IsOutput(q[k]) /\ Taken(q, k) = Taken(q, k - 1) \cup {q[k].seq}
      BY <2>2, <2>4
    <2>6. MayPop(q[k], out \cup Taken(q, k - 1))
      BY <2>1 DEF ReadyCount
    <2> DEFINE U == out \cup Taken(q, k - 1)
    <2>7. Cardinality(U) < Window
      BY <2>5, <2>6 DEF MayPop
    <2>8. IsFiniteSet(U)
      BY <2>1, TakenFinite, FS_Union
    <2>9. out \cup Taken(q, n) = U \cup {q[k].seq}
      BY <1>2, <2>5
    <2> HIDE DEF U
    <2>10. Cardinality(U) \in Nat
      BY <2>8, FS_CardinalityType
    <2>11. Cardinality(U \cup {q[k].seq}) \in {Cardinality(U), Cardinality(U) + 1}
      BY <2>8, FS_AddElement
    <2>12. Cardinality(U) + 1 <= Window
      BY <1>0, <2>7, <2>10
    <2>13. Cardinality(U \cup {q[k].seq}) <= Window
      BY <1>0, <2>10, <2>11, <2>12
    <2> QED BY <1>1, <2>9, <2>13
  <1> QED BY <1>4, <1>5

(* A terminal status is taken last, when nothing is in the window any more. *)
LEMMA TakenFinal ==
  ASSUME NEW q \in Seq(Event), NEW n \in 1..Len(q), NEW out,
         AckRequired, ReadyCount(q, out, n), q[n].kind = "terminal"
  PROVE  out \cup Taken(q, n) = {}
  <1>0. Len(q) \in Nat /\ n \in Nat /\ n \in 1..n
    BY LenProperties
  <1>1. MayPop(q[n], out \cup Taken(q, n - 1))
    BY <1>0 DEF ReadyCount
  <1>2. out \cup Taken(q, n - 1) = {}
    BY <1>1 DEF MayPop, FinalKinds
  <1>3. ~IsOutput(q[n])
    BY DEF IsOutput, OutputKinds
  <1>4. \A i : i \in 1..n => (i \in 1..(n - 1) \/ i = n)
    BY LenProperties
  <1>5. Taken(q, n) \subseteq Taken(q, n - 1)
    BY <1>3, <1>4 DEF Taken
  <1> QED BY <1>2, <1>5

(* A sink that acknowledges nothing takes the whole queue.                  *)
LEMMA TakenAll ==
  ASSUME NEW q \in Seq(Event), NEW n \in 0..Len(q), NEW out,
         ~AckRequired, ReadyCount(q, out, n)
  PROVE  n = Len(q) /\ SubSeq(q, n + 1, Len(q)) = <<>>
  <1>1. n = Len(q) /\ Len(q) \in Nat
    BY LenProperties DEF ReadyCount, MayPop
  <1>2. SubSeq(q, n + 1, Len(q)) \in Seq(Event) /\ Len(SubSeq(q, n + 1, Len(q))) = 0
    BY <1>1, SplitPositions
  <1> QED BY <1>1, <1>2, EmptySeq

----------------------------------------------------------------------------
(* What each operation of the code does to the ledger of a task. *)

(* take_ready_events, by a thread that found no batch.                      *)
Windowed(q, out, n) == IF AckRequired THEN out \cup Taken(q, n) ELSE out

LEMMA LedgerTake ==
  ASSUME NEW e, NEW q \in Seq(Event), NEW n \in 0..Len(q), NEW out, NEW ph, NEW lf,
         NEW wt, NEW ex,
         Ledger(e, <<>>, q, out, ph, lf, TRUE, wt, ex),
         lf # "removed", ~AckRequired => out = {}, ReadyCount(q, out, n)
  PROVE  Ledger(e, SubSeq(q, 1, n), SubSeq(q, n + 1, Len(q)), Windowed(q, out, n),
                ph, lf, TRUE, wt, ex)
  <1> DEFINE b == SubSeq(q, 1, n)
             r == SubSeq(q, n + 1, Len(q))
             taken == Windowed(q, out, n)
  <1>0. Tidy(q)
    BY DEF Ledger
  <1>1. /\ b \in Seq(Event) /\ r \in Seq(Event) /\ Tidy(b) /\ Tidy(r)
        /\ Statuses(q) = Statuses(b) \cup Statuses(r)
        /\ Statuses(b) \cap Statuses(r) = {}
        /\ "terminal" \in Statuses(b) => r = <<>> /\ n > 0 /\ q[n].kind = "terminal"
    <2>1. Split(q, n, b, r)
      BY <1>0, SplitTidy
    <2> QED BY <2>1 DEF Split
  <1>2. Statuses(<<>>) = {}
    BY EmptyTidy
  <1>3. ASSUME q = <<>> PROVE b = <<>> /\ r = <<>> /\ taken = out
    <2>1. n = 0 /\ Taken(q, 0) = {}
      BY <1>3 DEF Taken
    <2>2. b = <<>> /\ r = <<>>
      BY <1>3, <2>1
    <2> QED BY <2>1, <2>2 DEF Windowed
  <1>4. ASSUME "terminal" \in Statuses(b) PROVE r = <<>> /\ taken = {}
    <2>1. n \in 1..Len(q) /\ q[n].kind = "terminal"
      BY <1>1, <1>4, LenProperties
    <2>2. AckRequired => out \cup Taken(q, n) = {}
      BY <2>1, TakenFinal
    <2> QED BY <1>1, <1>4, <2>2 DEF Windowed
  <1> HIDE DEF b, r, taken
  <1>5. Tidy(b) /\ Tidy(r) /\ "lost" \notin Statuses(b) /\ "lost" \notin Statuses(r)
    BY <1>1 DEF Ledger
  <1>6. /\ Statuses(e) \cap Statuses(b) = {} /\ Statuses(e) \cap Statuses(r) = {}
        /\ Statuses(b) \cap Statuses(r) = {}
        /\ Statuses(e) \cup Statuses(<<>>) \cup Statuses(q)
              = Statuses(e) \cup Statuses(b) \cup Statuses(r)
    BY <1>1, <1>2 DEF Ledger
  <1>7. "terminal" \in Statuses(e) => q = <<>> /\ out = {}
    BY DEF Ledger
  <1>8. wt = "direct" => q = <<>> /\ out = {} /\ "terminal" \notin Statuses(e)
    BY DEF Ledger
  <1>9. "lost" \notin Statuses(e) \cup Statuses(b) /\ ex = {}
    BY <1>5 DEF Ledger
  <1>10. Ledger(e, b, r, taken, ph, lf, TRUE, wt, ex)
    BY <1>3, <1>4, <1>5, <1>6, <1>7, <1>8, <1>9 DEF Ledger
  <1> QED BY <1>10 DEF b, r, taken

LEMMA WindowTake ==
  ASSUME NEW e, NEW q \in Seq(Event), NEW n \in 0..Len(q), NEW out, NEW last,
         InWindow(e, <<>>, out, last), Below({last} \cup out, Outs(q)),
         ReadyCount(q, out, n)
  PROVE  InWindow(e, SubSeq(q, 1, n), Windowed(q, out, n), last)
  <1> DEFINE b == SubSeq(q, 1, n)
             taken == Windowed(q, out, n)
  <1>1. Outs(b) = Taken(q, n) /\ Outs(b) \subseteq Outs(q) /\ Outs(<<>>) = {}
    BY SplitOuts, EmptyOuts
  <1> HIDE DEF b
  <1>2. taken \subseteq Outs(e) \cup Outs(b)
    BY <1>1 DEF InWindow, Windowed
  <1>3. Below({last}, Outs(b))
    BY <1>1 DEF Below
  <1>4. AckRequired => IsFiniteSet(taken) /\ Cardinality(taken) <= Window
    BY TakenFits DEF InWindow, Windowed
  <1>5. ~AckRequired => IsFiniteSet(taken) /\ taken = {}
    BY DEF InWindow, Windowed
  <1> HIDE DEF taken
  <1>6. InWindow(e, b, taken, last)
    BY <1>2, <1>3, <1>4, <1>5 DEF InWindow
  <1> QED BY <1>6 DEF b, taken

(* The next event of the batch is handed to the sink.                       *)
LEMMA LedgerEmit ==
  ASSUME NEW e \in Seq(Event), NEW b \in Seq(Event), NEW q, NEW out, NEW ph, NEW lf,
         NEW ackd \in BOOLEAN, NEW wt, NEW ex, b # <<>>,
         Ledger(e, b, q, out, ph, lf, ackd, wt, ex)
  PROVE  Ledger(Append(e, Head(b)), Tail(b), q, out, ph, lf, ackd, wt, ex)
  <1> DEFINE h == Head(b)
             r == Tail(b)
             a == Append(e, h)
  <1>1. h \in Event
    BY TailOuts
  <1>2. /\ Statuses(b) = Statuses(r) \cup StatusOf(h)
        /\ Tidy(r) /\ StatusOf(h) \cap Statuses(r) = {}
        /\ h.kind = "terminal" => r = <<>>
    BY TailTidy DEF Ledger
  <1> HIDE DEF h, r
  <1>3. Statuses(a) = Statuses(e) \cup StatusOf(h)
    BY <1>1, AppendTidy
  <1> HIDE DEF a
  <1>4. "terminal" \in StatusOf(h) => r = <<>>
    BY <1>2 DEF StatusOf
  <1>5. /\ Statuses(a) \cap Statuses(r) = {} /\ Statuses(a) \cap Statuses(q) = {}
        /\ Statuses(r) \cap Statuses(q) = {}
        /\ Statuses(a) \cup Statuses(r) = Statuses(e) \cup Statuses(b)
    BY <1>2, <1>3 DEF Ledger
  <1>6. "terminal" \notin Statuses(e) /\ wt # "direct" /\ (lf = "removed" \/ ackd)
    BY DEF Ledger
  <1>7. "terminal" \in Statuses(a) => r = <<>>
    BY <1>3, <1>4, <1>6
  <1>8. Ledger(a, r, q, out, ph, lf, ackd, wt, ex)
    BY <1>2, <1>5, <1>6, <1>7 DEF Ledger
  <1> QED BY <1>8 DEF a, h, r

LEMMA WindowEmit ==
  ASSUME NEW e \in Seq(Event), NEW b \in Seq(Event), NEW out, NEW last, b # <<>>,
         InWindow(e, b, out, last)
  PROVE  InWindow(Append(e, Head(b)), Tail(b), out, last)
  <1>1. /\ Head(b) \in Event
        /\ Outs(b) = Outs(Tail(b)) \cup (IF IsOutput(Head(b)) THEN {Head(b).seq} ELSE {})
    BY TailOuts
  <1>2. Outs(Append(e, Head(b))) = Outs(e) \cup (IF IsOutput(Head(b)) THEN {Head(b).seq} ELSE {})
    BY <1>1, AppendOuts
  <1>3. out \subseteq Outs(Append(e, Head(b))) \cup Outs(Tail(b))
    BY <1>1, <1>2 DEF InWindow
  <1>4. Below({last}, Outs(Tail(b)))
    BY <1>1 DEF InWindow, Below
  <1> QED BY <1>3, <1>4 DEF InWindow

(* A chunk joins the queue.                                                 *)
LEMMA LedgerPublish ==
  ASSUME NEW e, NEW b, NEW q \in Seq(Event), NEW out, NEW ph, NEW lf,
         NEW ackd \in BOOLEAN, NEW wt, NEW ex,
         Ledger(e, b, q, out, ph, lf, ackd, wt, ex), ph # "Terminal",
         NEW x \in Event, IsOutput(x)
  PROVE  Ledger(e, b, push_queued(q, x), out, ph, lf, ackd, wt, ex)
  <1>1. Numbered(x) /\ StatusOf(x) = {}
    BY DEF Numbered, StatusOf, IsOutput, OutputKinds
  <1>2. "terminal" \notin Statuses(q) /\ "terminal" \notin Statuses(e) \cup Statuses(b) /\ wt # "direct"
    BY DEF Ledger, FinalKinds
  <1>3. Tidy(push_queued(q, x)) /\ Statuses(push_queued(q, x)) = Statuses(q)
    <2>1. Tidy(q) /\ StatusOf(x) \cap Statuses(q) = {} /\ "terminal" \notin Statuses(q)
      BY <1>1, <1>2 DEF Ledger
    <2>2. Statuses(push_queued(q, x)) = Statuses(q) \cup StatusOf(x)
      BY <1>1, <2>1, PushTidy
    <2> QED BY <1>1, <2>1, <2>2, PushTidy
  <1> QED BY <1>2, <1>3 DEF Ledger

(* The acknowledgement of the start queues the Running status.              *)
LEMMA LedgerRunning ==
  ASSUME NEW e, NEW q \in Seq(Event), NEW out, NEW lf,
         NEW ackd \in BOOLEAN, NEW wt, NEW ex,
         Ledger(e, <<>>, q, out, "Pending", lf, ackd, wt, ex),
         NEW x \in Event, x.kind = "running", x.seq = 1
  PROVE  /\ Append(q, x) \in Seq(Event)
         /\ Ledger(e, <<>>, Append(q, x), out, "Running", lf, ackd, wt, ex)
  <1>1. Numbered(x) /\ StatusOf(x) = {"running"}
    BY DEF Numbered, StatusOf, IsOutput, OutputKinds
  <1>2. Statuses(q) = {} /\ Statuses(e) = {} /\ Statuses(<<>>) = {} /\ wt # "direct" /\ ex = {}
    BY EmptyTidy DEF Ledger
  <1>3. Append(q, x) \in Seq(Event) /\ Tidy(Append(q, x)) /\ Statuses(Append(q, x)) = {"running"}
    BY <1>1, <1>2, AppendTidy DEF Ledger
  <1> QED BY <1>2, <1>3, EmptyTidy DEF Ledger, FinalKinds

(* complete queues the terminal status, after the Running status if the     *)
(* start was never acknowledged ...                                         *)
RunningFirst(ph, q, x) == IF ph = "Pending" THEN push_queued(q, x) ELSE q

LEMMA LedgerComplete ==
  ASSUME NEW e, NEW b, NEW q \in Seq(Event), NEW out, NEW ph, NEW lf,
         NEW ackd \in BOOLEAN, NEW wt, NEW ex,
         Ledger(e, b, q, out, ph, lf, ackd, wt, ex), ph # "Terminal",
         NEW x \in Event, x.kind = "running", x.seq = 1,
         NEW y \in Event, y.kind = "terminal", y.seq = 2,
         NEW wt2, wt2 # "direct"
  PROVE  Ledger(e, b, push_queued(RunningFirst(ph, q, x), y), out, "Terminal", lf, ackd, wt2, ex)
  <1> DEFINE w == RunningFirst(ph, q, x)
  <1>0. w = IF ph = "Pending" THEN push_queued(q, x) ELSE q
    BY DEF RunningFirst
  <1> HIDE DEF w
  <1>1. /\ Numbered(x) /\ StatusOf(x) = {"running"}
        /\ Numbered(y) /\ StatusOf(y) = {"terminal"}
    BY DEF Numbered, StatusOf, IsOutput, OutputKinds
  <1>2. /\ FinalKinds \cap (Statuses(e) \cup Statuses(b) \cup Statuses(q)) = {}
        /\ ex = {} /\ Tidy(q)
    BY DEF Ledger
  <1>3. w \in Seq(Event) /\ Tidy(w)
        /\ Statuses(w) = Statuses(q) \cup (IF ph = "Pending" THEN {"running"} ELSE {})
    <2>1. CASE ph = "Pending"
      <3>1. Statuses(q) = {}
        BY <2>1 DEF Ledger
      <3>2. StatusOf(x) \cap Statuses(q) = {} /\ "terminal" \notin Statuses(q)
        BY <3>1
      <3> QED BY <1>0, <1>1, <1>2, <2>1, <3>2, PushTidy
    <2>2. CASE ph # "Pending"
      BY <1>0, <1>2, <2>2
    <2> QED BY <2>1, <2>2
  <1>4. StatusOf(y) \cap Statuses(w) = {} /\ "terminal" \notin Statuses(w)
    BY <1>1, <1>2, <1>3 DEF FinalKinds
  <1> DEFINE r == push_queued(w, y)
  <1>5. r \in Seq(Event) /\ Tidy(r) /\ Statuses(r) = Statuses(w) \cup {"terminal"}
    BY <1>1, <1>3, <1>4, PushTidy
  <1> HIDE DEF r
  <1>6. /\ Statuses(e) \cap Statuses(r) = {} /\ Statuses(b) \cap Statuses(r) = {}
        /\ "running" \in Statuses(e) \cup Statuses(b) \cup Statuses(r)
        /\ "terminal" \in Statuses(r) /\ "lost" \notin Statuses(r)
    BY <1>2, <1>3, <1>5 DEF Ledger, FinalKinds
  <1>7. "terminal" \notin Statuses(e) \cup Statuses(b) /\ "lost" \notin Statuses(e) \cup Statuses(b)
    BY <1>2 DEF FinalKinds
  <1>8. Ledger(e, b, r, out, "Terminal", lf, ackd, wt2, ex)
    BY <1>2, <1>5, <1>6, <1>7 DEF Ledger
  <1> QED BY <1>8 DEF r, w

(* ... or leaves it to the waiter, which hands it over at once.             *)
LEMMA LedgerEarmark ==
  ASSUME NEW e, NEW b, NEW q, NEW out, NEW ph, NEW lf,
         NEW ackd \in BOOLEAN, NEW wt, NEW ex,
         Ledger(e, b, q, out, ph, lf, ackd, wt, ex),
         ph \notin {"Pending", "Terminal"}, b = <<>>, q = <<>>, out = {}
  PROVE  Ledger(e, b, q, out, "Terminal", lf, ackd, "direct", ex)
  BY DEF Ledger, FinalKinds

LEMMA LedgerDirect ==
  ASSUME NEW e \in Seq(Event), NEW b, NEW q, NEW out, NEW ph, NEW lf,
         NEW ackd \in BOOLEAN, NEW ex,
         Ledger(e, b, q, out, ph, lf, ackd, "direct", ex),
         NEW y \in Event, y.kind = "terminal"
  PROVE  Ledger(Append(e, y), b, q, out, ph, lf, ackd, "done", ex)
  <1>1. Statuses(Append(e, y)) = Statuses(e) \cup {"terminal"}
    BY AppendTidy DEF StatusOf, IsOutput, OutputKinds
  <1>2. b = <<>> /\ q = <<>> /\ out = {} /\ Statuses(<<>>) = {} /\ ph = "Terminal"
    BY EmptyTidy DEF Ledger
  <1>3. "running" \in Statuses(e) /\ "lost" \notin Statuses(e) /\ ex = {}
    BY <1>2 DEF Ledger
  <1>4. lf = "removed" \/ ackd
    <2>1. e # <<>>
      BY <1>3, EmptyTidy
    <2> QED BY <2>1 DEF Ledger
  <1> QED BY <1>1, <1>2, <1>3, <1>4, EmptyTidy DEF Ledger

(* The window only shrinks, by an acknowledgement.                          *)
LEMMA LedgerConsume ==
  ASSUME NEW e, NEW b, NEW q, NEW out, NEW rest, NEW ph, NEW lf,
         NEW ackd \in BOOLEAN, NEW wt, NEW ex,
         Ledger(e, b, q, out, ph, lf, ackd, wt, ex), rest \subseteq out
  PROVE  Ledger(e, b, q, rest, ph, lf, ackd, wt, ex)
  BY DEF Ledger

(* Registering and removing an entry, and a waiter that has emitted an      *)
(* expired status.                                                          *)
LEMMA LedgerKeep ==
  ASSUME NEW e, NEW b, NEW q, NEW out, NEW ph, NEW lf, NEW life2,
         NEW ackd \in BOOLEAN, NEW wt, NEW wt2, NEW ex, NEW ex2,
         Ledger(e, b, q, out, ph, lf, ackd, wt, ex),
         lf = "removed" => life2 = "removed", ex2 \subseteq ex,
         wt2 = "direct" <=> wt = "direct"
  PROVE  Ledger(e, b, q, out, ph, life2, ackd, wt2, ex2)
  BY DEF Ledger

(* An eviction while something is still to be delivered.                    *)
LEMMA LedgerEvict ==
  ASSUME NEW e, NEW b, NEW q, NEW out, NEW lf,
         NEW ackd \in BOOLEAN, NEW wt, NEW ex,
         Ledger(e, b, q, out, "Terminal", lf, ackd, wt, ex),
         lf # "removed", q # <<>> \/ out # {}, NEW ex2
  PROVE  Ledger(e, b, q, out, "Terminal", "removed", ackd, wt, ex2)
  BY DEF Ledger

LEMMA LedgerExpire ==
  ASSUME NEW e \in Seq(Event), NEW b, NEW q, NEW out, NEW ph, NEW lf,
         NEW ackd \in BOOLEAN, NEW wt, NEW ex, ex # {},
         Ledger(e, b, q, out, ph, lf, ackd, wt, ex),
         NEW y \in Event, y.kind = "lost"
  PROVE  Ledger(Append(e, y), b, q, out, ph, lf, ackd, wt, {})
  <1>1. Statuses(Append(e, y)) = Statuses(e) \cup {"lost"}
    BY AppendTidy DEF StatusOf, IsOutput, OutputKinds
  <1>2. ph = "Terminal" /\ lf = "removed" /\ "terminal" \in Statuses(q)
        /\ "lost" \notin Statuses(e) \cup Statuses(b)
    BY DEF Ledger
  <1>3. "terminal" \notin Statuses(e) \cup Statuses(b) /\ "lost" \notin Statuses(q) /\ wt # "direct"
    BY <1>2, EmptyTidy DEF Ledger
  <1> QED BY <1>1, <1>2, <1>3 DEF Ledger

(* An interrupted delivery.                                                 *)
LEMMA LedgerInterrupt ==
  ASSUME NEW e, NEW q, NEW out, NEW lf,
         NEW ackd \in BOOLEAN, NEW wt, NEW ex,
         Ledger(e, <<>>, q, out, "Terminal", lf, ackd, wt, ex),
         lf # "removed", q # <<>> \/ out # {},
         NEW y \in Event, y.kind = "lost", y.seq = 3
  PROVE  Ledger(e, <<y>>, q, out, "Terminal", "removed", ackd, wt, ex)
  <1>1. Statuses(<<y>>) = {"lost"} /\ Tidy(<<y>>)
    <2>1. Numbered(y) /\ StatusOf(y) = {"lost"}
      BY DEF Numbered, StatusOf, IsOutput, OutputKinds
    <2>2. <<y>> = Append(<<>>, y) /\ <<>> \in Seq(Event)
      BY EmptySeq
    <2> QED BY <2>1, <2>2, EmptyTidy, AppendTidy
  <1>2. "lost" \notin Statuses(e) /\ "lost" \notin Statuses(q) /\ ex = {} /\ wt # "direct"
        /\ "terminal" \notin Statuses(e) /\ Statuses(<<>>) = {}
    BY EmptyTidy DEF Ledger
  <1>3. "terminal" \in Statuses(q)
    BY <1>2 DEF Ledger
  <1> QED BY <1>1, <1>2, <1>3 DEF Ledger

(* Statuses leave the window as it is.                                      *)
LEMMA WindowStatus ==
  ASSUME NEW e \in Seq(Event), NEW b, NEW out, NEW last, InWindow(e, b, out, last),
         NEW y \in Event, ~IsOutput(y)
  PROVE  InWindow(Append(e, y), b, out, last)
  <1>1. Outs(Append(e, y)) = Outs(e)
    BY AppendOuts
  <1> QED BY <1>1 DEF InWindow

LEMMA WindowInterrupt ==
  ASSUME NEW e, NEW out, NEW last, InWindow(e, <<>>, out, last), NEW y \in Event, ~IsOutput(y)
  PROVE  InWindow(e, <<y>>, out, last)
  <1>1. Outs(<<y>>) = {} /\ Outs(<<>>) = {}
    BY EmptyOuts DEF Outs
  <1> QED BY <1>1 DEF InWindow

(* A cumulative acknowledgement.                                            *)
LEMMA WindowConsume ==
  ASSUME NEW e, NEW out, NEW last, InWindow(e, <<>>, out, last),
         NEW s, NEW rest, rest \subseteq out
  PROVE  InWindow(e, <<>>, rest, s)
  <1>1. IsFiniteSet(rest) /\ Cardinality(rest) <= Cardinality(out)
    BY FS_Subset DEF InWindow
  <1>2. AckRequired => Cardinality(rest) <= Window
    <2>1. IsFiniteSet(out) /\ (AckRequired => Cardinality(out) <= Window)
      BY DEF InWindow
    <2>2. Cardinality(rest) \in Nat /\ Cardinality(out) \in Nat /\ Window \in Nat
      BY <1>1, <2>1, FS_CardinalityType, BoundsAssumption
    <2> QED BY <1>1, <2>1, <2>2
  <1>3. Outs(<<>>) = {}
    BY EmptyOuts
  <1> QED BY <1>1, <1>2, <1>3 DEF InWindow, Below

----------------------------------------------------------------------------
(* terminal_order: removing one id, and evicting the oldest ones. *)

LEMMA RetainedOrder ==
  ASSUME NEW t, terminalOrder \in Seq(Tasks), Distinct(terminalOrder)
  PROVE  Distinct(Retained(t)) /\ Ids(Retained(t)) \subseteq Ids(terminalOrder) \ {t}
  <1> DEFINE q == terminalOrder
             I == {i \in 1..Len(q) : q[i] = t}
             k == Min(I)
             r == Retained(t)
  <1>1. CASE I = {}
    <2>1. r = q
      BY <1>1 DEF Retained, RemoveFirst
    <2> QED BY <1>1, <2>1 DEF Ids
  <1>2. CASE I # {}
    <2>1. k \in 1..Len(q) /\ q[k] = t
      <3>1. I \in SUBSET Nat
        OBVIOUS
      <3>2. k \in I
        BY <1>2, <3>1, LeastPosition
      <3> QED BY <3>2
    <2>2. r = RemoveAt(q, k)
      BY <1>2 DEF Retained, RemoveFirst, SelectInSeq
    <2> HIDE DEF I, k, r
    <2>3. \E f : AllBut(k, f, r, q)
      BY <2>1, <2>2, RemoveAtPositions
    <2>4. PICK f : AllBut(k, f, r, q)
      BY <2>3
    <2>5. ASSUME NEW i \in 1..Len(r)
          PROVE  f[i] \in 1..Len(q) /\ f[i] # k /\ r[i] = q[f[i]]
      BY <2>4 DEF AllBut
    <2>6. ASSUME NEW i \in 1..Len(r), NEW j \in 1..Len(r), i # j PROVE f[i] # f[j]
      <3>1. f[i] \in Nat /\ f[j] \in Nat /\ (i < j \/ j < i)
        BY <2>5, <2>6
      <3>2. (i < j => f[i] < f[j]) /\ (j < i => f[j] < f[i])
        BY <2>4 DEF AllBut
      <3> QED BY <3>1, <3>2
    <2>7. Distinct(r)
      BY <2>5, <2>6 DEF Distinct
    <2>8. \A i \in 1..Len(r) : r[i] \in Ids(q) \ {t}
      BY <2>1, <2>5 DEF Distinct, Ids
    <2> QED BY <2>7, <2>8 DEF Ids, r
  <1> QED BY <1>1, <1>2

LEMMA EvictionOrder ==
  ASSUME NEW s \in Seq(Tasks), NEW k \in 0..Len(s), Distinct(s),
         NEW r, r = SubSeq(s, k + 1, Len(s))
  PROVE  Distinct(r) /\ Ids(r) \subseteq Ids(s) \ {s[i] : i \in 1..k}
  <1>0. Len(s) \in Nat /\ k \in Nat
    BY LenProperties
  <1>1. Len(r) = Len(s) - k /\ \A i \in 1..Len(r) : r[i] = s[k + i]
    BY SplitPositions
  <1>2. \A i \in 1..Len(r) : k + i \in 1..Len(s) /\ k + i \notin 1..k
    BY <1>0, <1>1
  <1>3. Distinct(r)
    <2> SUFFICES ASSUME NEW i \in 1..Len(r), NEW j \in 1..Len(r), i # j PROVE r[i] # r[j]
      BY DEF Distinct
    <2>1. k + i # k + j
      BY <1>0, <1>1
    <2> QED BY <1>1, <1>2, <2>1 DEF Distinct
  <1>4. ASSUME NEW i \in 1..Len(r) PROVE r[i] \in Ids(s) \ {s[j] : j \in 1..k}
    <2>1. r[i] \in Ids(s)
      BY <1>1, <1>2 DEF Ids
    <2>2. ASSUME NEW j \in 1..k PROVE r[i] # s[j]
      <3>1. j \in 1..Len(s) /\ j # k + i
        BY <1>0, <1>1
      <3> QED BY <1>1, <1>2, <3>1 DEF Distinct
    <2> QED BY <2>1, <2>2
  <1> QED BY <1>3, <1>4 DEF Ids

(* Appending an id that is not there yet.                                   *)
LEMMA RecordedOrder ==
  ASSUME NEW s \in Seq(Tasks), NEW t \in Tasks, Distinct(s), t \notin Ids(s)
  PROVE  /\ Append(s, t) \in Seq(Tasks) /\ Len(Append(s, t)) = Len(s) + 1
         /\ \A i \in 1..Len(s) : Append(s, t)[i] = s[i]
         /\ Distinct(Append(s, t)) /\ Ids(Append(s, t)) = Ids(s) \cup {t}
  <1> DEFINE r == Append(s, t)
  <1>1. /\ r \in Seq(Tasks) /\ Len(r) = Len(s) + 1 /\ Len(s) \in Nat
        /\ \A i \in 1..Len(s) : r[i] = s[i]
        /\ r[Len(s) + 1] = t
    BY AppendProperties, LenProperties
  <1> HIDE DEF r
  <1>2. \A i \in 1..Len(r) : i \in 1..Len(s) \/ i = Len(s) + 1
    BY <1>1
  <1>3. \A i \in 1..Len(s) : s[i] # t
    BY DEF Ids
  <1>4. Distinct(r)
    BY <1>1, <1>2, <1>3 DEF Distinct
  <1>5. Ids(r) = Ids(s) \cup {t}
    BY <1>1, <1>2 DEF Ids
  <1> QED BY <1>1, <1>4, <1>5 DEF r

----------------------------------------------------------------------------
(* Every step keeps the invariant. *)

(* A step that touches nothing of a task but perhaps its registration, or   *)
(* what another task's waiter still has to emit for it.                     *)
Undisturbed(x) ==
    /\ emitted'[x] = emitted[x] /\ Batch(x)' = Batch(x) /\ queued'[x] = queued[x]
    /\ outstanding'[x] = outstanding[x] /\ lastAck'[x] = lastAck[x]
    /\ phase'[x] = phase[x] /\ statusSeq'[x] = statusSeq[x]
    /\ acknowledged'[x] = acknowledged[x] /\ flushing'[x] = flushing[x]
    /\ life[x] = "removed" => life'[x] = "removed"
    /\ life'[x] = "unstarted" => life[x] = "unstarted" /\ waiter'[x] = waiter[x]
    /\ waiter'[x] = "direct" <=> waiter[x] = "direct"
    /\ ~AckRequired => waiter'[x] \notin {"await", "overdue"}
    /\ Expirers(x)' \subseteq Expirers(x)

LEMMA Unaffected ==
  ASSUME NEW x \in Tasks, TaskOK(x), acknowledged[x] \in BOOLEAN, Undisturbed(x)
  PROVE  TaskOK(x)'
  <1> USE DEF Undisturbed
  <1>2. Ledger(emitted[x], Batch(x), queued[x], outstanding[x], phase[x], life[x],
               acknowledged[x], waiter[x], Expirers(x))
    BY DEF TaskOK, LedgerAt
  <1>3. Ledger(emitted[x], Batch(x), queued[x], outstanding[x], phase[x], life'[x],
               acknowledged[x], waiter'[x], Expirers(x)')
    BY <1>2, LedgerKeep
  <1>4. LedgerAt(x)'
    BY <1>3 DEF LedgerAt
  <1>5. WindowAt(x)' /\ Counted(x)' /\ Prompt(x)'
    BY DEF TaskOK, WindowAt, Counted, Prompt
  <1> QED BY <1>4, <1>5 DEF TaskOK

(* take_ready_events by a thread that takes output_emission_order for t.    *)
LEMMA Taking ==
  ASSUME Shape, NEW t \in Tasks, NEW q \in Seq(Event), NEW n \in 0..Len(q), NEW ph,
         Ledger(emitted[t], <<>>, q, outstanding[t], ph, life[t], TRUE,
                waiter[t], Expirers(t)),
         InWindow(emitted[t], <<>>, outstanding[t], lastAck[t]),
         Below({lastAck[t]} \cup outstanding[t], Outs(q)),
         life[t] = "live", take_ready_events(t, q, n),
         order'.task = t, order'.batch = SubSeq(q, 1, n),
         acknowledged'[t] = TRUE, phase'[t] = ph,
         UNCHANGED <<emitted, lastAck, waiter, expiring>>
  PROVE  /\ LedgerAt(t)' /\ WindowAt(t)'
         /\ queued'[t] = SubSeq(q, n + 1, Len(q))
         /\ ~AckRequired => queued'[t] = <<>>
  <1> DEFINE b == SubSeq(q, 1, n)
             r == SubSeq(q, n + 1, Len(q))
             taken == Windowed(q, outstanding[t], n)
  <1>1. /\ Batch(t)' = b /\ queued'[t] = r /\ outstanding'[t] = taken
        /\ emitted'[t] = emitted[t] /\ lastAck'[t] = lastAck[t] /\ waiter'[t] = waiter[t]
        /\ Expirers(t)' = Expirers(t)
    BY DEF Batch, take_ready_events, Shape, Expirers, Windowed
  <1>2. ReadyCount(q, outstanding[t], n)
    BY DEF take_ready_events
  <1>3. ~AckRequired => outstanding[t] = {} /\ r = <<>>
    BY <1>2, TakenAll DEF InWindow
  <1> HIDE DEF b, r, taken
  <1>4. Ledger(emitted[t], b, r, taken, ph, life[t], TRUE, waiter[t], Expirers(t))
    BY <1>2, <1>3, LedgerTake DEF b, r, taken
  <1>5. Ledger(emitted[t], b, r, taken, ph, life'[t], TRUE, waiter[t], Expirers(t))
    BY <1>4 DEF Ledger
  <1>6. LedgerAt(t)'
    BY <1>1, <1>5 DEF LedgerAt
  <1>7. InWindow(emitted[t], b, taken, lastAck[t])
    BY <1>2, WindowTake DEF b, taken
  <1>8. WindowAt(t)'
    BY <1>1, <1>7 DEF WindowAt
  <1> QED BY <1>1, <1>3, <1>6, <1>8 DEF r

(* What the steps below start from.                                         *)
LEMMA DeliveryFacts ==
  ASSUME DeliveryInvariant
  PROVE  /\ Shape /\ BatchHeld /\ HolderOK /\ EvictionOK
         /\ \A t \in Tasks :
               /\ TaskOrderAt(t) /\ TaskOK(t)
               /\ emitted[t] \in Seq(Event) /\ queued[t] \in Seq(Event) /\ Batch(t) \in Seq(Event)
               /\ outstanding[t] \in SUBSET Nat /\ lastAck[t] \in Nat /\ outputSeq[t] \in Nat
               /\ statusSeq[t] \in Nat
               /\ acknowledged[t] \in BOOLEAN
  <1>1. Shape /\ BatchHeld /\ HolderOK /\ EvictionOK
        /\ \A t \in Tasks : TaskOrderAt(t) /\ TaskOK(t)
    BY OrderInvariantByTask DEF DeliveryInvariant
  <1>2. \A t \in Tasks : Batch(t) \in Seq(Event)
    BY <1>1, EmptySeq DEF Shape, OrderState, Batch
  <1> QED BY <1>1, <1>2 DEF Shape

Kept == HolderOK' /\ EvictionOK' /\ \A x \in Tasks : TaskOK(x)'

(* Registration, and the waiter's steps that only move it on.               *)
LEMMA QuietStep ==
  ASSUME DeliveryInvariant, NEW t \in Tasks,
         start(t) \/ commit_start(t) \/ abandon_start(t) \/ poll_delivered(t)
            \/ poll_deadline(t)
  PROVE  Kept
  <1>1. Shape /\ HolderOK /\ EvictionOK /\ \A x \in Tasks : TaskOK(x) /\ acknowledged[x] \in BOOLEAN
    BY DeliveryFacts
  <1>2. UNCHANGED <<emitted, order, queued, outstanding, lastAck, phase, acknowledged,
                    flushing, statusSeq, expiring>>
    BY DEF start, commit_start, abandon_start, poll_delivered, poll_deadline, entryVars
  <1>3. \A x \in Tasks : /\ Batch(x)' = Batch(x) /\ (Expirers(x)' = Expirers(x))
                         /\ life[x] = "removed" => life'[x] = "removed"
                         /\ life'[x] = "unstarted" => life[x] = "unstarted" /\ waiter'[x] = waiter[x]
                         /\ waiter'[x] = "direct" <=> waiter[x] = "direct"
                         /\ ~AckRequired => waiter'[x] \notin {"await", "overdue"}
    <2> SUFFICES ASSUME NEW x \in Tasks
                 PROVE  /\ life[x] = "removed" => life'[x] = "removed"
                        /\ life'[x] = "unstarted" => life[x] = "unstarted" /\ waiter'[x] = waiter[x]
                        /\ waiter'[x] = "direct" <=> waiter[x] = "direct"
                        /\ ~AckRequired => waiter'[x] \notin {"await", "overdue"}
      BY <1>2 DEF Batch, Expirers
    <2>1. ~AckRequired => \A y \in Tasks : waiter[y] \notin {"await", "overdue"}
      BY <1>1 DEF TaskOK, Prompt
    <2>2. /\ life' = [life EXCEPT ![t] = life'[t]] /\ waiter' = [waiter EXCEPT ![t] = waiter'[t]]
          /\ life[t] = "removed" => life'[t] = "removed"
          /\ life'[t] # "unstarted"
          /\ waiter'[t] = "direct" <=> waiter[t] = "direct"
          /\ waiter'[t] \in {"await", "overdue"} => waiter[t] \in {"await", "overdue"}
      <3>0. /\ life \in [Tasks -> {"unstarted", "live", "removed"}]
            /\ waiter \in [Tasks -> {"none", "starting", "running", "direct", "expire",
                                     "await", "overdue", "done"}]
            /\ life[t] = "unstarted" => waiter[t] = "none"
        BY <1>1 DEF Shape, TaskOK, Prompt
      <3>1. CASE start(t)
        BY <3>0, <3>1 DEF start
      <3>2. CASE commit_start(t)
        BY <3>0, <3>2 DEF commit_start, entryVars
      <3>3. CASE abandon_start(t)
        BY <3>0, <3>3 DEF abandon_start
      <3>4. CASE poll_delivered(t)
        BY <3>0, <3>4 DEF poll_delivered, entryVars
      <3>5. CASE poll_deadline(t)
        BY <3>0, <3>5 DEF poll_deadline, entryVars
      <3> QED BY <3>1, <3>2, <3>3, <3>4, <3>5
    <2>3. x = t \/ (life'[x] = life[x] /\ waiter'[x] = waiter[x])
      BY <1>1, <2>2 DEF Shape
    <2> QED BY <2>1, <2>2, <2>3
  <1>4. \A x \in Tasks : TaskOK(x)'
    BY <1>1, <1>2, <1>3, Unaffected DEF Undisturbed
  <1>5. HolderOK'
    BY <1>1, <1>2 DEF HolderOK
  <1>6. /\ Distinct(terminalOrder')
        /\ \A x \in Ids(terminalOrder') : life'[x] = "live" /\ phase'[x] = "Terminal"
    <2>1. CASE abandon_start(t)
      <3>1. Distinct(terminalOrder') /\ Ids(terminalOrder') \subseteq Ids(terminalOrder) \ {t}
        BY <1>1, <2>1, RetainedOrder DEF EvictionOK, Shape, abandon_start
      <3>2. \A x : x # t => life'[x] = life[x]
        BY <1>1, <2>1 DEF Shape, abandon_start
      <3> QED BY <1>1, <1>2, <3>1, <3>2 DEF EvictionOK
    <2>2. CASE start(t)
      <3>1. life[t] = "unstarted" /\ terminalOrder' = terminalOrder
            /\ life' = [life EXCEPT ![t] = "live"]
        BY <2>2 DEF start
      <3>2. \A x \in Ids(terminalOrder) : x # t
        BY <1>1, <3>1 DEF EvictionOK
      <3> QED BY <1>1, <1>2, <3>1, <3>2 DEF EvictionOK
    <2>3. CASE commit_start(t) \/ poll_delivered(t) \/ poll_deadline(t)
      <3>1. UNCHANGED <<terminalOrder, life>>
        BY <2>3 DEF commit_start, poll_delivered, poll_deadline, entryVars
      <3> QED BY <1>1, <1>2, <3>1 DEF EvictionOK
    <2> QED BY <2>1, <2>2, <2>3
  <1>7. EvictionOK'
    BY <1>1, <1>2, <1>6 DEF EvictionOK
  <1> QED BY <1>4, <1>5, <1>7 DEF Kept

(* publish: the chunk is queued, and taken at once unless a start's         *)
(* acknowledgement is missing or being flushed.                             *)
LEMMA PublishStep ==
  ASSUME DeliveryInvariant, NEW t \in Tasks, NEW kind \in OutputKinds, publish(t, kind)
  PROVE  Kept
  <1> DEFINE m == outputSeq[t] + 1
             e == [kind |-> kind, seq |-> m]
             q == push_queued(queued[t], e)
  <1>0. /\ Shape /\ BatchHeld /\ HolderOK /\ EvictionOK
        /\ \A x \in Tasks : TaskOrderAt(x) /\ TaskOK(x) /\ acknowledged[x] \in BOOLEAN
        /\ emitted[t] \in Seq(Event) /\ queued[t] \in Seq(Event)
        /\ outstanding[t] \in SUBSET Nat /\ lastAck[t] \in Nat /\ outputSeq[t] \in Nat
    BY DeliveryFacts
  <1>1. /\ OrderFree /\ life[t] = "live" /\ phase[t] # "Terminal"
        /\ UNCHANGED <<life, phase, acknowledged, flushing, statusSeq, lastAck,
                       terminalOrder, waiter, expiring, emitted>>
    BY DEF publish
  <1>2. e \in Event /\ IsOutput(e) /\ e.seq = m
    BY <1>0 DEF Event, IsOutput
  <1>3. Batch(t) = <<>>
    BY <1>0, <1>1, NoBatch
  <1> HIDE DEF e
  <1>4. q \in Seq(Event)
    BY <1>0, <1>2, PushOuts
  <1>5. Below({lastAck[t]} \cup outstanding[t], Outs(q))
    <2>1. TaskOrder(emitted[t], <<>>, queued[t], outstanding[t], lastAck[t], outputSeq[t])
      BY <1>0, <1>3 DEF TaskOrderAt
    <2>2. TaskOrder(emitted[t], <<>>, q, outstanding[t], lastAck[t], m)
      BY <1>0, <1>2, <2>1, PublishOrder
    <2> QED BY <2>2 DEF TaskOrder
  <1>6. Ledger(emitted[t], <<>>, q, outstanding[t], phase[t], life[t], acknowledged[t],
               waiter[t], Expirers(t))
    <2>1. Ledger(emitted[t], <<>>, queued[t], outstanding[t], phase[t], life[t],
                 acknowledged[t], waiter[t], Expirers(t))
      BY <1>0, <1>3 DEF TaskOK, LedgerAt
    <2> QED BY <1>0, <1>1, <1>2, <2>1, LedgerPublish
  <1>7. InWindow(emitted[t], <<>>, outstanding[t], lastAck[t])
    BY <1>0, <1>3 DEF TaskOK, WindowAt
  <1>8. Counted(t)' /\ EvictionOK'
    <2>1. Counted(t)
      BY <1>0 DEF TaskOK
    <2> QED BY <1>0, <1>1, <2>1 DEF Counted, EvictionOK
  <1>9. \A x \in Tasks : /\ Expirers(x)' = Expirers(x)
                         /\ ~AckRequired => waiter'[x] \notin {"await", "overdue"}
                         /\ life[x] = "unstarted" => waiter[x] = "none"
    BY <1>0, <1>1 DEF Expirers, TaskOK, Prompt
  <1>10. CASE acknowledged[t] /\ ~flushing[t]
    <2>1. PICK n \in 0..Len(q) :
             /\ take_ready_events(t, q, n)
             /\ order' = [by |-> "pump", task |-> t, stage |-> "emit", batch |-> SubSeq(q, 1, n)]
      BY <1>10 DEF publish, q, e, m
    <2> HIDE DEF q
    <2>2. order'.task = t /\ order'.batch = SubSeq(q, 1, n) /\ order'.by = "pump"
      BY <2>1
    <2>3. acknowledged[t] = TRUE /\ acknowledged'[t] = TRUE /\ phase'[t] = phase[t]
      BY <1>0, <1>1, <1>10
    <2>4. Ledger(emitted[t], <<>>, q, outstanding[t], phase[t], life[t], TRUE,
                 waiter[t], Expirers(t))
      BY <1>6, <2>3
    <2>5. LedgerAt(t)' /\ WindowAt(t)' /\ (~AckRequired => queued'[t] = <<>>)
      BY <1>0, <1>1, <1>4, <1>5, <1>7, <2>1, <2>2, <2>3, <2>4, Taking
    <2>6. TaskOK(t)'
      BY <1>1, <1>8, <1>9, <2>5 DEF TaskOK, Prompt
    <2>7. ASSUME NEW x \in Tasks, x # t PROVE TaskOK(x)'
      <3>1. Batch(x)' = Batch(x)
        BY <1>0, <1>1, <2>2, <2>7, NoBatch DEF Batch
      <3>2. queued'[x] = queued[x] /\ outstanding'[x] = outstanding[x]
        BY <1>0, <2>1, <2>7 DEF take_ready_events, Shape
      <3> QED BY <1>0, <1>1, <1>9, <3>1, <3>2, Unaffected DEF Undisturbed
    <2>8. HolderOK'
      BY <2>2 DEF HolderOK
    <2> QED BY <1>8, <2>6, <2>7, <2>8 DEF Kept
  <1>11. CASE ~(acknowledged[t] /\ ~flushing[t])
    <2>1. queued' = [queued EXCEPT ![t] = q] /\ UNCHANGED <<outstanding, order>>
      BY <1>11 DEF publish, q, e, m
    <2> HIDE DEF q
    <2>2. \A x \in Tasks : Batch(x)' = Batch(x)
      BY <2>1 DEF Batch
    <2>3. queued'[t] = q
      BY <1>0, <2>1 DEF Shape
    <2>4. LedgerAt(t)' /\ WindowAt(t)'
      BY <1>1, <1>3, <1>6, <1>7, <1>9, <2>1, <2>2, <2>3 DEF LedgerAt, WindowAt
    <2>5. TaskOK(t)'
      BY <1>1, <1>8, <1>9, <1>11, <2>4 DEF TaskOK, Prompt
    <2>6. ASSUME NEW x \in Tasks, x # t PROVE TaskOK(x)'
      <3>1. queued'[x] = queued[x]
        BY <1>0, <2>1, <2>6 DEF Shape
      <3> QED BY <1>0, <1>1, <1>9, <2>1, <2>2, <3>1, Unaffected DEF Undisturbed
    <2>7. HolderOK'
      BY <1>0, <1>1, <2>1 DEF HolderOK
    <2> QED BY <1>8, <2>5, <2>6, <2>7 DEF Kept
  <1> QED BY <1>10, <1>11

(* acknowledge: the Running status is queued and the flush begins.          *)
LEMMA AcknowledgeStep ==
  ASSUME DeliveryInvariant, NEW t \in Tasks, acknowledge(t)
  PROVE  Kept
  <1> DEFINE running == [kind |-> "running", seq |-> statusSeq[t] + 1]
             ph == IF phase[t] = "Pending" THEN "Running" ELSE phase[t]
             q == IF phase[t] = "Pending" THEN Append(queued[t], running) ELSE queued[t]
  <1>0. /\ Shape /\ BatchHeld /\ HolderOK /\ EvictionOK
        /\ \A x \in Tasks : TaskOrderAt(x) /\ TaskOK(x) /\ acknowledged[x] \in BOOLEAN
        /\ emitted[t] \in Seq(Event) /\ queued[t] \in Seq(Event)
        /\ outstanding[t] \in SUBSET Nat /\ lastAck[t] \in Nat /\ statusSeq[t] \in Nat
    BY DeliveryFacts
  <1>1. /\ OrderFree /\ life[t] = "live"
        /\ acknowledged' = [acknowledged EXCEPT ![t] = TRUE]
        /\ flushing' = [flushing EXCEPT ![t] = TRUE]
        /\ phase' = [phase EXCEPT ![t] = ph]
        /\ statusSeq' = [statusSeq EXCEPT ![t] =
                            IF phase[t] = "Pending" THEN statusSeq[t] + 1 ELSE statusSeq[t]]
        /\ UNCHANGED <<life, lastAck, terminalOrder, waiter, expiring, emitted>>
    BY DEF acknowledge
  <1>2. PICK n \in 0..Len(q) :
           /\ take_ready_events(t, q, n)
           /\ order' = [by |-> "ack", task |-> t, stage |-> "emit", batch |-> SubSeq(q, 1, n)]
    BY DEF acknowledge
  <1>3. Batch(t) = <<>>
    BY <1>0, <1>1, NoBatch
  <1>4. Ledger(emitted[t], <<>>, queued[t], outstanding[t], phase[t], life[t],
               acknowledged[t], waiter[t], Expirers(t))
        /\ InWindow(emitted[t], <<>>, outstanding[t], lastAck[t])
    BY <1>0, <1>3 DEF TaskOK, LedgerAt, WindowAt
  <1>5. /\ acknowledged'[t] = TRUE /\ flushing'[t] = TRUE /\ phase'[t] = ph
        /\ statusSeq'[t] = IF phase[t] = "Pending" THEN statusSeq[t] + 1 ELSE statusSeq[t]
    BY <1>0, <1>1 DEF Shape
  <1>6. q \in Seq(Event) /\ Outs(q) \subseteq Outs(queued[t])
        /\ Ledger(emitted[t], <<>>, q, outstanding[t], ph, life[t], TRUE, waiter[t], Expirers(t))
    <2>1. CASE phase[t] = "Pending"
      <3>1. running.kind = "running" /\ running.seq = 1 /\ running \in Event /\ ~IsOutput(running)
        BY <1>0, <2>1 DEF TaskOK, Counted, Event, IsOutput, OutputKinds
      <3> HIDE DEF running
      <3>2. q \in Seq(Event) /\ Outs(q) \subseteq Outs(queued[t])
        BY <1>0, <2>1, <3>1, AppendOuts
      <3>3. Ledger(emitted[t], <<>>, Append(queued[t], running), outstanding[t], "Running",
                   life[t], acknowledged[t], waiter[t], Expirers(t))
        BY <1>0, <1>4, <2>1, <3>1, LedgerRunning
      <3>4. Ledger(emitted[t], <<>>, q, outstanding[t], ph,
                   life[t], acknowledged[t], waiter[t], Expirers(t))
        BY <2>1, <3>3
      <3> HIDE DEF q, ph
      <3> QED BY <3>2, <3>4 DEF Ledger
    <2>2. CASE phase[t] # "Pending"
      <3>1. q = queued[t] /\ ph = phase[t]
        BY <2>2
      <3> HIDE DEF q, ph
      <3> QED BY <1>0, <1>4, <3>1 DEF Ledger
    <2> QED BY <2>1, <2>2
  <1>7. Counted(t)'
    <2>1. Counted(t) /\ phase[t] \in {"Pending", "Running", "Terminal"}
      BY <1>0 DEF TaskOK, Shape
    <2> QED BY <1>5, <2>1 DEF Counted
  <1> HIDE DEF q, ph
  <1>8. Below({lastAck[t]} \cup outstanding[t], Outs(q))
    BY <1>0, <1>6 DEF TaskOrderAt, TaskOrder, Below
  <1>9. order'.task = t /\ order'.batch = SubSeq(q, 1, n) /\ order'.by = "ack"
    BY <1>2
  <1>10. LedgerAt(t)' /\ WindowAt(t)' /\ (~AckRequired => queued'[t] = <<>>)
    BY <1>0, <1>1, <1>2, <1>4, <1>5, <1>6, <1>8, <1>9, Taking
  <1>11. \A x \in Tasks : /\ Expirers(x)' = Expirers(x)
                          /\ ~AckRequired => waiter'[x] \notin {"await", "overdue"}
                          /\ life[x] = "unstarted" => waiter[x] = "none"
    BY <1>0, <1>1 DEF Expirers, TaskOK, Prompt
  <1>12. TaskOK(t)'
    BY <1>1, <1>7, <1>10, <1>11 DEF TaskOK, Prompt
  <1>13. ASSUME NEW x \in Tasks, x # t PROVE TaskOK(x)'
    <2>1. Batch(x)' = Batch(x)
      BY <1>0, <1>1, <1>9, <1>13, NoBatch DEF Batch
    <2>2. /\ queued'[x] = queued[x] /\ outstanding'[x] = outstanding[x]
          /\ phase'[x] = phase[x] /\ statusSeq'[x] = statusSeq[x]
          /\ acknowledged'[x] = acknowledged[x] /\ flushing'[x] = flushing[x]
      BY <1>0, <1>1, <1>2, <1>13 DEF take_ready_events, Shape
    <2> QED BY <1>0, <1>1, <1>11, <2>1, <2>2, Unaffected DEF Undisturbed
  <1>14. HolderOK'
    BY <1>5, <1>9 DEF HolderOK
  <1>15. EvictionOK'
    <2>1. \A x \in Ids(terminalOrder) : phase'[x] = phase[x]
      <3>1. \A x : x # t => phase'[x] = phase[x]
        BY <1>0, <1>1 DEF Shape
      <3>2. t \in Ids(terminalOrder) => phase[t] # "Pending"
        BY <1>0 DEF EvictionOK
      <3> QED BY <1>5, <3>1, <3>2 DEF ph
    <2> QED BY <1>0, <1>1, <2>1 DEF EvictionOK
  <1> QED BY <1>12, <1>13, <1>14, <1>15 DEF Kept

(* acknowledge_output frees places of the window.                           *)
LEMMA ConsumeStep ==
  ASSUME DeliveryInvariant, NEW t \in Tasks, NEW s \in 1..MaxOutputs[t], acknowledge_output(t, s)
  PROVE  Kept
  <1>0. /\ Shape /\ BatchHeld /\ HolderOK /\ EvictionOK
        /\ \A x \in Tasks : TaskOK(x) /\ acknowledged[x] \in BOOLEAN
    BY DeliveryFacts
  <1>1. /\ OrderFree /\ s \in outstanding[t]
        /\ outstanding' = [outstanding EXCEPT ![t] = {x \in outstanding[t] : x > s}]
        /\ lastAck' = [lastAck EXCEPT ![t] = s]
        /\ order' = [by |-> "ackOutput", task |-> t, stage |-> "drain", batch |-> <<>>]
        /\ UNCHANGED <<life, phase, acknowledged, flushing, queued, statusSeq,
                       terminalOrder, waiter, expiring, emitted>>
    BY DEF acknowledge_output, Acknowledgeable
  <1>2. \A x \in Tasks : /\ Batch(x) = <<>> /\ Batch(x)' = <<>> /\ Expirers(x)' = Expirers(x)
                         /\ ~AckRequired => waiter'[x] \notin {"await", "overdue"}
                         /\ life[x] = "unstarted" => waiter[x] = "none"
    BY <1>0, <1>1, NoBatch DEF Batch, Expirers, TaskOK, Prompt
  <1>3. outstanding'[t] \subseteq outstanding[t] /\ lastAck'[t] = s
    BY <1>0, <1>1 DEF Shape
  <1>4. /\ Ledger(emitted[t], <<>>, queued[t], outstanding[t], phase[t], life[t],
                  acknowledged[t], waiter[t], Expirers(t))
        /\ InWindow(emitted[t], <<>>, outstanding[t], lastAck[t])
    BY <1>0, <1>2 DEF TaskOK, LedgerAt, WindowAt
  <1>5. /\ Ledger(emitted[t], <<>>, queued[t], outstanding'[t], phase[t], life[t],
                  acknowledged[t], waiter[t], Expirers(t))
        /\ InWindow(emitted[t], <<>>, outstanding'[t], s)
    BY <1>0, <1>3, <1>4, LedgerConsume, WindowConsume
  <1>6. LedgerAt(t)' /\ WindowAt(t)'
    BY <1>1, <1>2, <1>3, <1>5 DEF LedgerAt, WindowAt
  <1>7. TaskOK(t)'
    BY <1>0, <1>1, <1>6 DEF TaskOK, Counted, Prompt
  <1>8. ASSUME NEW x \in Tasks, x # t PROVE TaskOK(x)'
    <2>1. outstanding'[x] = outstanding[x] /\ lastAck'[x] = lastAck[x]
      BY <1>0, <1>1, <1>8 DEF Shape
    <2> QED BY <1>0, <1>1, <1>2, <2>1, Unaffected DEF Undisturbed
  <1>9. HolderOK'
    <2>1. AckRequired
      BY <1>1, <1>4 DEF InWindow
    <2> QED BY <1>1, <2>1 DEF HolderOK
  <1>10. EvictionOK'
    BY <1>0, <1>1 DEF EvictionOK
  <1> QED BY <1>7, <1>8, <1>9, <1>10 DEF Kept

(* The holder hands over the next event of its batch.                       *)
LEMMA EmitStep ==
  ASSUME DeliveryInvariant, emit_queued_event
  PROVE  Kept
  <1>0. /\ Shape /\ HolderOK /\ EvictionOK
        /\ \A x \in Tasks : /\ TaskOK(x) /\ acknowledged[x] \in BOOLEAN
                            /\ emitted[x] \in Seq(Event) /\ Batch(x) \in Seq(Event)
    BY DeliveryFacts
  <1>1. PICK t \in Tasks : t = order.task
    BY <1>0 DEF Shape, OrderState
  <1>2. /\ Batch(t) = order.batch /\ order.batch # <<>>
        /\ emitted' = [emitted EXCEPT ![t] = Append(emitted[t], Head(order.batch))]
        /\ order' = [order EXCEPT !.batch = Tail(order.batch)]
        /\ UNCHANGED <<entryVars, terminalOrder, waiter, expiring>>
    BY <1>1 DEF emit_queued_event, Batch
  <1>3. order'.task = t /\ order'.batch = Tail(order.batch) /\ order'.by = order.by
    BY <1>0, <1>1, <1>2 DEF Shape, OrderState
  <1>4. Batch(t)' = Tail(Batch(t)) /\ emitted'[t] = Append(emitted[t], Head(Batch(t)))
    BY <1>0, <1>2, <1>3 DEF Shape, Batch
  <1>5. \A x \in Tasks : /\ Expirers(x)' = Expirers(x)
                         /\ ~AckRequired => waiter'[x] \notin {"await", "overdue"}
                         /\ life[x] = "unstarted" => waiter[x] = "none"
    BY <1>0, <1>2 DEF Expirers, TaskOK, Prompt
  <1>6. /\ Ledger(emitted[t], Batch(t), queued[t], outstanding[t], phase[t], life[t],
                  acknowledged[t], waiter[t], Expirers(t))
        /\ InWindow(emitted[t], Batch(t), outstanding[t], lastAck[t])
    BY <1>0 DEF TaskOK, LedgerAt, WindowAt
  <1>7. /\ Ledger(Append(emitted[t], Head(Batch(t))), Tail(Batch(t)), queued[t], outstanding[t],
                  phase[t], life[t], acknowledged[t], waiter[t], Expirers(t))
        /\ InWindow(Append(emitted[t], Head(Batch(t))), Tail(Batch(t)), outstanding[t], lastAck[t])
    BY <1>0, <1>2, <1>6, LedgerEmit, WindowEmit
  <1>8. LedgerAt(t)' /\ WindowAt(t)'
    BY <1>2, <1>4, <1>5, <1>7 DEF LedgerAt, WindowAt, entryVars
  <1>9. TaskOK(t)'
    BY <1>0, <1>2, <1>8 DEF TaskOK, Counted, Prompt, entryVars
  <1>10. ASSUME NEW x \in Tasks, x # t PROVE TaskOK(x)'
    <2>1. emitted'[x] = emitted[x] /\ Batch(x)' = Batch(x)
      BY <1>0, <1>1, <1>2, <1>3, <1>10 DEF Shape, Batch
    <2> QED BY <1>0, <1>2, <1>5, <2>1, Unaffected DEF Undisturbed, entryVars
  <1>11. HolderOK' /\ EvictionOK'
    BY <1>0, <1>1, <1>2, <1>3 DEF HolderOK, EvictionOK, entryVars
  <1> QED BY <1>9, <1>10, <1>11 DEF Kept

(* Unlocking, or turning to the queue again.                                *)
LEMMA FinishStep ==
  ASSUME DeliveryInvariant, finish_batch
  PROVE  Kept
  <1>0. /\ Shape /\ HolderOK /\ EvictionOK
        /\ \A x \in Tasks : TaskOK(x) /\ acknowledged[x] \in BOOLEAN
    BY DeliveryFacts
  <1>1. UNCHANGED <<entryVars, terminalOrder, waiter, expiring, emitted>>
    BY DEF finish_batch
  <1>2. order'.task = order.task /\ order'.batch = order.batch /\ order'.by \in {order.by, "none"}
    BY <1>0 DEF finish_batch, Release, Shape, OrderState
  <1>3. \A x \in Tasks : /\ Expirers(x)' = Expirers(x) /\ Batch(x)' = Batch(x)
                         /\ ~AckRequired => waiter'[x] \notin {"await", "overdue"}
    BY <1>0, <1>1, <1>2 DEF Expirers, TaskOK, Prompt, Batch
  <1>4. \A x \in Tasks : TaskOK(x)'
    BY <1>0, <1>1, <1>3, Unaffected DEF Undisturbed, entryVars
  <1>5. HolderOK' /\ EvictionOK'
    BY <1>0, <1>1, <1>2 DEF HolderOK, EvictionOK, entryVars
  <1> QED BY <1>4, <1>5 DEF Kept

(* drain_acknowledgement takes what became ready, or ends the flush and     *)
(* removes a task that is completely delivered.                             *)
LEMMA DrainStep ==
  ASSUME DeliveryInvariant, drain_acknowledgement
  PROVE  Kept
  <1>0. /\ Shape /\ BatchHeld /\ HolderOK /\ EvictionOK
        /\ \A x \in Tasks : /\ TaskOrderAt(x) /\ TaskOK(x) /\ acknowledged[x] \in BOOLEAN
                            /\ queued[x] \in Seq(Event)
    BY DeliveryFacts
  <1>1. PICK t \in Tasks : t = order.task
    BY <1>0 DEF Shape, OrderState
  <1>2. order.stage = "drain" /\ UNCHANGED <<waiter, expiring, emitted>>
        /\ \A x \in Tasks : Batch(x) = <<>>
    BY <1>0, NoBatch DEF drain_acknowledgement
  <1>3. \A x \in Tasks : /\ Expirers(x)' = Expirers(x)
                         /\ ~AckRequired => waiter'[x] \notin {"await", "overdue"}
                         /\ life[x] = "unstarted" => waiter[x] = "none"
    BY <1>0, <1>2 DEF Expirers, TaskOK, Prompt
  <1>4. CASE life[t] # "live" \/ ~acknowledged[t]
    <2>1. Release /\ UNCHANGED <<entryVars, terminalOrder>>
      BY <1>1, <1>4 DEF drain_acknowledgement
    <2>2. order'.by = "none" /\ order'.batch = order.batch /\ order'.task = t
      BY <1>0, <1>1, <2>1 DEF Release, Shape, OrderState
    <2>3. \A x \in Tasks : Batch(x)' = Batch(x)
      BY <1>1, <2>2 DEF Batch
    <2>4. \A x \in Tasks : TaskOK(x)'
      BY <1>0, <1>2, <1>3, <2>1, <2>3, Unaffected DEF Undisturbed, entryVars
    <2>5. HolderOK' /\ EvictionOK'
      BY <1>0, <1>2, <2>1, <2>2 DEF HolderOK, EvictionOK, entryVars
    <2> QED BY <2>4, <2>5 DEF Kept
  <1>5. CASE ~(life[t] # "live" \/ ~acknowledged[t])
    <2> DEFINE done == phase[t] = "Terminal" /\ queued[t] = <<>> /\ outstanding[t] = {}
    <2>1. PICK n \in 0..Len(queued[t]) :
             /\ take_ready_events(t, queued[t], n)
             /\ n > 0 => /\ order' = [order EXCEPT !.stage = "emit",
                                         !.batch = SubSeq(queued[t], 1, n)]
                         /\ UNCHANGED <<life, flushing, terminalOrder>>
             /\ ~(n > 0) => /\ Release
                            /\ flushing' = [flushing EXCEPT ![t] = FALSE]
                            /\ done => /\ life' = [life EXCEPT ![t] = "removed"]
                                       /\ terminalOrder' = Retained(t)
                            /\ ~done => UNCHANGED <<life, terminalOrder>>
             /\ UNCHANGED <<phase, acknowledged, statusSeq, outputSeq, reported, lastAck>>
      BY <1>1, <1>5 DEF drain_acknowledgement
    <2> HIDE DEF done
    <2>2. order'.task = t /\ order'.batch = SubSeq(queued[t], 1, n)
          /\ order'.by = IF n > 0 THEN order.by ELSE "none"
      <3>1. CASE n > 0
        BY <1>0, <1>1, <2>1, <3>1 DEF Shape, OrderState
      <3>2. CASE ~(n > 0)
        <4>1. n = 0 /\ SubSeq(queued[t], 1, n) = <<>>
          BY <1>0, <3>2, SubSeqEmpty
        <4>2. order.batch = <<>>
          BY <1>0, <1>2 DEF BatchHeld
        <4> QED BY <1>0, <1>1, <2>1, <3>2, <4>1, <4>2 DEF Release, Shape, OrderState
      <3> QED BY <3>1, <3>2
    <2>3. /\ flushing' = [flushing EXCEPT ![t] = IF n > 0 THEN flushing[t] ELSE FALSE]
          /\ life'[t] \in {"live", "removed"} /\ \A x \in Tasks : x # t => life'[x] = life[x]
      BY <1>0, <1>5, <2>1 DEF Shape
    <2>4. life[t] = "live" /\ acknowledged[t] = TRUE /\ acknowledged'[t] = TRUE /\ phase'[t] = phase[t]
      BY <1>0, <1>5, <2>1
    <2>5. Below({lastAck[t]} \cup outstanding[t], Outs(queued[t]))
      BY <1>0 DEF TaskOrderAt, TaskOrder
    <2>6. /\ Ledger(emitted[t], <<>>, queued[t], outstanding[t], phase[t], life[t], TRUE,
                    waiter[t], Expirers(t))
          /\ InWindow(emitted[t], <<>>, outstanding[t], lastAck[t])
      BY <1>0, <1>2, <2>4 DEF TaskOK, LedgerAt, WindowAt
    <2>7. LedgerAt(t)' /\ WindowAt(t)' /\ (~AckRequired => queued'[t] = <<>>)
      <3>1. UNCHANGED <<emitted, lastAck, waiter, expiring>>
        BY <1>2, <2>1
      <3>2. take_ready_events(t, queued[t], n)
        BY <2>1
      <3> QED BY <1>0, <2>2, <2>4, <2>5, <2>6, <3>1, <3>2, Taking
    <2>8. TaskOK(t)'
      <3>1. Counted(t)'
        BY <1>0, <2>1 DEF TaskOK, Counted
      <3> QED BY <1>3, <2>3, <2>7, <3>1 DEF TaskOK, Prompt
    <2>9. ASSUME NEW x \in Tasks, x # t PROVE TaskOK(x)'
      <3>1. Batch(x)' = Batch(x)
        BY <1>2, <2>2, <2>9 DEF Batch
      <3>2. queued'[x] = queued[x] /\ outstanding'[x] = outstanding[x]
            /\ flushing'[x] = flushing[x] /\ life'[x] = life[x]
        BY <1>0, <2>1, <2>3, <2>9 DEF take_ready_events, Shape
      <3>3. UNCHANGED <<phase, acknowledged, statusSeq, lastAck, emitted, waiter>>
        BY <1>2, <2>1
      <3> QED BY <1>0, <1>3, <3>1, <3>2, <3>3, Unaffected DEF Undisturbed
    <2>10. HolderOK'
      <3>1. n > 0 => flushing'[t] = flushing[t]
        BY <1>0, <2>3 DEF Shape
      <3> QED BY <1>0, <1>1, <2>2, <3>1 DEF HolderOK
    <2>11. EvictionOK'
      <3>1. CASE ~(n > 0) /\ done
        <4>1. Distinct(terminalOrder') /\ Ids(terminalOrder') \subseteq Ids(terminalOrder) \ {t}
          BY <1>0, <2>1, <3>1, RetainedOrder DEF EvictionOK, Shape
        <4>2. Ids(terminalOrder) \subseteq Tasks
          BY <1>0, ElementOfSeq DEF Ids, Shape
        <4>3. UNCHANGED <<phase, expiring>>
          BY <1>2, <2>1
        <4> QED BY <1>0, <2>3, <4>1, <4>2, <4>3 DEF EvictionOK
      <3>2. CASE ~(~(n > 0) /\ done)
        <4>1. UNCHANGED <<life, terminalOrder, phase, expiring>>
          BY <1>2, <2>1, <3>2
        <4> QED BY <1>0, <4>1 DEF EvictionOK
      <3> QED BY <3>1, <3>2
    <2> QED BY <2>8, <2>9, <2>10, <2>11 DEF Kept
  <1> QED BY <1>4, <1>5

(* A waiter emits an expired status, without output_emission_order.         *)
LEMMA ExpiredStep ==
  ASSUME DeliveryInvariant, NEW t \in Tasks, NEW x \in Tasks, emit_expired(t, x)
  PROVE  Kept
  <1> DEFINE e == [kind |-> "lost", seq |-> statusSeq[x] + 1]
  <1>0. /\ Shape /\ HolderOK /\ EvictionOK
        /\ \A y \in Tasks : TaskOK(y) /\ acknowledged[y] \in BOOLEAN
        /\ emitted[x] \in Seq(Event) /\ statusSeq[x] \in Nat
    BY DeliveryFacts
  <1>1. /\ x \in expiring[t]
        /\ expiring' = [expiring EXCEPT ![t] = expiring[t] \ {x}]
        /\ emitted' = [emitted EXCEPT ![x] = Append(emitted[x], e)]
        /\ UNCHANGED <<entryVars, terminalOrder, waiter, order>>
    BY DEF emit_expired
  <1>2. e \in Event /\ ~IsOutput(e) /\ e.kind = "lost"
    BY <1>0 DEF Event, IsOutput, OutputKinds, FinalKinds
  <1> HIDE DEF e
  <1>3. \A y \in Tasks : expiring'[y] = IF y = t THEN expiring[t] \ {x} ELSE expiring[y]
    BY <1>0, <1>1 DEF Shape
  <1>4. Expirers(x) # {} /\ Expirers(x)' = {}
    BY <1>0, <1>1, <1>3 DEF Expirers, EvictionOK
  <1>5. \A y \in Tasks : /\ Expirers(y)' \subseteq Expirers(y) /\ Batch(y)' = Batch(y)
                         /\ ~AckRequired => waiter'[y] \notin {"await", "overdue"}
    BY <1>0, <1>1, <1>3 DEF Expirers, Batch, TaskOK, Prompt
  <1>6. /\ Ledger(emitted[x], Batch(x), queued[x], outstanding[x], phase[x], life[x],
                  acknowledged[x], waiter[x], Expirers(x))
        /\ InWindow(emitted[x], Batch(x), outstanding[x], lastAck[x])
    BY <1>0 DEF TaskOK, LedgerAt, WindowAt
  <1>7. /\ Ledger(Append(emitted[x], e), Batch(x), queued[x], outstanding[x], phase[x], life[x],
                  acknowledged[x], waiter[x], {})
        /\ InWindow(Append(emitted[x], e), Batch(x), outstanding[x], lastAck[x])
    BY <1>0, <1>2, <1>4, <1>6, LedgerExpire, WindowStatus
  <1>8. emitted'[x] = Append(emitted[x], e)
    BY <1>0, <1>1 DEF Shape
  <1>9. TaskOK(x)'
    <2>1. LedgerAt(x)' /\ WindowAt(x)'
      BY <1>1, <1>4, <1>5, <1>7, <1>8 DEF LedgerAt, WindowAt, entryVars
    <2> QED BY <1>0, <1>1, <2>1 DEF TaskOK, Counted, Prompt, entryVars
  <1>10. ASSUME NEW y \in Tasks, y # x PROVE TaskOK(y)'
    <2>1. emitted'[y] = emitted[y]
      BY <1>0, <1>1, <1>10 DEF Shape
    <2> QED BY <1>0, <1>1, <1>5, <2>1, Unaffected DEF Undisturbed, entryVars
  <1>11. HolderOK'
    BY <1>0, <1>1 DEF HolderOK, entryVars
  <1>12. EvictionOK'
    <2>1. \A y, z \in Tasks : expiring'[y] \cap expiring'[z] # {} => y = z
      <3>1. \A y \in Tasks : expiring'[y] \subseteq expiring[y]
        BY <1>3
      <3> QED BY <1>0, <3>1 DEF EvictionOK
    <2> QED BY <1>0, <1>1, <2>1 DEF EvictionOK, entryVars
  <1> QED BY <1>9, <1>10, <1>11, <1>12 DEF Kept

(* The waiter of a task with a sink that acknowledges nothing.              *)
LEMMA DirectStep ==
  ASSUME DeliveryInvariant, NEW t \in Tasks, emit_direct(t)
  PROVE  Kept
  <1> DEFINE e == [kind |-> "terminal", seq |-> statusSeq[t]]
  <1>0. /\ Shape /\ HolderOK /\ EvictionOK
        /\ \A y \in Tasks : TaskOK(y) /\ acknowledged[y] \in BOOLEAN
        /\ emitted[t] \in Seq(Event) /\ statusSeq[t] \in Nat
    BY DeliveryFacts
  <1>1. /\ waiter[t] = "direct"
        /\ waiter' = [waiter EXCEPT ![t] = "done"]
        /\ emitted' = [emitted EXCEPT ![t] = Append(emitted[t], e)]
        /\ UNCHANGED <<entryVars, terminalOrder, expiring, order>>
    BY DEF emit_direct
  <1>2. e \in Event /\ ~IsOutput(e) /\ e.kind = "terminal"
    BY <1>0 DEF Event, IsOutput, OutputKinds, FinalKinds
  <1> HIDE DEF e
  <1>3. \A y \in Tasks : /\ Expirers(y)' = Expirers(y) /\ Batch(y)' = Batch(y)
                         /\ ~AckRequired => waiter[y] \notin {"await", "overdue"}
                         /\ life[y] = "unstarted" => waiter[y] = "none"
    BY <1>0, <1>1 DEF Expirers, Batch, TaskOK, Prompt
  <1>4. /\ Ledger(emitted[t], Batch(t), queued[t], outstanding[t], phase[t], life[t],
                  acknowledged[t], "direct", Expirers(t))
        /\ InWindow(emitted[t], Batch(t), outstanding[t], lastAck[t])
    BY <1>0, <1>1 DEF TaskOK, LedgerAt, WindowAt
  <1>5. /\ Ledger(Append(emitted[t], e), Batch(t), queued[t], outstanding[t], phase[t], life[t],
                  acknowledged[t], "done", Expirers(t))
        /\ InWindow(Append(emitted[t], e), Batch(t), outstanding[t], lastAck[t])
    BY <1>0, <1>2, <1>4, LedgerDirect, WindowStatus
  <1>6. emitted'[t] = Append(emitted[t], e) /\ waiter'[t] = "done"
    BY <1>0, <1>1 DEF Shape
  <1>7. TaskOK(t)'
    <2>1. LedgerAt(t)' /\ WindowAt(t)'
      BY <1>1, <1>3, <1>5, <1>6 DEF LedgerAt, WindowAt, entryVars
    <2>2. life'[t] # "unstarted"
      BY <1>1, <1>3 DEF entryVars
    <2> QED BY <1>0, <1>1, <1>6, <2>1, <2>2 DEF TaskOK, Counted, Prompt, entryVars
  <1>8. ASSUME NEW y \in Tasks, y # t PROVE TaskOK(y)'
    <2>1. emitted'[y] = emitted[y] /\ waiter'[y] = waiter[y]
      BY <1>0, <1>1, <1>8 DEF Shape
    <2> QED BY <1>0, <1>1, <1>3, <2>1, Unaffected DEF Undisturbed, entryVars
  <1>9. HolderOK' /\ EvictionOK'
    BY <1>0, <1>1 DEF HolderOK, EvictionOK, entryVars
  <1> QED BY <1>7, <1>8, <1>9 DEF Kept

(* The waiter of a task with an acknowledging sink.                         *)
LEMMA CompleteDrainStep ==
  ASSUME DeliveryInvariant, NEW t \in Tasks, complete_drain(t)
  PROVE  Kept
  <1>0. /\ Shape /\ BatchHeld /\ HolderOK /\ EvictionOK
        /\ \A y \in Tasks : TaskOK(y) /\ acknowledged[y] \in BOOLEAN
    BY DeliveryFacts
  <1>1. waiter[t] = "expire" /\ UNCHANGED <<entryVars, terminalOrder, expiring, emitted>>
        /\ waiter' = [waiter EXCEPT ![t] = IF AckRequired THEN "await" ELSE "done"]
    BY DEF complete_drain
  <1>2. /\ AckRequired => OrderFree /\ order' = [by |-> "waiter", task |-> t,
                                                stage |-> "drain", batch |-> <<>>]
        /\ ~AckRequired => order' = order
    BY DEF complete_drain
  <1>3. \A y \in Tasks : Batch(y)' = Batch(y)
    <2>1. CASE AckRequired
      BY <1>0, <1>2, <2>1, NoBatch DEF Batch
    <2>2. CASE ~AckRequired
      BY <1>2, <2>2 DEF Batch
    <2> QED BY <2>1, <2>2
  <1>4. \A y \in Tasks : /\ Expirers(y)' = Expirers(y)
                         /\ waiter'[y] = "direct" <=> waiter[y] = "direct"
                         /\ ~AckRequired => waiter'[y] \notin {"await", "overdue"}
                         /\ life[y] = "unstarted" => waiter'[y] = waiter[y]
    <2> SUFFICES ASSUME NEW y \in Tasks
                 PROVE  /\ waiter'[y] = "direct" <=> waiter[y] = "direct"
                        /\ ~AckRequired => waiter'[y] \notin {"await", "overdue"}
                        /\ life[y] = "unstarted" => waiter'[y] = waiter[y]
      BY <1>1 DEF Expirers
    <2>1. waiter'[y] = IF y = t THEN IF AckRequired THEN "await" ELSE "done" ELSE waiter[y]
      BY <1>0, <1>1 DEF Shape
    <2>2. /\ ~AckRequired => waiter[y] \notin {"await", "overdue"}
          /\ life[y] = "unstarted" => waiter[y] = "none"
      BY <1>0 DEF TaskOK, Prompt
    <2> QED BY <1>1, <2>1, <2>2
  <1>5. \A y \in Tasks : TaskOK(y)'
    BY <1>0, <1>1, <1>3, <1>4, Unaffected DEF Undisturbed, entryVars
  <1>6. HolderOK' /\ EvictionOK'
    <2>1. CASE AckRequired
      BY <1>0, <1>1, <1>2, <2>1 DEF HolderOK, EvictionOK, entryVars
    <2>2. CASE ~AckRequired
      BY <1>0, <1>1, <1>2, <2>2 DEF HolderOK, EvictionOK, entryVars
    <2> QED BY <2>1, <2>2
  <1> QED BY <1>5, <1>6 DEF Kept

(* complete: the terminal status is queued, or left to the waiter, and the  *)
(* oldest completed tasks make room in terminal_order.                      *)
Evicts(t) ==
    LET recorded == Append(terminalOrder, t)
        excess == IF Len(recorded) > MaxTerminal THEN Len(recorded) - MaxTerminal ELSE 0
        evicted == {recorded[i] : i \in 1..excess}
    IN /\ evicted \subseteq Ids(terminalOrder) /\ t \notin evicted
       /\ Distinct(terminalOrder')
       /\ Ids(terminalOrder') \subseteq (Ids(terminalOrder) \cup {t}) \ evicted
       /\ \A x \in Tasks : life'[x] = IF x \in evicted THEN "removed" ELSE life[x]
       /\ \A y \in Tasks : y # t => expiring'[y] = expiring[y]
       /\ expiring'[t] = {x \in evicted : acknowledged[x] /\ Undelivered(x)}

LEMMA CompleteEvicts ==
  ASSUME Shape, EvictionOK, NEW t \in Tasks, complete(t)
  PROVE  Evicts(t)
  <1> DEFINE recorded == Append(terminalOrder, t)
             excess == IF Len(recorded) > MaxTerminal THEN Len(recorded) - MaxTerminal ELSE 0
             evicted == {recorded[i] : i \in 1..excess}
  <1>1. /\ phase[t] # "Terminal"
        /\ terminalOrder' = SubSeq(recorded, excess + 1, Len(recorded))
        /\ life' = [x \in Tasks |-> IF x \in evicted THEN "removed" ELSE life[x]]
        /\ expiring' = [expiring EXCEPT ![t] = {x \in evicted : acknowledged[x] /\ Undelivered(x)}]
    BY DEF complete
  <1>2. terminalOrder \in Seq(Tasks) /\ Len(terminalOrder) \in Nat /\ t \notin Ids(terminalOrder)
    BY <1>1, LenProperties DEF Shape, EvictionOK
  <1>3. /\ recorded \in Seq(Tasks) /\ Len(recorded) = Len(terminalOrder) + 1
        /\ \A i \in 1..Len(terminalOrder) : recorded[i] = terminalOrder[i]
        /\ Distinct(recorded) /\ Ids(recorded) = Ids(terminalOrder) \cup {t}
    BY <1>2, RecordedOrder DEF EvictionOK
  <1> HIDE DEF recorded
  <1>4. excess \in 0..Len(recorded) /\ excess <= Len(terminalOrder)
    BY <1>2, <1>3, BoundsAssumption
  <1> HIDE DEF excess
  <1>5. evicted \subseteq Ids(terminalOrder)
    BY <1>2, <1>3, <1>4 DEF Ids
  <1>6. Distinct(terminalOrder') /\ Ids(terminalOrder') \subseteq Ids(recorded) \ evicted
    BY <1>1, <1>3, <1>4, EvictionOrder
  <1> HIDE DEF evicted
  <1>7. \A x \in Tasks : life'[x] = IF x \in evicted THEN "removed" ELSE life[x]
    BY <1>1
  <1>8. /\ expiring'[t] = {x \in evicted : acknowledged[x] /\ Undelivered(x)}
        /\ \A y \in Tasks : y # t => expiring'[y] = expiring[y]
    BY <1>1 DEF Shape
  <1>9. t \notin evicted
    BY <1>2, <1>5
  <1>10. Ids(terminalOrder') \subseteq (Ids(terminalOrder) \cup {t}) \ evicted
    BY <1>3, <1>6
  <1> QED BY <1>5, <1>6, <1>7, <1>8, <1>9, <1>10 DEF Evicts, evicted, excess, recorded

(* What the eviction leaves of the tasks and of terminal_order.             *)
LEMMA EvictStep ==
  ASSUME Shape, EvictionOK, NEW t \in Tasks, life[t] = "live",
         \A x \in Tasks : TaskOK(x), \A x \in Tasks : acknowledged[x] \in BOOLEAN, Evicts(t),
         phase'[t] = "Terminal",
         \A x \in Tasks : x # t => phase'[x] = phase[x] /\ waiter'[x] = waiter[x]
                                   /\ queued'[x] = queued[x] /\ statusSeq'[x] = statusSeq[x],
         UNCHANGED <<emitted, order, outstanding, lastAck, acknowledged, flushing>>
  PROVE  /\ EvictionOK'
         /\ \A x \in Tasks : x # t => TaskOK(x)'
         /\ life'[t] = "live" /\ Expirers(t)' = {}
  <1> DEFINE recorded == Append(terminalOrder, t)
             excess == IF Len(recorded) > MaxTerminal THEN Len(recorded) - MaxTerminal ELSE 0
             evicted == {recorded[i] : i \in 1..excess}
  <1>1. /\ evicted \subseteq Ids(terminalOrder) /\ t \notin evicted
        /\ Distinct(terminalOrder')
        /\ Ids(terminalOrder') \subseteq (Ids(terminalOrder) \cup {t}) \ evicted
        /\ \A x \in Tasks : life'[x] = IF x \in evicted THEN "removed" ELSE life[x]
        /\ \A y \in Tasks : y # t => expiring'[y] = expiring[y]
        /\ expiring'[t] = {x \in evicted : acknowledged[x] /\ Undelivered(x)}
    BY DEF Evicts
  <1> HIDE DEF evicted
  <1>2. Ids(terminalOrder) \subseteq Tasks
    BY ElementOfSeq DEF Ids, Shape
  <1>3. \A x \in evicted : x \in Tasks /\ life[x] = "live" /\ phase[x] = "Terminal" /\ x # t
    BY <1>1, <1>2 DEF EvictionOK
  <1>4. ASSUME NEW x \in Tasks
        PROVE  /\ Ledger(emitted[x], Batch(x), queued[x], outstanding[x], phase[x], life[x],
                         acknowledged[x], waiter[x], Expirers(x))
               /\ Expirers(x) # {} => life[x] = "removed"
    <2>1. Ledger(emitted[x], Batch(x), queued[x], outstanding[x], phase[x], life[x],
                 acknowledged[x], waiter[x], Expirers(x))
      BY DEF TaskOK, LedgerAt
    <2>2. Expirers(x) # {} => life[x] = "removed"
      BY <2>1 DEF Ledger
    <2> QED BY <2>1, <2>2
  <1>5. ASSUME NEW x \in Tasks, x \notin evicted \/ ~(acknowledged[x] /\ Undelivered(x))
        PROVE  Expirers(x)' \subseteq Expirers(x)
    BY <1>1, <1>5 DEF Expirers
  <1>6. ASSUME NEW x \in Tasks, x # t PROVE TaskOK(x)'
    <2>0. /\ Batch(x)' = Batch(x) /\ emitted'[x] = emitted[x] /\ outstanding'[x] = outstanding[x]
          /\ lastAck'[x] = lastAck[x] /\ acknowledged'[x] = acknowledged[x]
          /\ flushing'[x] = flushing[x] /\ statusSeq'[x] = statusSeq[x]
          /\ phase'[x] = phase[x] /\ waiter'[x] = waiter[x] /\ queued'[x] = queued[x]
          /\ (~AckRequired => waiter[x] \notin {"await", "overdue"})
      BY <1>6 DEF Batch, TaskOK, Prompt
    <2>1. life'[x] = IF x \in evicted THEN "removed" ELSE life[x]
      BY <1>1
    <2>2. CASE x \in evicted /\ acknowledged[x] /\ Undelivered(x)
      <3>1. life[x] = "live" /\ phase[x] = "Terminal"
        BY <1>3, <2>2
      <3>2. Ledger(emitted[x], Batch(x), queued[x], outstanding[x], "Terminal", life[x],
                   acknowledged[x], waiter[x], Expirers(x))
        BY <1>4, <3>1
      <3>3. Ledger(emitted[x], Batch(x), queued[x], outstanding[x], "Terminal", "removed",
                   acknowledged[x], waiter[x], Expirers(x)')
        BY <2>2, <3>1, <3>2, LedgerEvict DEF Undelivered
      <3>4. LedgerAt(x)'
        BY <2>0, <2>1, <2>2, <3>1, <3>3 DEF LedgerAt
      <3>5. WindowAt(x)' /\ Counted(x)' /\ Prompt(x)'
        BY <2>0, <2>1, <2>2 DEF TaskOK, WindowAt, Counted, Prompt
      <3> QED BY <3>4, <3>5 DEF TaskOK
    <2>3. CASE ~(x \in evicted /\ acknowledged[x] /\ Undelivered(x))
      <3>1. Expirers(x)' \subseteq Expirers(x)
        BY <1>5, <2>3
      <3> QED BY <2>0, <2>1, <3>1, Unaffected DEF Undisturbed
    <2> QED BY <2>2, <2>3
  <1>7. \A x \in Ids(terminalOrder') : life'[x] = "live" /\ phase'[x] = "Terminal"
    <2> SUFFICES ASSUME NEW x \in Ids(terminalOrder')
                 PROVE  life'[x] = "live" /\ phase'[x] = "Terminal"
      OBVIOUS
    <2>1. x \in Tasks /\ x \notin evicted /\ (x = t \/ x \in Ids(terminalOrder))
      BY <1>1, <1>2
    <2> QED BY <1>1, <2>1 DEF EvictionOK
  <1>8. \A y, z \in Tasks : expiring'[y] \cap expiring'[z] # {} => y = z
    <2> SUFFICES ASSUME NEW y \in Tasks, NEW z \in Tasks,
                        NEW x, x \in expiring'[y], x \in expiring'[z]
                 PROVE  y = z
      OBVIOUS
    <2>1. ASSUME NEW w \in Tasks, w # t, x \in expiring'[w], x \in expiring'[t] PROVE FALSE
      <3>1. x \in evicted /\ x \in expiring[w]
        BY <1>1, <2>1
      <3>2. x \in Tasks /\ life[x] = "live" /\ w \in Expirers(x)
        BY <1>3, <3>1 DEF Expirers
      <3> QED BY <1>4, <3>2
    <2>2. CASE y # t /\ z # t
      BY <1>1, <2>2 DEF EvictionOK
    <2> QED BY <2>1, <2>2
  <1>9. EvictionOK'
    BY <1>1, <1>7, <1>8 DEF EvictionOK
  <1>10. life'[t] = "live" /\ Expirers(t)' = {}
    BY <1>1, <1>4, <1>5
  <1> QED BY <1>6, <1>9, <1>10

(* Nothing of a task that is about to emit its terminal status itself is    *)
(* on its way.                                                              *)
LEMMA NothingOnItsWay ==
  ASSUME DeliveryInvariant, NEW t \in Tasks, complete(t), EmitsDirectly(t)
  PROVE  /\ Batch(t) = <<>> /\ queued[t] = <<>> /\ outstanding[t] = {}
         /\ phase[t] = "Running"
  <1>0. Shape /\ BatchHeld /\ HolderOK /\ TaskOK(t)
    BY DeliveryFacts
  <1>1. acknowledged[t] /\ ~flushing[t] /\ ~AckRequired
    BY DEF EmitsDirectly
  <1>2. phase[t] # "Terminal" /\ ~(order.by = "pump" /\ order.task = t)
    BY DEF complete
  <1>3. order.task = t => order.by = "none"
    BY <1>0, <1>1, <1>2 DEF HolderOK, Shape, OrderState, Holders
  <1>4. Batch(t) = <<>>
    BY <1>0, <1>3 DEF Batch, BatchHeld, OrderFree
  <1>5. queued[t] = <<>> /\ outstanding[t] = {} /\ phase[t] # "Pending"
    BY <1>0, <1>1 DEF TaskOK, Prompt, WindowAt, InWindow, Counted
  <1> QED BY <1>0, <1>2, <1>4, <1>5 DEF Shape

LEMMA CompleteStep ==
  ASSUME DeliveryInvariant, NEW t \in Tasks, complete(t)
  PROVE  Kept
  <1> DEFINE pending == phase[t] = "Pending"
             x == [kind |-> "running", seq |-> statusSeq[t] + 1]
             n == IF pending /\ ~EmitsDirectly(t) THEN statusSeq[t] + 2 ELSE statusSeq[t] + 1
             y == [kind |-> "terminal", seq |-> n]
  <1>0. /\ Shape /\ BatchHeld /\ HolderOK /\ EvictionOK
        /\ \A z \in Tasks : TaskOK(z) /\ acknowledged[z] \in BOOLEAN
        /\ queued[t] \in Seq(Event) /\ statusSeq[t] \in Nat
    BY DeliveryFacts
  <1>1. /\ life[t] = "live" /\ phase[t] # "Terminal"
        /\ UNCHANGED <<emitted, order, outstanding, lastAck, acknowledged, flushing>>
        /\ phase' = [phase EXCEPT ![t] = "Terminal"]
        /\ statusSeq' = [statusSeq EXCEPT ![t] = n]
        /\ waiter' = [waiter EXCEPT ![t] = IF EmitsDirectly(t) THEN "direct" ELSE "expire"]
        /\ queued' = [queued EXCEPT ![t] = IF EmitsDirectly(t) THEN queued[t]
                                           ELSE push_queued(WithRunning(t, queued[t]), y)]
    BY DEF complete
  <1>2. /\ Counted(t) /\ Prompt(t)
        /\ Ledger(emitted[t], Batch(t), queued[t], outstanding[t], phase[t], life[t],
                  acknowledged[t], waiter[t], Expirers(t))
        /\ InWindow(emitted[t], Batch(t), outstanding[t], lastAck[t])
    BY <1>0 DEF TaskOK, LedgerAt, WindowAt
  <1>3. pending => ~EmitsDirectly(t)
    BY <1>2 DEF Counted, EmitsDirectly
  <1>4. n = 2 /\ (pending => x = [kind |-> "running", seq |-> 1])
    BY <1>0, <1>1, <1>2, <1>3 DEF Counted, Shape
  <1> HIDE DEF n
  <1>5. /\ phase'[t] = "Terminal" /\ statusSeq'[t] = 2
        /\ waiter'[t] = IF EmitsDirectly(t) THEN "direct" ELSE "expire"
        /\ queued'[t] = IF EmitsDirectly(t) THEN queued[t]
                        ELSE push_queued(WithRunning(t, queued[t]), y)
        /\ \A z \in Tasks : z # t =>
              phase'[z] = phase[z] /\ waiter'[z] = waiter[z]
              /\ queued'[z] = queued[z] /\ statusSeq'[z] = statusSeq[z]
    BY <1>0, <1>1, <1>4 DEF Shape
  <1>6. /\ EvictionOK' /\ life'[t] = "live" /\ Expirers(t)' = {}
        /\ \A z \in Tasks : z # t => TaskOK(z)'
    <2>1. Evicts(t)
      BY <1>0, CompleteEvicts
    <2> QED BY <1>0, <1>1, <1>5, <2>1, EvictStep
  <1>7. Expirers(t) = {}
    BY <1>1, <1>2 DEF Ledger
  <1>8. Batch(t)' = Batch(t)
    BY <1>1 DEF Batch
  <1>9. HolderOK'
    BY <1>0, <1>1 DEF HolderOK
  <1>10. Counted(t)'
    BY <1>5 DEF Counted
  <1>11. Prompt(t)'
    <2>1. ~AckRequired /\ acknowledged[t] /\ ~flushing[t] => queued'[t] = <<>>
      BY <1>2, <1>5 DEF Prompt, EmitsDirectly
    <2> QED BY <1>1, <1>5, <1>6, <2>1 DEF Prompt
  <1>12. WindowAt(t)'
    BY <1>1, <1>2, <1>8 DEF WindowAt
  <1>13. CASE EmitsDirectly(t)
    <2>1. /\ Batch(t) = <<>> /\ queued[t] = <<>> /\ outstanding[t] = {}
          /\ phase[t] \notin {"Pending", "Terminal"}
      BY <1>13, NothingOnItsWay
    <2>2. Ledger(emitted[t], Batch(t), queued[t], outstanding[t], "Terminal", life[t],
                 acknowledged[t], "direct", Expirers(t))
      BY <1>0, <1>2, <2>1, LedgerEarmark
    <2>3. LedgerAt(t)'
      BY <1>1, <1>5, <1>6, <1>7, <1>8, <1>13, <2>2 DEF LedgerAt
    <2> QED BY <1>6, <1>9, <1>10, <1>11, <1>12, <2>3 DEF Kept, TaskOK
  <1>14. CASE ~EmitsDirectly(t)
    <2> DEFINE r == [kind |-> "running", seq |-> 1]
               w == WithRunning(t, queued[t])
    <2>1. r \in Event /\ r.kind = "running" /\ r.seq = 1
      BY DEF Event
    <2>2. y \in Event /\ y.kind = "terminal" /\ y.seq = 2
      BY <1>4 DEF Event, FinalKinds
    <2>3. w = RunningFirst(phase[t], queued[t], r)
      BY <1>4 DEF WithRunning, RunningFirst
    <2> HIDE DEF r, w, y
    <2>4. Ledger(emitted[t], Batch(t), push_queued(RunningFirst(phase[t], queued[t], r), y),
                 outstanding[t], "Terminal", life[t], acknowledged[t], "expire", Expirers(t))
      BY <1>0, <1>1, <1>2, <2>1, <2>2, LedgerComplete
    <2>5. LedgerAt(t)'
      BY <1>1, <1>5, <1>6, <1>7, <1>8, <1>14, <2>3, <2>4 DEF LedgerAt, w
    <2> QED BY <1>6, <1>9, <1>10, <1>11, <1>12, <2>5 DEF Kept, TaskOK
  <1> QED BY <1>13, <1>14

(* The deadline has passed: an explicit failure replaces the delivery.      *)
LEMMA InterruptStep ==
  ASSUME DeliveryInvariant, NEW t \in Tasks, interrupt_delivery(t)
  PROVE  Kept
  <1> DEFINE e == [kind |-> "lost", seq |-> statusSeq[t] + 1]
  <1>0. /\ Shape /\ BatchHeld /\ HolderOK /\ EvictionOK
        /\ \A y \in Tasks : TaskOK(y) /\ acknowledged[y] \in BOOLEAN
        /\ statusSeq[t] \in Nat
    BY DeliveryFacts
  <1>1. /\ waiter[t] = "overdue" /\ OrderFree
        /\ waiter' = [waiter EXCEPT ![t] = "done"]
        /\ UNCHANGED <<phase, acknowledged, flushing, queued, statusSeq, outputSeq,
                       reported, outstanding, lastAck, expiring, emitted>>
    BY DEF interrupt_delivery
  <1>2. AckRequired
    BY <1>0, <1>1 DEF TaskOK, Prompt
  <1>3. \A y \in Tasks : /\ Expirers(y)' = Expirers(y) /\ Batch(y) = <<>>
                         /\ waiter'[y] = IF y = t THEN "done" ELSE waiter[y]
                         /\ life[y] = "unstarted" => waiter[y] = "none"
    BY <1>0, <1>1, NoBatch DEF Expirers, Shape, TaskOK, Prompt
  <1>4. life[t] # "unstarted"
    BY <1>1, <1>3
  <1>5. CASE DeliveryPending(t)
    <2>1. /\ life' = [life EXCEPT ![t] = "removed"]
          /\ terminalOrder' = Retained(t)
          /\ order' = [by |-> "overdue", task |-> t, stage |-> "emit", batch |-> <<e>>]
      BY <1>5 DEF interrupt_delivery
    <2>2. /\ life[t] = "live" /\ phase[t] = "Terminal"
          /\ queued[t] # <<>> \/ outstanding[t] # {}
      BY <1>5 DEF DeliveryPending, Undelivered
    <2>3. e \in Event /\ ~IsOutput(e) /\ e.kind = "lost" /\ e.seq = 3
      BY <1>0, <2>2 DEF Event, IsOutput, OutputKinds, FinalKinds, TaskOK, Counted
    <2> HIDE DEF e
    <2>4. /\ Ledger(emitted[t], <<>>, queued[t], outstanding[t], "Terminal", life[t],
                    acknowledged[t], waiter[t], Expirers(t))
          /\ InWindow(emitted[t], <<>>, outstanding[t], lastAck[t])
      BY <1>0, <1>3, <2>2 DEF TaskOK, LedgerAt, WindowAt
    <2>5. Ledger(emitted[t], <<e>>, queued[t], outstanding[t], "Terminal", "removed",
                 acknowledged[t], waiter[t], Expirers(t))
      BY <1>0, <2>2, <2>3, <2>4, LedgerInterrupt
    <2>6. Ledger(emitted[t], <<e>>, queued[t], outstanding[t], "Terminal", "removed",
                 acknowledged[t], "done", Expirers(t))
      BY <1>1, <2>5 DEF Ledger
    <2>7. InWindow(emitted[t], <<e>>, outstanding[t], lastAck[t])
      BY <2>3, <2>4, WindowInterrupt
    <2>8. Batch(t)' = <<e>> /\ waiter'[t] = "done" /\ life'[t] = "removed"
          /\ \A y \in Tasks : y # t => life'[y] = life[y] /\ Batch(y)' = <<>>
      BY <1>0, <1>3, <2>1 DEF Batch, Shape
    <2>9. LedgerAt(t)' /\ WindowAt(t)'
      BY <1>1, <1>3, <2>2, <2>6, <2>7, <2>8 DEF LedgerAt, WindowAt
    <2>10. TaskOK(t)'
      BY <1>0, <1>1, <1>2, <2>8, <2>9 DEF TaskOK, Counted, Prompt
    <2>11. ASSUME NEW y \in Tasks, y # t PROVE TaskOK(y)'
      <3>1. Batch(y)' = Batch(y) /\ life'[y] = life[y] /\ waiter'[y] = waiter[y]
        BY <1>3, <2>8, <2>11
      <3> QED BY <1>0, <1>1, <1>2, <1>3, <3>1, Unaffected DEF Undisturbed
    <2>12. HolderOK'
      BY <1>2, <2>1 DEF HolderOK
    <2>13. EvictionOK'
      <3>1. Distinct(terminalOrder') /\ Ids(terminalOrder') \subseteq Ids(terminalOrder) \ {t}
        BY <1>0, <2>1, RetainedOrder DEF EvictionOK, Shape
      <3>2. Ids(terminalOrder) \subseteq Tasks
        <4>1. terminalOrder \in Seq(Tasks)
          BY <1>0 DEF Shape
        <4> QED BY <4>1, ElementOfSeq DEF Ids
      <3> QED BY <1>0, <1>1, <2>8, <3>1, <3>2 DEF EvictionOK
    <2> QED BY <2>10, <2>11, <2>12, <2>13 DEF Kept
  <1>6. CASE ~DeliveryPending(t)
    <2>1. UNCHANGED <<life, terminalOrder, order>>
      BY <1>6 DEF interrupt_delivery
    <2>2. \A y \in Tasks : Batch(y)' = Batch(y)
      BY <2>1 DEF Batch
    <2>3. \A y \in Tasks : TaskOK(y)'
      <3> SUFFICES ASSUME NEW y \in Tasks PROVE TaskOK(y)'
        OBVIOUS
      <3>1. waiter'[y] = "direct" <=> waiter[y] = "direct"
        BY <1>1, <1>3
      <3>2. life'[y] = "unstarted" => waiter'[y] = waiter[y]
        BY <1>3, <1>4, <2>1
      <3> QED BY <1>0, <1>1, <1>2, <1>3, <2>1, <2>2, <3>1, <3>2, Unaffected DEF Undisturbed
    <2>4. HolderOK' /\ EvictionOK'
      BY <1>0, <1>1, <2>1 DEF HolderOK, EvictionOK
    <2> QED BY <2>3, <2>4 DEF Kept
  <1> QED BY <1>5, <1>6

LEMMA DeliveryStep == DeliveryInvariant /\ [Next]_vars => DeliveryInvariant'
  <1> SUFFICES ASSUME DeliveryInvariant, [Next]_vars PROVE DeliveryInvariant'
    OBVIOUS
  <1>1. OrderInvariant'
    BY OrderStep DEF DeliveryInvariant
  <1>2. ASSUME Holder PROVE Kept
    BY <1>2, EmitStep, FinishStep, DrainStep DEF Holder
  <1>3. ASSUME NEW t \in Tasks, Waiter(t) PROVE Kept
    BY <1>3, QuietStep, CompleteStep, ExpiredStep, DirectStep, CompleteDrainStep, InterruptStep
       DEF Waiter
  <1>4. ASSUME NEW t \in Tasks,
               \/ start(t) \/ commit_start(t) \/ abandon_start(t)
               \/ \E kind \in OutputKinds : publish(t, kind)
               \/ acknowledge(t)
               \/ \E s \in 1..MaxOutputs[t] : acknowledge_output(t, s)
        PROVE  Kept
    BY <1>4, QuietStep, PublishStep, AcknowledgeStep, ConsumeStep
  <1>5. ASSUME UNCHANGED vars PROVE Kept
    <2>1. UNCHANGED <<entryVars, terminalOrder, waiter, expiring, order, emitted>>
      BY <1>5 DEF vars
    <2>2. Shape /\ HolderOK /\ EvictionOK /\ \A y \in Tasks : TaskOK(y) /\ acknowledged[y] \in BOOLEAN
      BY DeliveryFacts
    <2>3. \A y \in Tasks : Batch(y)' = Batch(y) /\ (Expirers(y)' = Expirers(y))
                           /\ (~AckRequired => waiter'[y] \notin {"await", "overdue"})
      BY <2>1, <2>2 DEF Batch, Expirers, TaskOK, Prompt
    <2>4. \A y \in Tasks : TaskOK(y)'
      BY <2>1, <2>2, <2>3, Unaffected DEF Undisturbed, entryVars
    <2>5. HolderOK' /\ EvictionOK'
      BY <2>1, <2>2 DEF HolderOK, EvictionOK, entryVars
    <2> QED BY <2>4, <2>5 DEF Kept
  <1>6. Kept
    BY <1>2, <1>3, <1>4, <1>5 DEF Next
  <1> QED BY <1>1, <1>6 DEF Kept, DeliveryInvariant

LEMMA DeliveryInit == Init => DeliveryInvariant
  <1> SUFFICES ASSUME Init PROVE DeliveryInvariant
    OBVIOUS
  <1>1. OrderInvariant
    BY OrderInit
  <1>2. /\ terminalOrder = <<>> /\ order.by = "none" /\ order.batch = <<>>
        /\ \A t \in Tasks :
              /\ life[t] = "unstarted" /\ phase[t] = "Pending" /\ acknowledged[t] = FALSE
              /\ queued[t] = <<>> /\ statusSeq[t] = 0 /\ outstanding[t] = {} /\ lastAck[t] = 0
              /\ waiter[t] = "none" /\ expiring[t] = {} /\ emitted[t] = <<>>
    BY DEF Init
  <1>3. HolderOK /\ EvictionOK
    BY <1>2 DEF HolderOK, EvictionOK, Ids, Distinct
  <1>4. ASSUME NEW t \in Tasks PROVE TaskOK(t)
    <2>1. Batch(t) = <<>> /\ Expirers(t) = {}
      BY <1>2 DEF Batch, Expirers
    <2>2. LedgerAt(t)
      BY <1>2, <2>1, EmptyTidy DEF LedgerAt, Ledger
    <2>3. InWindow(<<>>, <<>>, {}, 0)
      <3>1. IsFiniteSet({}) /\ Cardinality({}) = 0 /\ 0 <= Window
        BY FS_EmptySet, BoundsAssumption
      <3>2. Outs(<<>>) = {}
        BY EmptyOuts
      <3> QED BY <3>1, <3>2 DEF InWindow, Below
    <2>4. WindowAt(t)
      BY <1>2, <2>1, <2>3 DEF WindowAt
    <2>5. Counted(t) /\ Prompt(t)
      BY <1>2 DEF Counted, Prompt
    <2> QED BY <2>2, <2>4, <2>5 DEF TaskOK
  <1> QED BY <1>1, <1>3, <1>4 DEF DeliveryInvariant

(* Where every event of a task is, and what its place rules out.            *)
THEOREM DeliveryInvariance == Spec => []DeliveryInvariant
  BY DeliveryInit, DeliveryStep, PTL DEF Spec

----------------------------------------------------------------------------
(* Every step is a step of the channel, or none at all.  The channel's log  *)
(* of a task is what was emitted, so what the log holds is known from the   *)
(* statuses and the outputs of that sequence.                               *)

LEMMA LogStatuses ==
  ASSUME NEW t \in Tasks, NEW kinds, kinds \cap OutputKinds = {}, emitted[t] \in Seq(Event)
  PROVE  Channel!Has(t, kinds) <=> kinds \cap Statuses(emitted[t]) # {}
  BY DEF Channel!Has, Statuses

LEMMA LogOutputs ==
  ASSUME NEW t \in Tasks, NEW i \in 1..Len(emitted[t])
  PROVE  /\ emitted[t][i].kind \in Channel!Chunks <=> IsOutput(emitted[t][i])
         /\ IsOutput(emitted[t][i]) => emitted[t][i].seq \in Outs(emitted[t])
  BY DEF Channel!Chunks, IsOutput, OutputKinds, Outs

(* The two modules count with the same operator.                            *)
LEMMA SameCount ==
  ASSUME NEW S
  PROVE  Channel!Cardinality(S) = Cardinality(S)
  BY DEF Channel!Cardinality, Cardinality

(* The next chunk of a batch has its place in the window already, so the    *)
(* chunks before it leave that place free.                                  *)
LEMMA RoomForOne ==
  ASSUME NEW t \in Tasks, NEW n \in Nat, AckRequired,
         emitted[t] \in Seq(Event), lastAck[t] \in Nat,
         Sorted(emitted[t]), Outs(emitted[t]) \subseteq 1..lastAck[t] \cup outstanding[t],
         n \in outstanding[t], Below(Outs(emitted[t]), {n}),
         IsFiniteSet(outstanding[t]), Cardinality(outstanding[t]) <= Window
  PROVE  Cardinality(Channel!Unconsumed(t)) < Window
  <1> DEFINE U == Channel!Unconsumed(t)
             g == [i \in U |-> emitted[t][i].seq]
             rest == outstanding[t] \ {n}
  <1>1. /\ U \subseteq 1..Len(emitted[t])
        /\ \A i \in U : /\ IsOutput(emitted[t][i])
                        /\ emitted[t][i].seq \in Outs(emitted[t])
                        /\ emitted[t][i].seq > lastAck[t]
    BY LogOutputs DEF Channel!Unconsumed
  <1> HIDE DEF U
  <1>2. \A i \in U : emitted[t][i].seq \in rest
    <2> SUFFICES ASSUME NEW i \in U PROVE emitted[t][i].seq \in rest
      OBVIOUS
    <2>1. emitted[t][i].seq \in outstanding[t]
      BY <1>1
    <2>2. emitted[t][i].seq < n
      BY <1>1 DEF Below
    <2> QED BY <2>1, <2>2
  <1>3. \A i, j \in U : i # j => emitted[t][i].seq # emitted[t][j].seq
    <2> SUFFICES ASSUME NEW i \in U, NEW j \in U, i # j
                 PROVE  emitted[t][i].seq # emitted[t][j].seq
      OBVIOUS
    <2>1. i \in 1..Len(emitted[t]) /\ j \in 1..Len(emitted[t]) /\ (i < j \/ j < i)
      BY <1>1
    <2>2. emitted[t][i] \in Event /\ emitted[t][j] \in Event
      BY <2>1, ElementOfSeq
    <2>3. emitted[t][i].seq \in Nat /\ emitted[t][j].seq \in Nat
      BY <2>2 DEF Event
    <2>4. i < j => emitted[t][i].seq < emitted[t][j].seq
      BY <1>1, <2>1 DEF Sorted
    <2>5. j < i => emitted[t][j].seq < emitted[t][i].seq
      BY <1>1, <2>1 DEF Sorted
    <2> QED BY <2>1, <2>3, <2>4, <2>5
  <1>4. g \in Injection(U, rest)
    BY <1>2, <1>3 DEF Injection, IsInjective
  <1>5. IsFiniteSet(rest) /\ Cardinality(rest) = Cardinality(outstanding[t]) - 1
    BY FS_RemoveElement
  <1>6. Cardinality(U) <= Cardinality(rest)
    <2> HIDE DEF g, rest
    <2> QED BY <1>4, <1>5, FS_Injection
  <1>7. Cardinality(U) \in Nat /\ Cardinality(outstanding[t]) \in Nat /\ Window \in Nat
    <2>1. IsFiniteSet(U)
      <3>1. IsFiniteSet(1..Len(emitted[t]))
        BY FS_Interval, LenProperties
      <3> QED BY <1>1, <3>1, FS_Subset
    <2> QED BY <2>1, FS_CardinalityType, BoundsAssumption
  <1> QED BY <1>5, <1>6, <1>7 DEF U

(* The pumps and the renderer.                                              *)
LEMMA PublishProduces ==
  ASSUME DeliveryInvariant, NEW t \in Tasks, NEW kind \in OutputKinds, publish(t, kind)
  PROVE  Channel!Produce(t)
  <1>1. /\ phase[t] # "Terminal"
        /\ outputSeq' = [outputSeq EXCEPT ![t] = outputSeq[t] + 1]
        /\ UNCHANGED <<lastAck, emitted>>
    BY DEF publish
  <1>2. LedgerAt(t) /\ emitted[t] \in Seq(Event)
    BY DeliveryFacts DEF TaskOK
  <1>3. {"terminal"} \cap Statuses(emitted[t]) = {}
    BY <1>1, <1>2 DEF LedgerAt, Ledger, FinalKinds
  <1>4. ~Channel!Has(t, {"terminal"})
    BY <1>2, <1>3, LogStatuses DEF OutputKinds
  <1> QED BY <1>1, <1>4 DEF Channel!Produce

LEMMA AcknowledgeConsumes ==
  ASSUME DeliveryInvariant, NEW t \in Tasks, NEW s \in 1..MaxOutputs[t], acknowledge_output(t, s)
  PROVE  Channel!Consume(t)
  <1>0. BatchHeld /\ WindowAt(t)
    BY DeliveryFacts DEF TaskOK
  <1>1. /\ OrderFree /\ s > lastAck[t] /\ s \in outstanding[t]
        /\ lastAck' = [lastAck EXCEPT ![t] = s] /\ UNCHANGED <<outputSeq, emitted>>
    BY DEF acknowledge_output, Acknowledgeable
  <1>2. s \in Outs(emitted[t])
    <2>1. Batch(t) = <<>> /\ Outs(<<>>) = {}
      BY <1>0, <1>1, NoBatch, EmptyOuts
    <2> QED BY <1>0, <1>1, <2>1 DEF WindowAt, InWindow
  <1>3. PICK i \in 1..Len(emitted[t]) : IsOutput(emitted[t][i]) /\ emitted[t][i].seq = s
    BY <1>2 DEF Outs
  <1>4. emitted[t][i].kind \in Channel!Chunks
    BY <1>3, LogOutputs
  <1> QED BY <1>1, <1>3, <1>4 DEF Channel!Consume

(* What a sink that acknowledges has consumed, and what the log then holds. *)
LEMMA AllConsumed ==
  ASSUME NEW t \in Tasks, TaskOrderAt(t), outstanding[t] = {}
  PROVE  AckRequired => \A i \in 1..Len(emitted[t]) :
             emitted[t][i].kind \in Channel!Chunks => emitted[t][i].seq <= lastAck[t]
  <1> SUFFICES ASSUME AckRequired, NEW i \in 1..Len(emitted[t]),
                      emitted[t][i].kind \in Channel!Chunks
               PROVE  emitted[t][i].seq <= lastAck[t]
    OBVIOUS
  <1>1. emitted[t][i].seq \in Outs(emitted[t])
    BY LogOutputs
  <1>2. Outs(emitted[t]) \subseteq 1..lastAck[t]
    BY DEF TaskOrderAt, TaskOrder
  <1> QED BY <1>1, <1>2

(* The holder hands over the next event of its batch.                       *)
LEMMA EmitHands ==
  ASSUME DeliveryInvariant, emit_queued_event
  PROVE  Channel!ChannelNext
  <1>0. /\ Shape /\ BatchHeld
        /\ \A x \in Tasks : TaskOrderAt(x) /\ TaskOK(x)
    BY DeliveryFacts
  <1>1. PICK t \in Tasks : t = order.task
    BY <1>0 DEF Shape, OrderState
  <1> DEFINE e == Head(Batch(t))
  <1>2. /\ Batch(t) # <<>> /\ emitted' = [emitted EXCEPT ![t] = Append(emitted[t], e)]
        /\ UNCHANGED <<outputSeq, lastAck>>
    BY <1>1 DEF emit_queued_event, Batch, entryVars
  <1>3. /\ emitted[t] \in Seq(Event) /\ Batch(t) \in Seq(Event)
        /\ lastAck[t] \in Nat /\ outputSeq[t] \in Nat /\ LedgerAt(t) /\ WindowAt(t)
    BY <1>0, DeliveryFacts DEF TaskOK
  <1>4. e \in Event /\ e = [kind |-> e.kind, seq |-> e.seq]
    <2>1. e \in Event
      BY <1>2, <1>3, TailOuts
    <2> HIDE DEF e
    <2> QED BY <2>1 DEF Event
  <1>5. /\ Statuses(Batch(t)) = Statuses(Tail(Batch(t))) \cup StatusOf(e)
        /\ Numbered(e)
        /\ e.kind = "terminal" => Tail(Batch(t)) = <<>>
        /\ Outs(Batch(t)) = Outs(Tail(Batch(t))) \cup (IF IsOutput(e) THEN {e.seq} ELSE {})
    BY <1>2, <1>3, TailTidy, TailOuts DEF LedgerAt, Ledger
  <1> HIDE DEF e
  <1>6. Channel!Hand(t, [kind |-> e.kind, seq |-> e.seq])
    BY <1>2, <1>4 DEF Channel!Hand
  <1>7. "terminal" \notin Statuses(emitted[t])
    BY <1>2, <1>3 DEF LedgerAt, Ledger
  <1>8. ~Channel!Has(t, {"terminal"})
    BY <1>3, <1>7, LogStatuses DEF OutputKinds
  <1>9. CASE IsOutput(e)
    <2>1. e.seq \in Outs(Batch(t)) /\ e.seq \in Nat
      BY <1>4, <1>5, <1>9 DEF Event
    <2>2. /\ Sorted(emitted[t]) /\ Below(Outs(emitted[t]), {e.seq}) /\ e.seq \in 1..outputSeq[t]
          /\ AckRequired => /\ Outs(emitted[t]) \subseteq 1..lastAck[t] \cup outstanding[t]
                            /\ e.seq \in 1..lastAck[t] \cup outstanding[t]
      BY <1>0, <2>1 DEF TaskOrderAt, TaskOrder, Below
    <2>3. \A i \in 1..Len(emitted[t]) :
             emitted[t][i].kind \in Channel!Chunks => emitted[t][i].seq < e.seq
      BY <2>2, LogOutputs DEF Below
    <2>4. lastAck[t] < e.seq /\ IsFiniteSet(outstanding[t])
          /\ (AckRequired => Cardinality(outstanding[t]) <= Window)
      BY <1>3, <2>1 DEF WindowAt, InWindow, Below
    <2>5. AckRequired => e.seq \in outstanding[t]
      BY <1>3, <2>1, <2>2, <2>4
    <2>6. AckRequired => Cardinality(Channel!Unconsumed(t)) < Window
      BY <1>3, <2>1, <2>2, <2>4, <2>5, RoomForOne
    <2>7. Channel!HandChunk(t, e.kind, e.seq)
      BY <1>6, <1>8, <2>3, <2>6, SameCount DEF Channel!HandChunk
    <2>8. e.kind \in Channel!Chunks
      BY <1>9 DEF IsOutput, OutputKinds, Channel!Chunks
    <2> QED BY <2>2, <2>7, <2>8 DEF Channel!ChannelNext
  <1>10. CASE ~IsOutput(e)
    <2>0. /\ e.kind \in {"running", "terminal", "lost"} /\ e.kind \in Statuses(Batch(t))
          /\ e.kind \notin Statuses(emitted[t])
      <3>1. e.kind \in {"running", "terminal", "lost"}
        BY <1>4, <1>10 DEF Event, IsOutput, OutputKinds, FinalKinds
      <3>2. e.kind \in Statuses(Batch(t))
        BY <1>5, <1>10 DEF StatusOf
      <3> QED BY <1>3, <3>1, <3>2 DEF LedgerAt, Ledger
    <2>1. CASE e.kind = "running"
      <3>1. ~Channel!Has(t, {"running", "terminal"})
        BY <1>3, <1>7, <2>0, <2>1, LogStatuses DEF OutputKinds
      <3>2. e.seq = 1
        BY <1>5, <2>1 DEF Numbered
      <3>3. Channel!Hand(t, [kind |-> "running", seq |-> 1])
        BY <1>6, <2>1, <3>2
      <3>4. Channel!HandRunning(t)
        BY <3>1, <3>3 DEF Channel!HandRunning
      <3> QED BY <3>4 DEF Channel!ChannelNext
    <2>2. CASE e.kind = "terminal"
      <3>1. /\ queued[t] = <<>> /\ outstanding[t] = {} /\ "lost" \notin Statuses(emitted[t])
            /\ phase[t] # "Pending"
        BY <1>3, <2>0, <2>2, EmptyTidy DEF LedgerAt, Ledger
      <3>2. ~Channel!Has(t, Channel!Finals)
        BY <1>3, <1>7, <3>1, LogStatuses DEF OutputKinds, Channel!Finals
      <3>3. Statuses(Batch(t)) = {"terminal"}
        BY <1>5, <1>10, <2>2, EmptyTidy DEF StatusOf
      <3>4. "running" \in Statuses(emitted[t])
        BY <1>3, <3>1, <3>3, EmptyTidy DEF LedgerAt, Ledger
      <3>5. Channel!Has(t, {"running"})
        BY <1>3, <3>4, LogStatuses DEF OutputKinds
      <3>6. AckRequired => \A i \in 1..Len(emitted[t]) :
               emitted[t][i].kind \in Channel!Chunks => emitted[t][i].seq <= lastAck[t]
        BY <1>0, <3>1, AllConsumed
      <3>7. e.seq = 2
        BY <1>5, <2>2 DEF Numbered
      <3>8. Channel!Hand(t, [kind |-> "terminal", seq |-> 2])
        BY <1>6, <2>2, <3>7
      <3>9. Channel!HandTerminal(t)
        BY <3>2, <3>5, <3>6, <3>8 DEF Channel!HandTerminal
      <3> QED BY <3>9 DEF Channel!ChannelNext
    <2>3. CASE e.kind = "lost"
      <3>1. ~Channel!Has(t, Channel!Finals)
        BY <1>3, <1>7, <2>0, <2>3, LogStatuses DEF OutputKinds, Channel!Finals
      <3>2. e.seq = 3
        BY <1>5, <2>3 DEF Numbered
      <3>3. Channel!Hand(t, [kind |-> "lost", seq |-> 3])
        BY <1>6, <2>3, <3>2
      <3>4. Channel!HandLost(t)
        BY <3>1, <3>3 DEF Channel!HandLost
      <3> QED BY <3>4 DEF Channel!ChannelNext
    <2> QED BY <2>0, <2>1, <2>2, <2>3
  <1> QED BY <1>9, <1>10

(* The waiters hand over what their own steps say.                          *)
LEMMA ExpiredHands ==
  ASSUME DeliveryInvariant, NEW t \in Tasks, NEW x \in Tasks, emit_expired(t, x)
  PROVE  Channel!HandLost(x)
  <1>0. emitted[x] \in Seq(Event) /\ LedgerAt(x) /\ Counted(x)
    BY DeliveryFacts DEF TaskOK
  <1>1. /\ x \in expiring[t]
        /\ emitted' = [emitted EXCEPT ![x] = Append(emitted[x],
                                                    [kind |-> "lost", seq |-> statusSeq[x] + 1])]
        /\ UNCHANGED <<outputSeq, lastAck>>
    BY DEF emit_expired, entryVars
  <1>2. Expirers(x) # {}
    BY <1>1 DEF Expirers
  <1>3. /\ phase[x] = "Terminal" /\ "lost" \notin Statuses(emitted[x])
        /\ "terminal" \notin Statuses(emitted[x])
    BY <1>0, <1>2 DEF LedgerAt, Ledger
  <1>4. ~Channel!Has(x, Channel!Finals)
    BY <1>0, <1>3, LogStatuses DEF OutputKinds, Channel!Finals
  <1>5. statusSeq[x] + 1 = 3
    BY <1>0, <1>3 DEF Counted
  <1>6. Channel!Hand(x, [kind |-> "lost", seq |-> 3])
    BY <1>1, <1>5 DEF Channel!Hand
  <1> QED BY <1>4, <1>6 DEF Channel!HandLost

LEMMA DirectHands ==
  ASSUME DeliveryInvariant, NEW t \in Tasks, emit_direct(t)
  PROVE  Channel!HandTerminal(t)
  <1>0. emitted[t] \in Seq(Event) /\ LedgerAt(t) /\ Counted(t) /\ TaskOrderAt(t)
    BY DeliveryFacts DEF TaskOK
  <1>1. /\ waiter[t] = "direct"
        /\ emitted' = [emitted EXCEPT ![t] = Append(emitted[t],
                                                    [kind |-> "terminal", seq |-> statusSeq[t]])]
        /\ UNCHANGED <<outputSeq, lastAck>>
    BY DEF emit_direct, entryVars
  <1>2. /\ phase[t] = "Terminal" /\ Batch(t) = <<>> /\ queued[t] = <<>> /\ outstanding[t] = {}
        /\ "terminal" \notin Statuses(emitted[t])
    BY <1>0, <1>1 DEF LedgerAt, Ledger
  <1>3. "running" \in Statuses(emitted[t]) /\ "lost" \notin Statuses(emitted[t])
    BY <1>0, <1>2, EmptyTidy DEF LedgerAt, Ledger
  <1>4. ~Channel!Has(t, Channel!Finals)
    BY <1>0, <1>2, <1>3, LogStatuses DEF OutputKinds, Channel!Finals
  <1>5. Channel!Has(t, {"running"})
    BY <1>0, <1>3, LogStatuses DEF OutputKinds
  <1>6. AckRequired => \A i \in 1..Len(emitted[t]) :
           emitted[t][i].kind \in Channel!Chunks => emitted[t][i].seq <= lastAck[t]
    BY <1>0, <1>2, AllConsumed
  <1>7. statusSeq[t] = 2
    BY <1>0, <1>2 DEF Counted
  <1>8. Channel!Hand(t, [kind |-> "terminal", seq |-> 2])
    BY <1>1, <1>7 DEF Channel!Hand
  <1> QED BY <1>4, <1>5, <1>6, <1>8 DEF Channel!HandTerminal

(* All other steps are invisible to the sink.                               *)
LEMMA ChannelStep ==
  ASSUME DeliveryInvariant, [Next]_vars
  PROVE  [Channel!ChannelNext]_(Channel!channel)
  <1> DEFINE quiet == UNCHANGED <<outputSeq, lastAck, emitted>>
  <1>1. ASSUME Holder PROVE Channel!ChannelNext \/ quiet
    <2>1. CASE emit_queued_event
      BY <2>1, EmitHands
    <2>2. CASE finish_batch
      BY <2>2 DEF finish_batch, entryVars
    <2>3. CASE drain_acknowledgement
      BY <2>3 DEF drain_acknowledgement, entryVars
    <2> QED BY <1>1, <2>1, <2>2, <2>3 DEF Holder
  <1>2. ASSUME NEW t \in Tasks, Waiter(t) PROVE Channel!ChannelNext \/ quiet
    <2>1. CASE \E x \in Tasks : emit_expired(t, x)
      BY <2>1, ExpiredHands DEF Channel!ChannelNext
    <2>2. CASE emit_direct(t)
      BY <2>2, DirectHands DEF Channel!ChannelNext
    <2>3. CASE \/ complete(t) \/ complete_drain(t) \/ poll_delivered(t) \/ poll_deadline(t)
               \/ interrupt_delivery(t)
      BY <2>3 DEF complete, complete_drain, poll_delivered, poll_deadline, interrupt_delivery,
                  entryVars
    <2> QED BY <1>2, <2>1, <2>2, <2>3 DEF Waiter
  <1>3. ASSUME NEW t \in Tasks,
               \/ start(t) \/ commit_start(t) \/ abandon_start(t) \/ acknowledge(t)
        PROVE  quiet
    BY <1>3 DEF start, commit_start, abandon_start, acknowledge, entryVars
  <1>4. ASSUME NEW t \in Tasks, NEW kind \in OutputKinds, publish(t, kind)
        PROVE  Channel!ChannelNext
    BY <1>4, PublishProduces DEF Channel!ChannelNext
  <1>5. ASSUME NEW t \in Tasks, NEW s \in 1..MaxOutputs[t], acknowledge_output(t, s)
        PROVE  Channel!ChannelNext
    BY <1>5, AcknowledgeConsumes DEF Channel!ChannelNext
  <1>6. ASSUME UNCHANGED vars PROVE quiet
    BY <1>6 DEF vars, entryVars
  <1> HIDE DEF quiet
  <1>7. Channel!ChannelNext \/ quiet
    BY <1>1, <1>2, <1>3, <1>4, <1>5, <1>6 DEF Next
  <1> QED BY <1>7 DEF quiet, Channel!channel

(* For every set of tasks, every ring, window and number of retained        *)
(* terminal entries, and for both kinds of sink, what publish, acknowledge, *)
(* complete and the holders of output_emission_order hand to the sink is    *)
(* what TaskEventChannel promises it.                                       *)
THEOREM DeliveryImplementsChannel == Spec => Channel!ChannelSpec
  <1>1. Init => Channel!ChannelInit
    BY DEF Init, Channel!ChannelInit
  <1>2. DeliveryInvariant /\ [Next]_vars => [Channel!ChannelNext]_(Channel!channel)
    BY ChannelStep
  <1> QED BY <1>1, <1>2, DeliveryInvariance, PTL DEF Spec, Channel!ChannelSpec
=============================================================================
