------------------------- MODULE WorkspaceTrustProofs -------------------------
(****************************************************************************)
(* Proofs about WorkspaceTrust for every set of roots and launches and any  *)
(* limit of the revoked list.  First what the operations of that list do,   *)
(* with the fact the undoing of a failed save relies on: each is put back   *)
(* exactly as it was.  Then the inductive invariant, a conjunction of       *)
(* layers: the state and its copy on disk, the launches a revocation        *)
(* overtook, the agents it must stop, and the folders a clone made.         *)
(****************************************************************************)
EXTENDS WorkspaceTrust, SequenceTheorems, FiniteSetTheorems, TLAPS

----------------------------------------------------------------------------
(* The list of revoked roots.                                               *)

Distinct(s) == \A i, j \in 1..Len(s) : s[i] = s[j] => i = j

(* Where a member is found.                                                 *)
LEMMA Position ==
  ASSUME NEW s, NEW r, Contains(s, r)
  PROVE  PositionOf(s, r) \in 1..Len(s) /\ s[PositionOf(s, r)] = r
  BY DEF Contains, PositionOf

(* Taking out what is at a position.                                        *)
LEMMA Removed ==
  ASSUME NEW s \in Seq(Roots), NEW p \in 1..Len(s)
  PROVE  /\ RemoveAt(s, p) \in Seq(Roots)
         /\ Len(RemoveAt(s, p)) = Len(s) - 1
         /\ \A i \in 1..Len(s) - 1 :
              RemoveAt(s, p)[i] = IF i < p THEN s[i] ELSE s[i + 1]
  <1> DEFINE a == SubSeq(s, 1, p - 1)
             c == SubSeq(s, p + 1, Len(s))
  <1>0. Len(s) \in Nat /\ p \in Nat /\ 1 <= p /\ p <= Len(s)
        /\ \A i \in 1..Len(s) : s[i] \in Roots
    BY LenProperties, ElementOfSeq
  <1>1. /\ a \in Seq(Roots) /\ Len(a) = p - 1
        /\ \A i \in 1..(p - 1) : a[i] = s[i]
    <2>1. \A i \in 1..(p - 1) : s[i] \in Roots
      BY <1>0
    <2>2. /\ a \in Seq(Roots)
          /\ Len(a) = IF 1 <= p - 1 THEN (p - 1) - 1 + 1 ELSE 0
          /\ \A i \in 1..((p - 1) - 1 + 1) : a[i] = s[1 + i - 1]
      BY <1>0, <2>1, SubSeqProperties
    <2> QED BY <1>0, <2>2
  <1>2. /\ c \in Seq(Roots) /\ Len(c) = Len(s) - p
        /\ \A i \in 1..(Len(s) - p) : c[i] = s[p + i]
    <2>1. \A i \in (p + 1)..Len(s) : s[i] \in Roots
      BY <1>0
    <2>2. /\ c \in Seq(Roots)
          /\ Len(c) = IF p + 1 <= Len(s) THEN Len(s) - (p + 1) + 1 ELSE 0
          /\ \A i \in 1..(Len(s) - (p + 1) + 1) : c[i] = s[(p + 1) + i - 1]
      BY <1>0, <2>1, SubSeqProperties
    <2> QED BY <1>0, <2>2
  <1> HIDE DEF a, c
  <1>3. /\ a \o c \in Seq(Roots)
        /\ Len(a \o c) = Len(a) + Len(c)
        /\ \A i \in 1..(Len(a) + Len(c)) :
              (a \o c)[i] = IF i <= Len(a) THEN a[i] ELSE c[i - Len(a)]
    BY <1>1, <1>2, ConcatProperties
  <1>4. Len(a \o c) = Len(s) - 1
    BY <1>0, <1>1, <1>2, <1>3
  <1>5. ASSUME NEW i \in 1..Len(s) - 1
        PROVE  (a \o c)[i] = IF i < p THEN s[i] ELSE s[i + 1]
    <2>0. i \in 1..(Len(a) + Len(c))
      BY <1>0, <1>1, <1>2
    <2>1. CASE i < p
      <3>1. i \in 1..(p - 1) /\ i <= Len(a)
        BY <1>0, <1>1, <2>1
      <3> QED BY <1>1, <1>3, <2>0, <2>1, <3>1
    <2>2. CASE ~(i < p)
      <3>1. ~(i <= Len(a)) /\ i - Len(a) = i - p + 1
        BY <1>0, <1>1, <2>2
      <3>2. i - p + 1 \in 1..(Len(s) - p) /\ p + (i - p + 1) = i + 1
        BY <1>0, <2>2
      <3> QED BY <1>2, <1>3, <2>0, <2>2, <3>1, <3>2
    <2> QED BY <2>1, <2>2
  <1> QED BY <1>3, <1>4, <1>5 DEF RemoveAt, a, c

(* Putting something in at a position.                                      *)
LEMMA Placed ==
  ASSUME NEW s \in Seq(Roots), NEW p \in 1..Len(s) + 1, NEW r \in Roots
  PROVE  /\ InsertAt(s, p, r) \in Seq(Roots)
         /\ Len(InsertAt(s, p, r)) = Len(s) + 1
         /\ \A i \in 1..Len(s) + 1 :
              InsertAt(s, p, r)[i] =
                IF i < p THEN s[i] ELSE IF i = p THEN r ELSE s[i - 1]
  <1> DEFINE a == SubSeq(s, 1, p - 1)
             b == <<r>>
             c == SubSeq(s, p, Len(s))
  <1>0. Len(s) \in Nat /\ p \in Nat /\ 1 <= p /\ p <= Len(s) + 1
        /\ \A i \in 1..Len(s) : s[i] \in Roots
    BY LenProperties, ElementOfSeq
  <1>1. /\ a \in Seq(Roots) /\ Len(a) = p - 1
        /\ \A i \in 1..(p - 1) : a[i] = s[i]
    <2>1. \A i \in 1..(p - 1) : s[i] \in Roots
      BY <1>0
    <2>2. /\ a \in Seq(Roots)
          /\ Len(a) = IF 1 <= p - 1 THEN (p - 1) - 1 + 1 ELSE 0
          /\ \A i \in 1..((p - 1) - 1 + 1) : a[i] = s[1 + i - 1]
      BY <1>0, <2>1, SubSeqProperties
    <2> QED BY <1>0, <2>2
  <1>2. /\ c \in Seq(Roots) /\ Len(c) = Len(s) - p + 1
        /\ \A i \in 1..(Len(s) - p + 1) : c[i] = s[p + i - 1]
    <2>1. \A i \in p..Len(s) : s[i] \in Roots
      BY <1>0
    <2>2. /\ c \in Seq(Roots)
          /\ Len(c) = IF p <= Len(s) THEN Len(s) - p + 1 ELSE 0
          /\ \A i \in 1..(Len(s) - p + 1) : c[i] = s[p + i - 1]
      BY <1>0, <2>1, SubSeqProperties
    <2> QED BY <1>0, <2>2
  <1>3. b \in Seq(Roots) /\ Len(b) = 1 /\ b[1] = r
    OBVIOUS
  <1> HIDE DEF a, b, c
  <1> DEFINE ab == a \o b
  <1>4. /\ ab \in Seq(Roots) /\ Len(ab) = p
        /\ \A i \in 1..p : ab[i] = IF i < p THEN s[i] ELSE r
    <2>1. /\ ab \in Seq(Roots)
          /\ Len(ab) = Len(a) + Len(b)
          /\ \A i \in 1..(Len(a) + Len(b)) :
                ab[i] = IF i <= Len(a) THEN a[i] ELSE b[i - Len(a)]
      BY <1>1, <1>3, ConcatProperties
    <2> HIDE DEF ab
    <2>2. Len(a) + Len(b) = p
      BY <1>0, <1>1, <1>3
    <2>3. ASSUME NEW i \in 1..p PROVE ab[i] = IF i < p THEN s[i] ELSE r
      <3>1. CASE i < p
        <4>1. i \in 1..(p - 1) /\ i <= Len(a)
          BY <1>0, <1>1, <3>1
        <4> QED BY <1>1, <2>1, <2>2, <3>1, <4>1
      <3>2. CASE ~(i < p)
        <4>1. ~(i <= Len(a)) /\ i - Len(a) = 1
          BY <1>0, <1>1, <3>2
        <4> QED BY <1>3, <2>1, <2>2, <3>2, <4>1
      <3> QED BY <3>1, <3>2
    <2> QED BY <2>1, <2>2, <2>3
  <1> HIDE DEF ab
  <1>5. /\ ab \o c \in Seq(Roots)
        /\ Len(ab \o c) = Len(ab) + Len(c)
        /\ \A i \in 1..(Len(ab) + Len(c)) :
              (ab \o c)[i] = IF i <= Len(ab) THEN ab[i] ELSE c[i - Len(ab)]
    BY <1>2, <1>4, ConcatProperties
  <1>6. Len(ab) + Len(c) = Len(s) + 1
    BY <1>0, <1>2, <1>4
  <1>7. ASSUME NEW i \in 1..Len(s) + 1
        PROVE  (ab \o c)[i] = IF i < p THEN s[i] ELSE IF i = p THEN r ELSE s[i - 1]
    <2>1. CASE i <= p
      <3>1. i \in 1..p /\ i <= Len(ab)
        BY <1>0, <1>4, <2>1
      <3>2. (ab \o c)[i] = ab[i]
        BY <1>5, <1>6, <3>1
      <3> QED BY <1>0, <1>4, <2>1, <3>1, <3>2
    <2>2. CASE ~(i <= p)
      <3>1. ~(i <= Len(ab)) /\ i - Len(ab) = i - p
        BY <1>0, <1>4, <2>2
      <3>2. i - p \in 1..(Len(s) - p + 1) /\ p + (i - p) - 1 = i - 1
        BY <1>0, <2>2
      <3>3. (ab \o c)[i] = c[i - p]
        BY <1>5, <1>6, <3>1
      <3>4. c[i - p] = s[i - 1]
        BY <1>2, <3>2
      <3> QED BY <1>0, <2>2, <3>3, <3>4
    <2> QED BY <2>1, <2>2
  <1>8. InsertAt(s, p, r) = ab \o c
    BY DEF InsertAt, ab, a, b, c
  <1> QED BY <1>5, <1>6, <1>7, <1>8

(* What was taken out goes back where it was.                               *)
LEMMA PutBack ==
  ASSUME NEW s \in Seq(Roots), NEW p \in 1..Len(s)
  PROVE  InsertAt(RemoveAt(s, p), p, s[p]) = s
  <1> DEFINE e == s[p]
             w == RemoveAt(s, p)
             t == InsertAt(w, p, e)
  <1>0. Len(s) \in Nat /\ p \in Nat /\ 1 <= p /\ p <= Len(s) /\ e \in Roots
    <2>1. e \in Roots
      BY ElementOfSeq
    <2> QED BY <2>1, LenProperties
  <1>1. /\ w \in Seq(Roots) /\ Len(w) = Len(s) - 1
        /\ \A i \in 1..Len(s) - 1 : w[i] = IF i < p THEN s[i] ELSE s[i + 1]
    BY Removed
  <1> HIDE DEF w, e
  <1>2. p \in 1..Len(w) + 1
    BY <1>0, <1>1
  <1>3. /\ t \in Seq(Roots) /\ Len(t) = Len(w) + 1
        /\ \A i \in 1..Len(w) + 1 :
             t[i] = IF i < p THEN w[i] ELSE IF i = p THEN e ELSE w[i - 1]
    BY <1>0, <1>1, <1>2, Placed
  <1> HIDE DEF t
  <1>4. Len(t) = Len(s)
    BY <1>0, <1>1, <1>3
  <1>5. ASSUME NEW i \in 1..Len(t) PROVE t[i] = s[i]
    <2>0. i \in 1..Len(w) + 1
      BY <1>3
    <2>1. CASE i < p
      <3>1. i \in 1..Len(s) - 1
        BY <1>0, <1>4, <2>1
      <3> QED BY <1>1, <1>3, <2>0, <2>1, <3>1
    <2>2. CASE i = p
      BY <1>0, <1>1, <1>3, <1>4, <2>2 DEF e
    <2>3. CASE i > p
      <3>1. i - 1 \in 1..Len(s) - 1 /\ ~(i - 1 < p) /\ (i - 1) + 1 = i
        BY <1>0, <1>4, <2>3
      <3>2. t[i] = w[i - 1]
        BY <1>0, <1>3, <2>3
      <3> QED BY <1>1, <3>1, <3>2
    <2> QED BY <1>0, <2>1, <2>2, <2>3
  <1> QED BY <1>3, <1>4, <1>5, SeqEqual DEF t, w, e

(* The list of revoked roots as the operations keep it.                     *)
RevokedList == {s \in Seq(Roots) : Len(s) <= MaxRevoked /\ Distinct(s)}

(* A root that is taken out is gone, and nothing else is.                   *)
LEMMA WithoutIt ==
  ASSUME NEW s \in Seq(Roots), Distinct(s), NEW r \in Roots
  PROVE  /\ Without(s, r) \in Seq(Roots)
         /\ Distinct(Without(s, r))
         /\ ~Contains(Without(s, r), r)
         /\ \A x : Contains(Without(s, r), x) => Contains(s, x)
         /\ Len(Without(s, r)) = IF Contains(s, r) THEN Len(s) - 1 ELSE Len(s)
  <1>1. CASE ~Contains(s, r)
    BY <1>1 DEF Without
  <1>2. CASE Contains(s, r)
    <2> DEFINE p == PositionOf(s, r)
               w == RemoveAt(s, p)
    <2>0. Without(s, r) = w
      BY <1>2 DEF Without
    <2>1. p \in 1..Len(s) /\ s[p] = r /\ Len(s) \in Nat
      BY <1>2, Position, LenProperties
    <2> HIDE DEF p
    <2>2. /\ w \in Seq(Roots) /\ Len(w) = Len(s) - 1
          /\ \A i \in 1..Len(s) - 1 : w[i] = IF i < p THEN s[i] ELSE s[i + 1]
      BY <2>1, Removed
    <2> HIDE DEF w
    <2> DEFINE At(i) == IF i < p THEN i ELSE i + 1
    <2>3. ASSUME NEW i \in 1..Len(w)
          PROVE  At(i) \in 1..Len(s) /\ At(i) # p /\ w[i] = s[At(i)]
      BY <2>1, <2>2
    <2>4. ASSUME NEW i \in 1..Len(w), NEW j \in 1..Len(w), w[i] = w[j]
          PROVE  i = j
      <3>1. At(i) \in 1..Len(s) /\ w[i] = s[At(i)]
        BY <2>3
      <3>2. At(j) \in 1..Len(s) /\ w[j] = s[At(j)]
        BY <2>3
      <3>3. At(i) = At(j)
        <4> HIDE DEF At
        <4> QED BY <2>4, <3>1, <3>2 DEF Distinct
      <3> QED BY <2>1, <2>2, <3>3
    <2>5. Distinct(w)
      BY <2>4 DEF Distinct
    <2>6. ~Contains(w, r)
      <3> SUFFICES ASSUME NEW i \in 1..Len(w), w[i] = r PROVE FALSE
        BY DEF Contains
      <3>1. At(i) \in 1..Len(s) /\ At(i) # p /\ s[At(i)] = s[p]
        BY <2>1, <2>3
      <3> HIDE DEF At
      <3> QED BY <2>1, <3>1 DEF Distinct
    <2>7. \A x : Contains(w, x) => Contains(s, x)
      <3> HIDE DEF At
      <3> QED BY <2>3 DEF Contains
    <2> QED BY <1>2, <2>0, <2>2, <2>5, <2>6, <2>7
  <1> QED BY <1>1, <1>2

(* A root that is not there goes to the end, and comes out again.           *)
LEMMA Appended ==
  ASSUME NEW s \in Seq(Roots), Distinct(s), NEW r \in Roots, ~Contains(s, r)
  PROVE  /\ Append(s, r) \in Seq(Roots)
         /\ Len(Append(s, r)) = Len(s) + 1
         /\ Distinct(Append(s, r))
         /\ Contains(Append(s, r), r)
         /\ \A x : Contains(Append(s, r), x) => Contains(s, x) \/ x = r
         /\ Without(Append(s, r), r) = s
  <1> DEFINE t == Append(s, r)
  <1>0. Len(s) \in Nat
    BY LenProperties
  <1>1. /\ t \in Seq(Roots) /\ Len(t) = Len(s) + 1
        /\ \A i \in 1..Len(s) : t[i] = s[i]
        /\ t[Len(s) + 1] = r
    BY AppendProperties
  <1> HIDE DEF t
  <1>2. \A i \in 1..Len(t) : i \in 1..Len(s) \/ i = Len(s) + 1
    BY <1>0, <1>1
  <1>3. \A i \in 1..Len(s) : s[i] # r
    BY DEF Contains
  <1>4. Distinct(t)
    <2> SUFFICES ASSUME NEW i \in 1..Len(t), NEW j \in 1..Len(t), t[i] = t[j]
                 PROVE  i = j
      BY DEF Distinct
    <2>1. CASE i \in 1..Len(s) /\ j \in 1..Len(s)
      BY <1>1, <2>1 DEF Distinct
    <2>2. CASE i = Len(s) + 1 \/ j = Len(s) + 1
      BY <1>1, <1>2, <1>3, <2>2
    <2> QED BY <1>2, <2>1, <2>2
  <1>5. Contains(t, r)
    <2>1. Len(s) + 1 \in 1..Len(t)
      BY <1>0, <1>1
    <2> QED BY <1>1, <2>1 DEF Contains
  <1>6. \A x : Contains(t, x) => Contains(s, x) \/ x = r
    BY <1>1, <1>2 DEF Contains
  <1>7. Without(t, r) = s
    <2> DEFINE p == PositionOf(t, r)
               w == RemoveAt(t, p)
    <2>1. p \in 1..Len(t) /\ t[p] = r
      BY <1>5, Position
    <2>2. p = Len(s) + 1
      BY <1>1, <1>2, <1>3, <2>1
    <2> HIDE DEF p
    <2>3. /\ w \in Seq(Roots) /\ Len(w) = Len(t) - 1
          /\ \A i \in 1..Len(t) - 1 : w[i] = IF i < p THEN t[i] ELSE t[i + 1]
      BY <1>1, <2>1, Removed
    <2> HIDE DEF w
    <2>4. Len(w) = Len(s)
      BY <1>0, <1>1, <2>3
    <2>5. ASSUME NEW i \in 1..Len(w) PROVE w[i] = s[i]
      BY <1>0, <1>1, <2>2, <2>3, <2>4
    <2>6. w = s
      BY <2>3, <2>4, <2>5, SeqEqual
    <2> QED BY <1>5, <2>6 DEF Without, w, p
  <1> QED BY <1>1, <1>4, <1>5, <1>6, <1>7 DEF t

(* The oldest member is forgotten.                                          *)
LEMMA Forgotten ==
  ASSUME NEW s \in Seq(Roots), Distinct(s), s # <<>>
  PROVE  /\ Tail(s) \in Seq(Roots)
         /\ Len(Tail(s)) = Len(s) - 1
         /\ Distinct(Tail(s))
         /\ \A x : Contains(Tail(s), x) => Contains(s, x)
         /\ <<Head(s)>> \o Tail(s) = s
  <1> DEFINE t == Tail(s)
  <1>0. Len(s) \in Nat \ {0}
    BY EmptySeq
  <1>1. /\ Head(s) \in Roots
        /\ t \in Seq(Roots) /\ Len(t) = Len(s) - 1
        /\ \A i \in 1..Len(t) : t[i] = s[i + 1]
    BY HeadTailProperties
  <1> HIDE DEF t
  <1>2. \A i \in 1..Len(t) : i + 1 \in 1..Len(s)
    BY <1>0, <1>1
  <1>3. Distinct(t)
    BY <1>1, <1>2 DEF Distinct
  <1>4. \A x : Contains(t, x) => Contains(s, x)
    BY <1>1, <1>2 DEF Contains
  <1>5. <<Head(s)>> \o t = s
    <2> DEFINE h == <<Head(s)>>
    <2>1. h \in Seq(Roots) /\ Len(h) = 1 /\ h[1] = s[1]
      <3>1. Head(SubSeq(s, 1, Len(s))) = s[1]
        BY <1>0, HeadTailOfSubSeq
      <3>2. Head(s) = s[1]
        BY <3>1, SubSeqFull
      <3> QED BY <1>1, <3>2
    <2> HIDE DEF h
    <2>2. /\ h \o t \in Seq(Roots)
          /\ Len(h \o t) = Len(h) + Len(t)
          /\ \A i \in 1..Len(h) + Len(t) :
                (h \o t)[i] = IF i <= Len(h) THEN h[i] ELSE t[i - Len(h)]
      <3>1. h \in Seq(Roots) /\ t \in Seq(Roots)
        BY <1>1, <2>1
      <3> QED BY <3>1, ConcatProperties
    <2>3. Len(h \o t) = Len(s)
      BY <1>0, <1>1, <2>1, <2>2
    <2>4. ASSUME NEW i \in 1..Len(h \o t) PROVE (h \o t)[i] = s[i]
      <3>1. CASE i = 1
        BY <2>1, <2>2, <2>3, <3>1
      <3>2. CASE i # 1
        <4>1. i - 1 \in 1..Len(t) /\ (i - 1) + 1 = i /\ ~(i <= Len(h))
          BY <1>0, <1>1, <2>1, <2>3, <3>2
        <4> QED BY <1>1, <2>1, <2>2, <4>1
      <3> QED BY <3>1, <3>2
    <2>5. h \o t = s
      BY <2>2, <2>3, <2>4, SeqEqual
    <2> QED BY <2>5 DEF h
  <1> QED BY <1>1, <1>3, <1>4, <1>5 DEF t

(* A revocation keeps the list one, and brings in its root only.            *)
LEMMA InsertedIt ==
  ASSUME LimitsAssumption, NEW s \in RevokedList, NEW r \in Roots
  PROVE  /\ Inserted(s, r) \in RevokedList
         /\ \A x : Contains(Inserted(s, r), x) => Contains(s, x) \/ x = r
  <1> DEFINE w == Without(s, r)
             longer == Append(w, r)
  <1>1. s \in Seq(Roots) /\ Len(s) <= MaxRevoked /\ Distinct(s) /\ Len(s) \in Nat
        /\ MaxRevoked \in Nat
    BY LenProperties DEF RevokedList, LimitsAssumption
  <1>2. /\ w \in Seq(Roots) /\ Distinct(w) /\ ~Contains(w, r)
        /\ \A x : Contains(w, x) => Contains(s, x)
        /\ Len(w) = IF Contains(s, r) THEN Len(s) - 1 ELSE Len(s)
    BY <1>1, WithoutIt
  <1> HIDE DEF w
  <1>3. /\ longer \in Seq(Roots) /\ Len(longer) = Len(w) + 1 /\ Distinct(longer)
        /\ \A x : Contains(longer, x) => Contains(w, x) \/ x = r
    BY <1>2, Appended
  <1>4. longer # <<>>
    BY <1>2, AppendProperties
  <1> HIDE DEF longer
  <1>5. Inserted(s, r) = IF Len(longer) > MaxRevoked THEN Tail(longer) ELSE longer
    BY DEF Inserted, longer, w
  <1>6. CASE Len(longer) > MaxRevoked
    <2>1. /\ Tail(longer) \in Seq(Roots) /\ Len(Tail(longer)) = Len(longer) - 1
          /\ Distinct(Tail(longer))
          /\ \A x : Contains(Tail(longer), x) => Contains(longer, x)
      BY <1>3, <1>4, Forgotten
    <2>2. Len(Tail(longer)) <= MaxRevoked
      BY <1>1, <1>2, <1>3, <2>1
    <2> QED BY <1>2, <1>3, <1>5, <1>6, <2>1, <2>2 DEF RevokedList
  <1>7. CASE ~(Len(longer) > MaxRevoked)
    <2>1. Len(longer) <= MaxRevoked
      BY <1>1, <1>2, <1>3, <1>7
    <2> QED BY <1>2, <1>3, <1>5, <1>7, <2>1 DEF RevokedList
  <1> QED BY <1>6, <1>7

(* A revocation whose save failed puts the list back in its order, also if  *)
(* it had moved a member or had forgotten the oldest.                       *)
THEOREM InsertionIsUndone ==
  ASSUME LimitsAssumption, NEW s \in RevokedList, NEW r \in Roots
  PROVE  UndoInsert(Inserted(s, r), s, r) = s
  <1>1. s \in Seq(Roots) /\ Len(s) <= MaxRevoked /\ Distinct(s) /\ Len(s) \in Nat
        /\ MaxRevoked \in Nat \ {0}
    BY LenProperties DEF RevokedList, LimitsAssumption
  <1>2. CASE Contains(s, r)
    <2> DEFINE p == PositionOf(s, r)
               w == RemoveAt(s, p)
    <2>1. p \in 1..Len(s) /\ s[p] = r
      BY <1>2, Position
    <2> HIDE DEF p
    <2>2. InsertAt(w, p, r) = s
      BY <1>1, <2>1, PutBack
    <2>3. Without(s, r) = w
      BY <1>2 DEF Without, p
    <2> HIDE DEF w
    <2>4. w \in Seq(Roots) /\ Distinct(w) /\ ~Contains(w, r) /\ Len(w) = Len(s) - 1
      BY <1>1, <1>2, <2>3, WithoutIt
    <2>5. Len(Append(w, r)) = Len(w) + 1 /\ Without(Append(w, r), r) = w
      BY <2>4, Appended
    <2>6. Inserted(s, r) = Append(w, r)
      BY <1>1, <2>3, <2>4, <2>5 DEF Inserted
    <2>7. UndoInsert(Append(w, r), s, r) = InsertAt(w, p, r)
      BY <1>2, <2>5 DEF UndoInsert, p
    <2> QED BY <2>2, <2>6, <2>7
  <1>3. CASE ~Contains(s, r)
    <2> DEFINE t == Append(s, r)
    <2>1. Without(s, r) = s
      BY <1>3 DEF Without
    <2>2. /\ t \in Seq(Roots) /\ Len(t) = Len(s) + 1 /\ Without(t, r) = s
      BY <1>1, <1>3, Appended
    <2>3. CASE Len(s) # MaxRevoked
      <3>1. ~(Len(t) > MaxRevoked)
        BY <1>1, <2>2, <2>3
      <3>2. Inserted(s, r) = t
        BY <2>1, <3>1 DEF Inserted
      <3> HIDE DEF t
      <3> QED BY <1>3, <2>2, <2>3, <3>2 DEF UndoInsert
    <2>4. CASE Len(s) = MaxRevoked
      <3>1. s # <<>>
        BY <1>1, <2>4, EmptySeq
      <3>2. Tail(t) = Append(Tail(s), r)
        BY <1>1, <3>1, HeadTailAppend
      <3>3. /\ Tail(s) \in Seq(Roots) /\ Distinct(Tail(s)) /\ ~Contains(Tail(s), r)
            /\ <<Head(s)>> \o Tail(s) = s
        BY <1>1, <1>3, <3>1, Forgotten
      <3>4. Without(Append(Tail(s), r), r) = Tail(s)
        BY <3>3, Appended
      <3>5. Len(t) > MaxRevoked
        BY <1>1, <2>2, <2>4
      <3>6. Inserted(s, r) = Tail(t)
        BY <2>1, <3>5 DEF Inserted
      <3> HIDE DEF t
      <3>7. UndoInsert(Tail(t), s, r) = <<Head(s)>> \o Without(Tail(t), r)
        BY <1>3, <2>4 DEF UndoInsert
      <3> QED BY <3>2, <3>3, <3>4, <3>6, <3>7
    <2> QED BY <2>3, <2>4
  <1> QED BY <1>2, <1>3

(* A grant whose save failed puts the root it took out back in its place.   *)
THEOREM RemovalIsUndone ==
  ASSUME NEW s \in RevokedList, NEW r \in Roots
  PROVE  Restored(Without(s, r), s, r) = s
  <1>1. CASE Contains(s, r)
    <2>1. PositionOf(s, r) \in 1..Len(s) /\ s[PositionOf(s, r)] = r
      BY <1>1, Position
    <2>2. InsertAt(RemoveAt(s, PositionOf(s, r)), PositionOf(s, r), r) = s
      BY <2>1, PutBack DEF RevokedList
    <2> QED BY <1>1, <2>2 DEF Restored, Without
  <1>2. CASE ~Contains(s, r)
    BY <1>2 DEF Restored, Without
  <1> QED BY <1>1, <1>2

----------------------------------------------------------------------------
(* The inductive invariant.                                                 *)

LaunchState ==
    [pc : {"idle", "captured", "reserved", "live", "stopping", "ended"},
     root : Roots, cwd : Roots, gen : (0..MaxGeneration) \X (0..MaxGeneration)]

(* No root is both trusted and revoked.                                     *)
ServiceOK ==
    /\ trusted \subseteq Roots /\ clones \subseteq Roots
    /\ revoked \in RevokedList
    /\ \A r \in trusted : ~Contains(revoked, r)

GenerationsOK ==
    /\ generation \in 0..MaxGeneration
    /\ rootGen \in [Roots -> 0..MaxGeneration]
    /\ \A r \in Roots : rootGen[r] <= generation

(* Every clone under way has its mark's epoch to come.                      *)
EpochsOK ==
    /\ IsFiniteSet(cloning)
    /\ epoch \in Nat /\ epoch + Cardinality(cloning) <= MaxEpoch
    /\ pruner \in [pc : {"start", "look", "forget", "done"}, epoch : 0..MaxEpoch,
                   missing : SUBSET Roots]
    /\ pruner.epoch <= epoch

AgentsOK ==
    /\ launch \in [Launches -> LaunchState]
    /\ leases \subseteq [launch : Launches, root : Roots, for : {"project", "cwd"}]
    /\ sweeps \subseteq Roots /\ withdrawn \subseteq Roots

(* A launch that has its leases holds one for each of its roots, which a    *)
(* revocation then cannot reach, so they are still trusted when it starts.  *)
ReservedAreTrusted ==
    /\ \A l \in Launches : launch[l].pc = "reserved" =>
         /\ launch[l].root \in trusted
         /\ \A r \in {launch[l].root, launch[l].cwd} :
              \E k \in leases : k.launch = l /\ k.root = r
    /\ withdrawn \cap trusted = {}

(* A snapshot is never newer than the trust, and one that a revocation      *)
(* overtook is older for good.                                              *)
SnapshotsAge ==
    /\ outdated \subseteq Launches
    /\ \A l \in Launches : launch[l].pc = "captured" =>
         /\ launch[l].gen[1] <= rootGen[launch[l].root]
         /\ launch[l].gen[2] <= rootGen[launch[l].cwd]
    /\ \A l \in outdated :
         \/ launch[l].pc = "ended"
         \/ /\ launch[l].pc = "captured"
            /\ \/ launch[l].gen[1] < rootGen[launch[l].root]
               \/ launch[l].gen[2] < rootGen[launch[l].cwd]

(* A fresh clone keeps its mark: the batch of the prune thread may name its *)
(* folder only if the epoch has moved on since.                             *)
FreshAreMarked ==
    /\ folder \subseteq Roots /\ cloning \subseteq Roots
    /\ fresh \subseteq clones \cap folder
    /\ fresh \cap (trusted \cup cloning) = {}
    /\ pruner.pc = "forget" /\ pruner.epoch = epoch => pruner.missing \cap fresh = {}

TrustInvariant ==
    /\ ServiceOK /\ DiskMatchesMemory
    /\ GenerationsOK /\ EpochsOK /\ AgentsOK
    /\ ReservedAreTrusted /\ RevocationStopsAgents
    /\ SnapshotsAge /\ FreshAreMarked

----------------------------------------------------------------------------
(* Saves, and what the operations of the trust service come down to.        *)

LEMMA SavedMatches ==
  ASSUME Saved(trusted', revoked', clones')
  PROVE  DiskMatchesMemory'
  BY DEF Saved, DiskMatchesMemory, Image

LEMMA RefusedMatches ==
  ASSUME DiskMatchesMemory, SaveFails \/ UNCHANGED disk,
         UNCHANGED <<trusted, revoked, clones>>
  PROVE  DiskMatchesMemory'
  BY DEF SaveFails, DiskMatchesMemory, Image

LEMMA WithoutInList ==
  ASSUME ServiceOK, NEW r \in Roots
  PROVE  /\ Without(revoked, r) \in RevokedList
         /\ ~Contains(Without(revoked, r), r)
         /\ \A x : Contains(Without(revoked, r), x) => Contains(revoked, x)
  <1>1. revoked \in Seq(Roots) /\ Distinct(revoked) /\ Len(revoked) <= MaxRevoked
        /\ Len(revoked) \in Nat
    BY LenProperties DEF ServiceOK, RevokedList
  <1>2. /\ Without(revoked, r) \in Seq(Roots) /\ Distinct(Without(revoked, r))
        /\ Len(Without(revoked, r)) =
             IF Contains(revoked, r) THEN Len(revoked) - 1 ELSE Len(revoked)
        /\ ~Contains(Without(revoked, r), r)
        /\ \A x : Contains(Without(revoked, r), x) => Contains(revoked, x)
    BY <1>1, WithoutIt
  <1>3. Len(Without(revoked, r)) <= MaxRevoked
    <2>1. MaxRevoked \in Nat
      BY LimitsAssumption DEF LimitsAssumption
    <2> QED BY <1>1, <1>2, <2>1
  <1> QED BY <1>2, <1>3 DEF RevokedList

LEMMA GrantDone ==
  ASSUME ServiceOK, DiskMatchesMemory, NEW r \in Roots, Grant(r)
  PROVE  ServiceOK' /\ DiskMatchesMemory'
  <1>1. CASE /\ trusted' = trusted \cup {r}
             /\ revoked' = Without(revoked, r)
             /\ clones' = clones \ {r}
             /\ Saved(trusted', revoked', clones')
    <2>1. DiskMatchesMemory'
      BY <1>1, SavedMatches
    <2>2. ServiceOK'
      BY <1>1, WithoutInList DEF ServiceOK
    <2> QED BY <2>1, <2>2
  <1>2. CASE /\ SaveFails
             /\ revoked' = Restored(Without(revoked, r), revoked, r)
             /\ UNCHANGED <<trusted, clones>>
    <2>1. revoked' = revoked
      BY <1>2, RemovalIsUndone DEF ServiceOK
    <2>2. DiskMatchesMemory'
      BY <1>2, <2>1, RefusedMatches
    <2>3. ServiceOK'
      BY <1>2, <2>1 DEF ServiceOK
    <2> QED BY <2>2, <2>3
  <1> QED BY <1>1, <1>2 DEF Grant

LEMMA GrantOpenedDone ==
  ASSUME ServiceOK, DiskMatchesMemory, NEW r \in Roots, GrantOpened(r)
  PROVE  ServiceOK' /\ DiskMatchesMemory'
  <1>1. UNCHANGED <<revoked, clones>> /\ ~Contains(revoked, r)
    BY DEF GrantOpened, OpenedGrantAllowed
  <1>2. CASE trusted' = trusted \cup {r} /\ Saved(trusted', revoked, clones)
    <2>1. DiskMatchesMemory'
      BY <1>1, <1>2, SavedMatches
    <2>2. ServiceOK'
      BY <1>1, <1>2 DEF ServiceOK
    <2> QED BY <2>1, <2>2
  <1>3. CASE SaveFails /\ UNCHANGED trusted
    <2>1. DiskMatchesMemory'
      BY <1>1, <1>3, RefusedMatches
    <2>2. ServiceOK'
      BY <1>1, <1>3 DEF ServiceOK
    <2> QED BY <2>1, <2>2
  <1> QED BY <1>2, <1>3 DEF GrantOpened

(* A revocation takes its root's trust away, or changes nothing.            *)
LEMMA RevokeDone ==
  ASSUME ServiceOK, DiskMatchesMemory, NEW r \in Roots,
         NEW marks \in BOOLEAN, NEW saves \in BOOLEAN, Revoke(r, marks, saves)
  PROVE  /\ ServiceOK' /\ DiskMatchesMemory'
         /\ ~saves => UNCHANGED <<trusted, revoked, clones>>
  <1>1. CASE saves
    <2>1. /\ trusted' = trusted \ {r}
          /\ revoked' = Inserted(revoked, r)
          /\ clones' = clones \/ clones' = clones \cup {r}
          /\ Saved(trusted', revoked', clones')
      BY <1>1 DEF Revoke
    <2>2. DiskMatchesMemory'
      BY <2>1, SavedMatches
    <2>3. /\ revoked' \in RevokedList
          /\ \A x : Contains(revoked', x) => Contains(revoked, x) \/ x = r
      BY <2>1, InsertedIt, LimitsAssumption DEF ServiceOK
    <2>4. ServiceOK'
      BY <2>1, <2>3 DEF ServiceOK
    <2> QED BY <1>1, <2>2, <2>4
  <1>2. CASE ~saves
    <2>1. /\ SaveFails
          /\ revoked' = UndoInsert(Inserted(revoked, r), revoked, r)
          /\ UNCHANGED <<trusted, clones>>
      BY <1>2 DEF Revoke
    <2>2. revoked' = revoked
      BY <2>1, InsertionIsUndone, LimitsAssumption DEF ServiceOK
    <2>3. DiskMatchesMemory'
      BY <2>1, <2>2, RefusedMatches
    <2>4. ServiceOK'
      BY <2>1, <2>2 DEF ServiceOK
    <2> QED BY <2>1, <2>2, <2>3, <2>4
  <1> QED BY <1>1, <1>2

LEMMA ForgetDone ==
  ASSUME ServiceOK, DiskMatchesMemory, Forget
  PROVE  ServiceOK' /\ DiskMatchesMemory'
  <1> DEFINE forgotten == IF PruneCurrent THEN pruner.missing \cap clones ELSE {}
  <1>1. UNCHANGED <<trusted, revoked>>
    BY DEF Forget
  <1>2. \/ UNCHANGED <<clones, disk>>
        \/ clones' = clones \ forgotten /\ Saved(trusted, revoked, clones')
        \/ SaveFails /\ UNCHANGED clones
    BY DEF Forget
  <1> HIDE DEF forgotten
  <1>3. DiskMatchesMemory'
    BY <1>1, <1>2, SavedMatches, RefusedMatches
  <1>4. ServiceOK'
    BY <1>1, <1>2 DEF ServiceOK
  <1> QED BY <1>3, <1>4

(* A session starts from what the last one had, or from nothing at all.     *)
LEMMA Restarted ==
  ASSUME DiskMatchesMemory, Restart
  PROVE  /\ \/ UNCHANGED <<trusted, revoked, clones, fresh>>
            \/ /\ disk = Torn
               /\ trusted' = {} /\ revoked' = <<>> /\ clones' = {} /\ fresh' = {}
         /\ UNCHANGED disk
  <1>1. CASE disk = Torn
    BY <1>1 DEF Restart, EmptyImage, Image
  <1>2. CASE disk = {Image(trusted, revoked, clones)}
    <2>1. disk # Torn
      BY <1>2 DEF Torn
    <2>2. (CHOOSE i \in disk : TRUE) = Image(trusted, revoked, clones)
      BY <1>2
    <2>3. /\ trusted' = Image(trusted, revoked, clones).trusted
          /\ revoked' = Image(trusted, revoked, clones).revoked
          /\ clones' = Image(trusted, revoked, clones).clones
          /\ UNCHANGED <<fresh, disk>>
      BY <2>1, <2>2 DEF Restart
    <2> QED BY <2>3 DEF Image
  <1> QED BY <1>1, <1>2 DEF DiskMatchesMemory

LEMMA RestartDone ==
  ASSUME ServiceOK, DiskMatchesMemory, Restart
  PROVE  ServiceOK' /\ DiskMatchesMemory'
  <1>1. CASE UNCHANGED <<trusted, revoked, clones>> /\ UNCHANGED disk
    BY <1>1, RefusedMatches DEF ServiceOK
  <1>2. CASE /\ disk = Torn /\ UNCHANGED disk
             /\ trusted' = {} /\ revoked' = <<>> /\ clones' = {}
    <2>1. <<>> \in RevokedList
      <3>1. <<>> \in Seq(Roots) /\ Len(<<>>) = 0
        BY EmptySeq
      <3>2. Distinct(<<>>)
        BY <3>1 DEF Distinct
      <3> QED BY <3>1, <3>2, LimitsAssumption DEF RevokedList, LimitsAssumption
    <2> QED BY <1>2, <2>1 DEF ServiceOK, DiskMatchesMemory
  <1> QED BY <1>1, <1>2, Restarted

----------------------------------------------------------------------------
(* Each layer is kept by every step.                                        *)

LaunchStep(l) ==
    \/ \E cwd \in Roots : Capture(l, cwd)
    \/ ReserveTrust(l) \/ StartTask(l) \/ DropLeases(l) \/ TaskEnds(l)

(* A launch changes no trust, and no clone.                                 *)
LEMMA LaunchQuiet ==
  ASSUME NEW l \in Launches, LaunchStep(l)
  PROVE  UNCHANGED <<serviceVars, disk, sweeps, pruner, folder, cloning, fresh,
                     withdrawn, outdated>>
  <1>1. ASSUME NEW cwd \in Roots, Capture(l, cwd)
        PROVE  UNCHANGED <<serviceVars, disk, sweeps, pruner, folder, cloning,
                           fresh, withdrawn, outdated>>
    BY <1>1 DEF Capture
  <1>2. CASE ReserveTrust(l)
    BY <1>2 DEF ReserveTrust
  <1>3. CASE StartTask(l) \/ DropLeases(l) \/ TaskEnds(l)
    BY <1>3 DEF StartTask, DropLeases, TaskEnds
  <1> QED BY <1>1, <1>2, <1>3 DEF LaunchStep

LEMMA ServiceStep ==
  ASSUME ServiceOK, DiskMatchesMemory, [Next]_vars
  PROVE  ServiceOK' /\ DiskMatchesMemory'
  <1> DEFINE Goal == ServiceOK' /\ DiskMatchesMemory'
  <1> SUFFICES Goal
    OBVIOUS
  <1>0. ASSUME UNCHANGED <<trusted, revoked, clones, disk>> PROVE Goal
    BY <1>0, RefusedMatches DEF ServiceOK
  <1>1. ASSUME NEW r \in Roots, Grant(r) PROVE Goal
    BY <1>1, GrantDone
  <1>2. ASSUME NEW r \in Roots, GrantOpened(r) PROVE Goal
    BY <1>2, GrantOpenedDone
  <1>3. ASSUME NEW r \in Roots, RevokeTrust(r) PROVE Goal
    BY <1>3, RevokeDone DEF RevokeTrust
  <1>4. ASSUME NEW r \in Roots, MarkClone(r) PROVE Goal
    <2>1. \/ \E saves \in BOOLEAN : Revoke(r, TRUE, saves)
          \/ UNCHANGED <<trusted, revoked, clones, disk>>
      BY <1>4 DEF MarkClone, serviceVars
    <2> QED BY <1>0, <2>1, RevokeDone
  <1>5. ASSUME NEW r \in Roots, Sweep(r) \/ CloneProject(r) \/ DeleteFolder(r)
        PROVE  Goal
    <2>1. UNCHANGED <<trusted, revoked, clones, disk>>
      BY <1>5 DEF Sweep, CloneProject, DeleteFolder, serviceVars
    <2> QED BY <1>0, <2>1
  <1>6. CASE PruneBatch \/ PruneLook \/ UNCHANGED vars
    <2>1. UNCHANGED <<trusted, revoked, clones, disk>>
      BY <1>6 DEF PruneBatch, PruneLook, vars, serviceVars
    <2> QED BY <1>0, <2>1
  <1>7. CASE Forget
    BY <1>7, ForgetDone
  <1>8. ASSUME NEW l \in Launches, LaunchStep(l) PROVE Goal
    <2>1. UNCHANGED <<trusted, revoked, clones, disk>>
      BY <1>8, LaunchQuiet DEF serviceVars
    <2> QED BY <1>0, <2>1
  <1>9. CASE Restart
    BY <1>9, RestartDone
  <1> HIDE DEF Goal
  <1> QED BY <1>1, <1>2, <1>3, <1>4, <1>5, <1>6, <1>7, <1>8, <1>9
          DEF Next, LaunchStep

(* A change of trust gives its root the newest generation.                  *)
LEMMA Newer ==
  ASSUME GenerationsOK, generation < MaxGeneration, NEW r \in Roots,
         NextGeneration(r)
  PROVE  /\ GenerationsOK'
         /\ rootGen'[r] = generation + 1
         /\ \A x \in Roots \ {r} : rootGen'[x] = rootGen[x]
  <1>1. generation + 1 \in 0..MaxGeneration
    BY LimitsAssumption DEF LimitsAssumption, GenerationsOK
  <1>2. /\ generation' = generation + 1
        /\ rootGen' = [rootGen EXCEPT ![r] = generation + 1]
    BY DEF NextGeneration
  <1>3. /\ rootGen' \in [Roots -> 0..MaxGeneration]
        /\ rootGen'[r] = generation + 1
        /\ \A x \in Roots \ {r} : rootGen'[x] = rootGen[x]
    BY <1>1, <1>2 DEF GenerationsOK
  <1>4. ASSUME NEW x \in Roots PROVE rootGen'[x] <= generation'
    <2>1. rootGen[x] <= generation /\ rootGen[x] \in Nat /\ generation \in Nat
      BY LimitsAssumption DEF LimitsAssumption, GenerationsOK
    <2> QED BY <1>2, <1>3, <2>1
  <1> QED BY <1>1, <1>2, <1>3, <1>4 DEF GenerationsOK

LEMMA GenerationsStep ==
  ASSUME GenerationsOK, [Next]_vars
  PROVE  GenerationsOK'
  <1>0. ASSUME UNCHANGED <<generation, rootGen>> PROVE GenerationsOK'
    BY <1>0 DEF GenerationsOK
  <1>1. ASSUME NEW r \in Roots, NEW marks \in BOOLEAN, NEW saves \in BOOLEAN,
               Grant(r) \/ GrantOpened(r) \/ Revoke(r, marks, saves)
        PROVE  GenerationsOK'
    <2>1. \/ generation < MaxGeneration /\ NextGeneration(r)
          \/ UNCHANGED <<generation, rootGen>>
      BY <1>1 DEF Grant, GrantOpened, Revoke
    <2> QED BY <1>0, <2>1, Newer
  <1>2. ASSUME NEW r \in Roots, RevokeTrust(r) PROVE GenerationsOK'
    BY <1>1, <1>2 DEF RevokeTrust
  <1>3. ASSUME NEW r \in Roots, MarkClone(r) PROVE GenerationsOK'
    <2>1. \/ \E saves \in BOOLEAN : Revoke(r, TRUE, saves)
          \/ UNCHANGED <<generation, rootGen>>
      BY <1>3 DEF MarkClone, serviceVars
    <2> QED BY <1>0, <1>1, <2>1
  <1>4. ASSUME NEW r \in Roots, Sweep(r) \/ CloneProject(r) \/ DeleteFolder(r)
        PROVE  GenerationsOK'
    <2>1. UNCHANGED <<generation, rootGen>>
      BY <1>4 DEF Sweep, CloneProject, DeleteFolder, serviceVars
    <2> QED BY <1>0, <2>1
  <1>5. CASE PruneBatch \/ PruneLook \/ Forget \/ UNCHANGED vars
    <2>1. UNCHANGED <<generation, rootGen>>
      BY <1>5 DEF PruneBatch, PruneLook, Forget, vars, serviceVars
    <2> QED BY <1>0, <2>1
  <1>6. ASSUME NEW l \in Launches, LaunchStep(l) PROVE GenerationsOK'
    <2>1. UNCHANGED <<generation, rootGen>>
      BY <1>6, LaunchQuiet DEF serviceVars
    <2> QED BY <1>0, <2>1
  <1>7. CASE Restart
    <2>1. generation' = 0 /\ rootGen' = [r \in Roots |-> 0]
      BY <1>7 DEF Restart
    <2> QED BY <2>1, LimitsAssumption DEF LimitsAssumption, GenerationsOK
  <1>8. ASSUME NEW r \in Roots, Grant(r) \/ GrantOpened(r) PROVE GenerationsOK'
    BY <1>1, <1>8
  <1> QED BY <1>2, <1>3, <1>4, <1>5, <1>6, <1>7, <1>8 DEF Next, LaunchStep

(* The mark of a clone takes the epoch that the clone had to come.          *)
LEMMA EpochsStep ==
  ASSUME EpochsOK, clones \subseteq Roots, [Next]_vars
  PROVE  EpochsOK'
  <1>a. MaxEpoch \in Nat
    BY LimitsAssumption DEF LimitsAssumption
  <1>b. /\ Cardinality(cloning) \in Nat /\ epoch \in 0..MaxEpoch
        /\ pruner.epoch \in Nat
    BY <1>a, FS_CardinalityType DEF EpochsOK
  <1>0. ASSUME UNCHANGED <<cloning, epoch, pruner>> PROVE EpochsOK'
    BY <1>0 DEF EpochsOK
  <1>1. ASSUME NEW r \in Roots,
               \/ Grant(r) \/ GrantOpened(r) \/ RevokeTrust(r) \/ Sweep(r)
               \/ DeleteFolder(r)
        PROVE  EpochsOK'
    <2>1. UNCHANGED <<cloning, epoch, pruner>>
      BY <1>1 DEF Grant, GrantOpened, RevokeTrust, Revoke, Sweep, DeleteFolder,
           serviceVars
    <2> QED BY <1>0, <2>1
  <1>2. ASSUME NEW r \in Roots, CloneProject(r) PROVE EpochsOK'
    <2>1. /\ epoch + Cardinality(cloning) < MaxEpoch
          /\ cloning' = cloning \cup {r}
          /\ UNCHANGED <<epoch, pruner>>
      BY <1>2 DEF CloneProject, serviceVars
    <2>2. /\ IsFiniteSet(cloning') 
          /\ Cardinality(cloning') =
               IF r \in cloning THEN Cardinality(cloning) ELSE Cardinality(cloning) + 1
      BY <2>1, FS_AddElement DEF EpochsOK
    <2>3. epoch + Cardinality(cloning') <= MaxEpoch
      BY <1>a, <1>b, <2>1, <2>2
    <2> QED BY <2>1, <2>2, <2>3 DEF EpochsOK
  <1>3. ASSUME NEW r \in Roots, MarkClone(r) PROVE EpochsOK'
    <2>1. /\ r \in cloning /\ cloning' = cloning \ {r}
          /\ epoch' = epoch \/ epoch' = epoch + 1
          /\ UNCHANGED pruner
      BY <1>3 DEF MarkClone, Revoke, serviceVars
    <2>2. /\ IsFiniteSet(cloning')
          /\ Cardinality(cloning') = Cardinality(cloning) - 1
      BY <2>1, FS_RemoveElement DEF EpochsOK
    <2>3. /\ epoch' \in Nat /\ epoch' + Cardinality(cloning') <= MaxEpoch
          /\ pruner.epoch <= epoch'
      BY <1>a, <1>b, <2>1, <2>2 DEF EpochsOK
    <2> QED BY <2>1, <2>2, <2>3 DEF EpochsOK
  <1>4. CASE PruneBatch
    <2>1. /\ pruner' = [pc |-> "look", epoch |-> epoch, missing |-> clones]
          /\ UNCHANGED <<cloning, epoch>>
      BY <1>4 DEF PruneBatch, serviceVars
    <2> QED BY <1>b, <2>1 DEF EpochsOK
  <1>5. CASE PruneLook \/ Forget
    <2>1. UNCHANGED <<cloning, epoch>>
      BY <1>5 DEF PruneLook, Forget, serviceVars
    <2>2. /\ pruner' \in [pc : {"start", "look", "forget", "done"},
                          epoch : 0..MaxEpoch, missing : SUBSET Roots]
          /\ pruner'.epoch = pruner.epoch
      <3>1. \/ pruner' = [pruner EXCEPT !.missing = @ \ folder,
                             !.pc = IF pruner.missing \subseteq folder
                                    THEN "done" ELSE "forget"]
            \/ pruner' = [pruner EXCEPT !.pc = "done"]
        BY <1>5 DEF PruneLook, Forget
      <3>2. /\ pruner.missing \in SUBSET Roots /\ pruner.epoch \in 0..MaxEpoch
            /\ pruner \in [pc : {"start", "look", "forget", "done"},
                           epoch : 0..MaxEpoch, missing : SUBSET Roots]
        BY DEF EpochsOK
      <3>3. CASE pruner' = [pruner EXCEPT !.pc = "done"]
        BY <3>2, <3>3
      <3>4. ASSUME NEW pc \in {"done", "forget"},
                   pruner' = [pruner EXCEPT !.missing = @ \ folder, !.pc = pc]
            PROVE  /\ pruner' \in [pc : {"start", "look", "forget", "done"},
                                   epoch : 0..MaxEpoch, missing : SUBSET Roots]
                   /\ pruner'.epoch = pruner.epoch
        <4>1. pruner.missing \ folder \in SUBSET Roots
          BY <3>2
        <4> QED BY <3>2, <3>4, <4>1
      <3> QED BY <3>1, <3>3, <3>4
    <2> QED BY <2>1, <2>2 DEF EpochsOK
  <1>6. ASSUME NEW l \in Launches, LaunchStep(l) PROVE EpochsOK'
    <2>1. UNCHANGED <<cloning, epoch, pruner>>
      BY <1>6, LaunchQuiet DEF serviceVars
    <2> QED BY <1>0, <2>1
  <1>7. CASE Restart
    <2>1. /\ cloning' = {} /\ epoch' = 0
          /\ pruner' = [pc |-> "start", epoch |-> 0, missing |-> {}]
      BY <1>7 DEF Restart
    <2>2. IsFiniteSet({}) /\ Cardinality({}) = 0
      BY FS_EmptySet
    <2> QED BY <1>a, <2>1, <2>2 DEF EpochsOK
  <1>8. CASE UNCHANGED vars
    BY <1>0, <1>8 DEF vars, serviceVars
  <1> QED BY <1>1, <1>2, <1>3, <1>4, <1>5, <1>6, <1>7, <1>8 DEF Next, LaunchStep

(* What a launch's own steps do to it; no other launch is touched.          *)
LEMMA Captured ==
  ASSUME AgentsOK, GenerationsOK, NEW l \in Launches, NEW cwd \in Roots,
         Capture(l, cwd)
  PROVE  /\ launch' \in [Launches -> LaunchState]
         /\ launch[l].pc = "idle" /\ launch'[l].pc = "captured"
         /\ launch'[l].root = launch[l].root /\ launch'[l].cwd = cwd
         /\ launch'[l].gen[1] = rootGen[launch[l].root]
         /\ launch'[l].gen[2] = rootGen[cwd]
         /\ \A m \in Launches \ {l} : launch'[m] = launch[m]
         /\ UNCHANGED leases
  <1> DEFINE e == [launch[l] EXCEPT !.pc = "captured", !.cwd = cwd,
                     !.gen = <<rootGen[launch[l].root], rootGen[cwd]>>]
  <1>1. launch' = [launch EXCEPT ![l] = e] /\ launch[l].pc = "idle" /\ UNCHANGED leases
    BY DEF Capture
  <1>2. launch[l] \in LaunchState /\ launch \in [Launches -> LaunchState]
    BY DEF AgentsOK
  <1>3. rootGen[launch[l].root] \in 0..MaxGeneration /\ rootGen[cwd] \in 0..MaxGeneration
    BY <1>2 DEF GenerationsOK, LaunchState
  <1>4. /\ e \in LaunchState /\ e.pc = "captured"
        /\ e.root = launch[l].root /\ e.cwd = cwd
        /\ e.gen[1] = rootGen[launch[l].root] /\ e.gen[2] = rootGen[cwd]
    BY <1>2, <1>3 DEF LaunchState
  <1> HIDE DEF e
  <1> QED BY <1>1, <1>2, <1>4

(* The step of a launch to its next place, with all else of it kept.        *)
Moved(l, to) ==
    /\ launch' \in [Launches -> LaunchState]
    /\ launch'[l].pc = to
    /\ launch'[l].root = launch[l].root /\ launch'[l].cwd = launch[l].cwd
    /\ launch'[l].gen = launch[l].gen
    /\ \A m \in Launches \ {l} : launch'[m] = launch[m]

LEMMA MovedOn ==
  ASSUME AgentsOK, NEW l \in Launches,
         NEW to \in {"idle", "captured", "reserved", "live", "stopping", "ended"},
         launch' = [launch EXCEPT ![l].pc = to]
  PROVE  Moved(l, to)
  <1> DEFINE e == [launch[l] EXCEPT !.pc = to]
  <1>1. launch' = [launch EXCEPT ![l] = e] /\ launch \in [Launches -> LaunchState]
    BY DEF AgentsOK
  <1>2. /\ e \in LaunchState /\ e.pc = to
        /\ e.root = launch[l].root /\ e.cwd = launch[l].cwd /\ e.gen = launch[l].gen
    BY DEF LaunchState, AgentsOK
  <1> HIDE DEF e
  <1> QED BY <1>1, <1>2 DEF Moved

LEMMA LaunchMoves ==
  ASSUME AgentsOK, NEW l \in Launches
  PROVE  /\ ReserveTrust(l) =>
              /\ launch[l].pc = "captured"
              /\ \/ /\ Moved(l, "reserved") /\ SnapshotCurrent(l)
                    /\ leases' = leases \cup LeasesFor(l)
                 \/ Moved(l, "ended") /\ UNCHANGED leases
         /\ StartTask(l) =>
              /\ launch[l].pc = "reserved"
              /\ Moved(l, "live") \/ Moved(l, "ended")
              /\ UNCHANGED leases
         /\ TaskEnds(l) =>
              /\ launch[l].pc \in {"live", "stopping"}
              /\ Moved(l, "ended") /\ UNCHANGED leases
  <1>1. ASSUME ReserveTrust(l)
        PROVE  /\ launch[l].pc = "captured"
               /\ \/ /\ Moved(l, "reserved") /\ SnapshotCurrent(l)
                     /\ leases' = leases \cup LeasesFor(l)
                  \/ Moved(l, "ended") /\ UNCHANGED leases
    BY <1>1, MovedOn DEF ReserveTrust
  <1>2. ASSUME StartTask(l)
        PROVE  /\ launch[l].pc = "reserved"
               /\ Moved(l, "live") \/ Moved(l, "ended")
               /\ UNCHANGED leases
    BY <1>2, MovedOn DEF StartTask
  <1>3. ASSUME TaskEnds(l)
        PROVE  /\ launch[l].pc \in {"live", "stopping"}
               /\ Moved(l, "ended") /\ UNCHANGED leases
    BY <1>3, MovedOn DEF TaskEnds
  <1> QED BY <1>1, <1>2, <1>3

LEMMA LeasesForIt ==
  ASSUME AgentsOK, NEW l \in Launches
  PROVE  /\ LeasesFor(l) \subseteq [launch : Launches, root : Roots,
                                    for : {"project", "cwd"}]
         /\ \A r \in {launch[l].root, launch[l].cwd} :
              \E k \in LeasesFor(l) : k.launch = l /\ k.root = r
  <1>1. launch[l].root \in Roots /\ launch[l].cwd \in Roots
    BY DEF AgentsOK, LaunchState
  <1> DEFINE a == [launch |-> l, root |-> launch[l].root, for |-> "project"]
             b == [launch |-> l, root |-> launch[l].cwd, for |-> "cwd"]
             State == [launch : Launches, root : Roots, for : {"project", "cwd"}]
  <1>2. a \in State /\ a.launch = l /\ a.root = launch[l].root
    BY <1>1
  <1>3. b \in State /\ b.launch = l /\ b.root = launch[l].cwd
    BY <1>1
  <1>4. LeasesFor(l) = {a} \cup IF launch[l].cwd = launch[l].root THEN {} ELSE {b}
    BY DEF LeasesFor
  <1> HIDE DEF a, b, State
  <1>5. a \in LeasesFor(l) /\ LeasesFor(l) \subseteq State
    BY <1>2, <1>3, <1>4
  <1>6. \E k \in LeasesFor(l) : k.launch = l /\ k.root = launch[l].cwd
    <2>1. CASE launch[l].cwd = launch[l].root
      BY <1>2, <1>5, <2>1
    <2>2. CASE launch[l].cwd # launch[l].root
      BY <1>3, <1>4, <2>2
    <2> QED BY <2>1, <2>2
  <1> QED BY <1>2, <1>5, <1>6 DEF State

(* The sweep stops what runs in its root and nothing else.                  *)
LEMMA Swept ==
  ASSUME AgentsOK, NEW r \in Roots, Sweep(r)
  PROVE  /\ launch' \in [Launches -> LaunchState]
         /\ \A l \in Launches :
              /\ launch'[l].root = launch[l].root /\ launch'[l].cwd = launch[l].cwd
              /\ launch'[l].gen = launch[l].gen
              /\ launch'[l].pc = IF launch[l].root = r /\ launch[l].pc = "live"
                                 THEN "stopping" ELSE launch[l].pc
         /\ UNCHANGED <<serviceVars, disk, leases, pruner, folder, cloning, fresh,
                        outdated>>
         /\ sweeps' = sweeps \ {r}
         /\ withdrawn' = IF r \in trusted THEN withdrawn ELSE withdrawn \cup {r}
  <1>1. /\ launch' = StopAgents(r)
        /\ UNCHANGED <<serviceVars, disk, leases, pruner, folder, cloning, fresh,
                       outdated>>
        /\ sweeps' = sweeps \ {r}
        /\ withdrawn' = IF r \in trusted THEN withdrawn ELSE withdrawn \cup {r}
    BY DEF Sweep
  <1>2. ASSUME NEW l \in Launches
        PROVE  /\ launch'[l] \in LaunchState
               /\ launch'[l].root = launch[l].root /\ launch'[l].cwd = launch[l].cwd
               /\ launch'[l].gen = launch[l].gen
               /\ launch'[l].pc = IF launch[l].root = r /\ launch[l].pc = "live"
                                  THEN "stopping" ELSE launch[l].pc
    <2>1. launch[l] \in LaunchState
      BY DEF AgentsOK
    <2>2. launch'[l] = IF launch[l].root = r /\ launch[l].pc = "live"
                       THEN [launch[l] EXCEPT !.pc = "stopping"] ELSE launch[l]
      BY <1>1 DEF StopAgents
    <2> QED BY <2>1, <2>2 DEF LaunchState
  <1>3. launch' = [l \in Launches |-> launch'[l]]
    BY <1>1 DEF StopAgents
  <1>4. launch' \in [Launches -> LaunchState]
    BY <1>2, <1>3
  <1> QED BY <1>1, <1>2, <1>4

LEMMA RestartedLaunches ==
  ASSUME AgentsOK, Restart
  PROVE  /\ launch' \in [Launches -> LaunchState]
         /\ \A l \in Launches : launch'[l].pc = "idle"
         /\ leases' = {} /\ sweeps' = {} /\ outdated' = {}
         /\ UNCHANGED withdrawn
  <1>1. /\ launch' = [l \in Launches |-> IdleLaunch(launch[l].root)]
        /\ leases' = {} /\ sweeps' = {} /\ outdated' = {}
        /\ UNCHANGED withdrawn
    BY DEF Restart
  <1>2. ASSUME NEW l \in Launches
        PROVE  /\ IdleLaunch(launch[l].root) \in LaunchState
               /\ IdleLaunch(launch[l].root).pc = "idle"
    <2>1. launch[l].root \in Roots /\ 0 \in 0..MaxGeneration
      BY LimitsAssumption DEF AgentsOK, LaunchState, LimitsAssumption
    <2> QED BY <2>1 DEF IdleLaunch, LaunchState
  <1> QED BY <1>1, <1>2

LEMMA AgentsStep ==
  ASSUME AgentsOK, GenerationsOK, [Next]_vars
  PROVE  AgentsOK'
  <1>1. ASSUME NEW r \in Roots,
               \/ Grant(r) \/ GrantOpened(r) \/ RevokeTrust(r)
               \/ CloneProject(r) \/ MarkClone(r) \/ DeleteFolder(r)
        PROVE  AgentsOK'
    <2>1. /\ UNCHANGED <<launch, leases>>
          /\ sweeps' = sweeps \/ sweeps' = sweeps \cup {r}
          /\ withdrawn' = withdrawn \/ withdrawn' = withdrawn \ {r}
      BY <1>1 DEF Grant, GrantOpened, RevokeTrust, CloneProject, MarkClone,
           DeleteFolder, agentVars
    <2> QED BY <2>1 DEF AgentsOK
  <1>2. ASSUME NEW r \in Roots, Sweep(r) PROVE AgentsOK'
    BY <1>2, Swept DEF AgentsOK
  <1>3. CASE PruneBatch \/ PruneLook \/ Forget \/ UNCHANGED vars
    <2>1. UNCHANGED <<launch, leases, sweeps, withdrawn>>
      BY <1>3 DEF PruneBatch, PruneLook, Forget, vars, agentVars
    <2> QED BY <2>1 DEF AgentsOK
  <1>4. ASSUME NEW l \in Launches, LaunchStep(l) PROVE AgentsOK'
    <2>1. UNCHANGED <<sweeps, withdrawn>>
      BY <1>4, LaunchQuiet
    <2>2. launch' \in [Launches -> LaunchState]
          /\ leases' \subseteq leases \cup LeasesFor(l)
      <3>1. ASSUME NEW cwd \in Roots, Capture(l, cwd)
            PROVE  launch' \in [Launches -> LaunchState] /\ leases' = leases
        BY <3>1, Captured
      <3>2. CASE ReserveTrust(l) \/ StartTask(l) \/ TaskEnds(l)
        BY <3>2, LaunchMoves DEF Moved
      <3>3. CASE DropLeases(l)
        BY <3>3 DEF DropLeases, AgentsOK
      <3> QED BY <1>4, <3>1, <3>2, <3>3 DEF LaunchStep
    <2> QED BY <2>1, <2>2, LeasesForIt DEF AgentsOK
  <1>5. CASE Restart
    BY <1>5, RestartedLaunches DEF AgentsOK
  <1> QED BY <1>1, <1>2, <1>3, <1>4, <1>5 DEF Next, LaunchStep

(* A revocation finds no launch with leases on its root.                    *)
LEMMA RevokeMissesReserved ==
  ASSUME ReservedAreTrusted, NEW r \in Roots, NEW marks, NEW saves,
         Revoke(r, marks, saves), NEW l \in Launches, launch[l].pc = "reserved"
  PROVE  r # launch[l].root /\ r # launch[l].cwd
  BY DEF ReservedAreTrusted, Revoke, HasActive

LEMMA ReservedStep ==
  ASSUME AgentsOK, GenerationsOK, DiskMatchesMemory, ReservedAreTrusted, [Next]_vars
  PROVE  ReservedAreTrusted'
  <1>0. ASSUME UNCHANGED <<launch, leases, trusted, withdrawn>>
        PROVE  ReservedAreTrusted'
    BY <1>0 DEF ReservedAreTrusted
  <1>1. ASSUME NEW r \in Roots, Grant(r) \/ GrantOpened(r) PROVE ReservedAreTrusted'
    <2>1. /\ UNCHANGED <<launch, leases>>
          /\ \/ trusted' = trusted \cup {r} /\ withdrawn' = withdrawn \ {r}
             \/ UNCHANGED <<trusted, withdrawn>>
      BY <1>1 DEF Grant, GrantOpened, agentVars
    <2> QED BY <2>1 DEF ReservedAreTrusted
  <1>2. ASSUME NEW r \in Roots, NEW marks, NEW saves,
               Revoke(r, marks, saves), UNCHANGED <<launch, leases, withdrawn>>
        PROVE  ReservedAreTrusted'
    <2>1. \/ trusted' = trusted \ {r}
          \/ UNCHANGED trusted
      BY <1>2 DEF Revoke
    <2>2. \A l \in Launches : launch[l].pc = "reserved" => r # launch[l].root
      BY <1>2, RevokeMissesReserved
    <2> QED BY <1>2, <2>1, <2>2 DEF ReservedAreTrusted
  <1>3. ASSUME NEW r \in Roots, RevokeTrust(r) PROVE ReservedAreTrusted'
    <2>1. UNCHANGED <<launch, leases, withdrawn>>
      BY <1>3 DEF RevokeTrust
    <2>2. \E saves \in BOOLEAN : Revoke(r, FALSE, saves)
      BY <1>3 DEF RevokeTrust
    <2> QED BY <1>2, <2>1, <2>2
  <1>4. ASSUME NEW r \in Roots, MarkClone(r) PROVE ReservedAreTrusted'
    <2>1. UNCHANGED <<launch, leases, withdrawn>>
      BY <1>4 DEF MarkClone, agentVars
    <2>2. \/ \E saves \in BOOLEAN : Revoke(r, TRUE, saves)
          \/ UNCHANGED trusted
      BY <1>4 DEF MarkClone, serviceVars
    <2> QED BY <1>0, <1>2, <2>1, <2>2
  <1>5. ASSUME NEW r \in Roots, Sweep(r) PROVE ReservedAreTrusted'
    <2>1. UNCHANGED <<trusted, leases>>
      BY <1>5, Swept DEF serviceVars
    <2>2. withdrawn' \cap trusted = {}
      BY <1>5, Swept DEF ReservedAreTrusted
    <2>3. \A l \in Launches : launch'[l].pc = "reserved" =>
             /\ launch[l].pc = "reserved"
             /\ launch'[l].root = launch[l].root /\ launch'[l].cwd = launch[l].cwd
      BY <1>5, Swept
    <2> QED BY <2>1, <2>2, <2>3 DEF ReservedAreTrusted
  <1>6. ASSUME NEW r \in Roots, CloneProject(r) \/ DeleteFolder(r)
        PROVE  ReservedAreTrusted'
    <2>1. UNCHANGED <<launch, leases, trusted, withdrawn>>
      BY <1>6 DEF CloneProject, DeleteFolder, agentVars, serviceVars
    <2> QED BY <1>0, <2>1
  <1>7. CASE PruneBatch \/ PruneLook \/ Forget \/ UNCHANGED vars
    <2>1. UNCHANGED <<launch, leases, trusted, withdrawn>>
      BY <1>7 DEF PruneBatch, PruneLook, Forget, vars, agentVars, serviceVars
    <2> QED BY <1>0, <2>1
  <1>8. ASSUME NEW l \in Launches, LaunchStep(l) PROVE ReservedAreTrusted'
    <2>0. UNCHANGED <<trusted, withdrawn>>
      BY <1>8, LaunchQuiet DEF serviceVars
    <2>1. ASSUME NEW cwd \in Roots, Capture(l, cwd) PROVE ReservedAreTrusted'
      BY <2>0, <2>1, Captured DEF ReservedAreTrusted
    <2>2. CASE ReserveTrust(l)
      <3>1. CASE /\ Moved(l, "reserved") /\ SnapshotCurrent(l)
                 /\ leases' = leases \cup LeasesFor(l)
        <4>1. launch[l].root \in trusted
          BY <3>1 DEF SnapshotCurrent
        <4>2. \A r \in {launch[l].root, launch[l].cwd} :
                 \E k \in leases' : k.launch = l /\ k.root = r
          BY <3>1, LeasesForIt
        <4> QED BY <2>0, <3>1, <4>1, <4>2 DEF Moved, ReservedAreTrusted
      <3>2. CASE Moved(l, "ended") /\ UNCHANGED leases
        BY <2>0, <3>2 DEF Moved, ReservedAreTrusted
      <3> QED BY <2>2, <3>1, <3>2, LaunchMoves
    <2>3. CASE StartTask(l) \/ TaskEnds(l)
      <3>1. (Moved(l, "live") \/ Moved(l, "ended")) /\ UNCHANGED leases
        BY <2>3, LaunchMoves
      <3> QED BY <2>0, <3>1 DEF Moved, ReservedAreTrusted
    <2>4. CASE DropLeases(l)
      <3>1. /\ leases' = {k \in leases : k.launch # l} /\ UNCHANGED launch
            /\ launch[l].pc # "reserved"
        BY <2>4 DEF DropLeases
      <3> QED BY <2>0, <3>1 DEF ReservedAreTrusted
    <2> QED BY <1>8, <2>1, <2>2, <2>3, <2>4 DEF LaunchStep
  <1>9. CASE Restart
    <2>1. trusted' = trusted \/ trusted' = {}
      BY <1>9, Restarted
    <2>2. UNCHANGED withdrawn /\ \A l \in Launches : launch'[l].pc = "idle"
      BY <1>9, RestartedLaunches
    <2> QED BY <2>1, <2>2 DEF ReservedAreTrusted
  <1> QED BY <1>1, <1>3, <1>4, <1>5, <1>6, <1>7, <1>8, <1>9 DEF Next, LaunchStep

LEMMA StopsStep ==
  ASSUME AgentsOK, GenerationsOK, ReservedAreTrusted, RevocationStopsAgents,
         [Next]_vars
  PROVE  RevocationStopsAgents'
  <1>1. ASSUME NEW r \in Roots,
               \/ Grant(r) \/ GrantOpened(r) \/ RevokeTrust(r)
               \/ CloneProject(r) \/ MarkClone(r) \/ DeleteFolder(r)
        PROVE  RevocationStopsAgents'
    <2>1. UNCHANGED launch /\ withdrawn' \subseteq withdrawn
      BY <1>1 DEF Grant, GrantOpened, RevokeTrust, CloneProject, MarkClone,
           DeleteFolder, agentVars
    <2> QED BY <2>1 DEF RevocationStopsAgents
  <1>2. ASSUME NEW r \in Roots, Sweep(r) PROVE RevocationStopsAgents'
    <2>1. withdrawn' \subseteq withdrawn \cup {r}
      BY <1>2, Swept
    <2> QED BY <1>2, <2>1, Swept DEF RevocationStopsAgents
  <1>3. CASE PruneBatch \/ PruneLook \/ Forget \/ UNCHANGED vars
    <2>1. UNCHANGED <<launch, withdrawn>>
      BY <1>3 DEF PruneBatch, PruneLook, Forget, vars, agentVars
    <2> QED BY <2>1 DEF RevocationStopsAgents
  <1>4. ASSUME NEW l \in Launches, LaunchStep(l) PROVE RevocationStopsAgents'
    <2>0. UNCHANGED withdrawn
      BY <1>4, LaunchQuiet
    <2>1. ASSUME NEW cwd \in Roots, Capture(l, cwd) PROVE RevocationStopsAgents'
      BY <2>0, <2>1, Captured DEF RevocationStopsAgents
    <2>2. CASE ReserveTrust(l) \/ TaskEnds(l)
      <3>1. Moved(l, "reserved") \/ Moved(l, "ended")
        BY <2>2, LaunchMoves
      <3> QED BY <2>0, <3>1 DEF Moved, RevocationStopsAgents
    <2>3. CASE StartTask(l)
      <3>1. launch[l].pc = "reserved" /\ (Moved(l, "live") \/ Moved(l, "ended"))
        BY <2>3, LaunchMoves
      <3>2. launch[l].root \notin withdrawn
        BY <3>1 DEF ReservedAreTrusted
      <3> QED BY <2>0, <3>1, <3>2 DEF Moved, RevocationStopsAgents
    <2>4. CASE DropLeases(l)
      BY <2>0, <2>4 DEF DropLeases, RevocationStopsAgents
    <2> QED BY <1>4, <2>1, <2>2, <2>3, <2>4 DEF LaunchStep
  <1>5. CASE Restart
    BY <1>5, RestartedLaunches DEF RevocationStopsAgents
  <1> QED BY <1>1, <1>2, <1>3, <1>4, <1>5 DEF Next, LaunchStep

(* A newer generation of any root leaves the snapshots as old as they were. *)
LEMMA SnapshotsGrowOld ==
  ASSUME AgentsOK, GenerationsOK, GenerationsOK', SnapshotsAge, UNCHANGED launch,
         \A r \in Roots : rootGen[r] <= rootGen'[r],
         outdated' \subseteq Launches,
         \A l \in outdated' \ outdated :
            /\ launch[l].pc = "captured"
            /\ \/ rootGen[launch[l].root] < rootGen'[launch[l].root]
               \/ rootGen[launch[l].cwd] < rootGen'[launch[l].cwd]
  PROVE  SnapshotsAge'
  <1>1. ASSUME NEW l \in Launches
        PROVE  /\ rootGen[launch[l].root] \in Nat /\ rootGen[launch[l].cwd] \in Nat
               /\ rootGen'[launch[l].root] \in Nat /\ rootGen'[launch[l].cwd] \in Nat
               /\ launch[l].gen[1] \in Nat /\ launch[l].gen[2] \in Nat
               /\ rootGen[launch[l].root] <= rootGen'[launch[l].root]
               /\ rootGen[launch[l].cwd] <= rootGen'[launch[l].cwd]
    <2>1. /\ launch[l].root \in Roots /\ launch[l].cwd \in Roots
          /\ launch[l].gen[1] \in 0..MaxGeneration
          /\ launch[l].gen[2] \in 0..MaxGeneration
      BY DEF AgentsOK, LaunchState
    <2> QED BY <2>1 DEF GenerationsOK
  <1>2. ASSUME NEW l \in Launches, launch[l].pc = "captured"
        PROVE  /\ launch[l].gen[1] <= rootGen'[launch[l].root]
               /\ launch[l].gen[2] <= rootGen'[launch[l].cwd]
    <2>1. /\ launch[l].gen[1] <= rootGen[launch[l].root]
          /\ launch[l].gen[2] <= rootGen[launch[l].cwd]
      BY <1>2 DEF SnapshotsAge
    <2> QED BY <1>1, <2>1
  <1>3. ASSUME NEW l \in outdated'
        PROVE  \/ launch[l].pc = "ended"
               \/ /\ launch[l].pc = "captured"
                  /\ \/ launch[l].gen[1] < rootGen'[launch[l].root]
                     \/ launch[l].gen[2] < rootGen'[launch[l].cwd]
    <2>0. l \in Launches
      OBVIOUS
    <2>1. CASE l \in outdated
      <3>1. \/ launch[l].pc = "ended"
            \/ /\ launch[l].pc = "captured"
               /\ \/ launch[l].gen[1] < rootGen[launch[l].root]
                  \/ launch[l].gen[2] < rootGen[launch[l].cwd]
        BY <2>1 DEF SnapshotsAge
      <3> QED BY <1>1, <2>0, <3>1
    <2>2. CASE l \notin outdated
      <3>1. /\ launch[l].pc = "captured"
            /\ \/ rootGen[launch[l].root] < rootGen'[launch[l].root]
               \/ rootGen[launch[l].cwd] < rootGen'[launch[l].cwd]
        BY <2>2
      <3>2. /\ launch[l].gen[1] <= rootGen[launch[l].root]
            /\ launch[l].gen[2] <= rootGen[launch[l].cwd]
        BY <2>0, <3>1 DEF SnapshotsAge
      <3> QED BY <1>1, <2>0, <3>1, <3>2
    <2> QED BY <2>1, <2>2
  <1> QED BY <1>2, <1>3 DEF SnapshotsAge

(* A change of trust leaves no generation behind.                           *)
LEMMA NewerOrSame ==
  ASSUME GenerationsOK, NEW r \in Roots,
         \/ generation < MaxGeneration /\ NextGeneration(r)
         \/ UNCHANGED <<generation, rootGen>>
  PROVE  GenerationsOK' /\ \A x \in Roots : rootGen[x] <= rootGen'[x]
  <1>1. \A x \in Roots : rootGen[x] \in Nat /\ rootGen[x] <= generation
    BY DEF GenerationsOK
  <1>2. CASE generation < MaxGeneration /\ NextGeneration(r)
    <2>1. /\ GenerationsOK' /\ rootGen'[r] = generation + 1
          /\ \A x \in Roots \ {r} : rootGen'[x] = rootGen[x]
      BY <1>2, Newer
    <2>2. generation \in Nat
      BY DEF GenerationsOK
    <2> QED BY <1>1, <2>1, <2>2
  <1>3. CASE UNCHANGED <<generation, rootGen>>
    BY <1>1, <1>3 DEF GenerationsOK
  <1> QED BY <1>2, <1>3

LEMMA RevokeAges ==
  ASSUME AgentsOK, GenerationsOK, ReservedAreTrusted, SnapshotsAge,
         NEW r \in Roots, NEW marks \in BOOLEAN, NEW saves \in BOOLEAN,
         Revoke(r, marks, saves), UNCHANGED launch
  PROVE  SnapshotsAge'
  <1>1. CASE ~saves
    <2>1. UNCHANGED <<generation, rootGen, outdated>>
      BY <1>1 DEF Revoke
    <2> QED BY <2>1 DEF SnapshotsAge
  <1>2. CASE saves
    <2> DEFINE over == {l \in Launches : /\ launch[l].pc \in {"captured", "reserved"}
                                         /\ r \in {launch[l].root, launch[l].cwd}}
    <2>1. /\ generation < MaxGeneration /\ NextGeneration(r)
          /\ outdated' = outdated \cup over
      BY <1>2 DEF Revoke
    <2>2. /\ GenerationsOK' /\ \A x \in Roots : rootGen[x] <= rootGen'[x]
      BY <2>1, NewerOrSame
    <2>3. rootGen[r] < rootGen'[r]
      <3>1. rootGen'[r] = generation + 1
        BY <2>1, Newer
      <3>2. rootGen[r] <= generation /\ rootGen[r] \in Nat /\ generation \in Nat
        BY DEF GenerationsOK
      <3> QED BY <3>1, <3>2
    <2>4. ASSUME NEW l \in over
          PROVE  /\ launch[l].pc = "captured"
                 /\ \/ rootGen[launch[l].root] < rootGen'[launch[l].root]
                    \/ rootGen[launch[l].cwd] < rootGen'[launch[l].cwd]
      <3>1. launch[l].pc # "reserved"
        BY RevokeMissesReserved
      <3> QED BY <2>3, <3>1
    <2>5. over \subseteq Launches
      OBVIOUS
    <2> HIDE DEF over
    <2>6. /\ outdated' \subseteq Launches
          /\ \A l \in outdated' \ outdated :
               /\ launch[l].pc = "captured"
               /\ \/ rootGen[launch[l].root] < rootGen'[launch[l].root]
                  \/ rootGen[launch[l].cwd] < rootGen'[launch[l].cwd]
      BY <2>1, <2>4, <2>5 DEF SnapshotsAge
    <2> QED BY <2>2, <2>6, SnapshotsGrowOld
  <1> QED BY <1>1, <1>2

LEMMA SnapshotsStep ==
  ASSUME AgentsOK, GenerationsOK, ReservedAreTrusted, SnapshotsAge, [Next]_vars
  PROVE  SnapshotsAge'
  <1>0. ASSUME UNCHANGED <<launch, rootGen, outdated>> PROVE SnapshotsAge'
    BY <1>0 DEF SnapshotsAge
  <1>1. ASSUME NEW r \in Roots, Grant(r) \/ GrantOpened(r) PROVE SnapshotsAge'
    <2>1. /\ UNCHANGED <<launch, outdated>>
          /\ \/ generation < MaxGeneration /\ NextGeneration(r)
             \/ UNCHANGED <<generation, rootGen>>
      BY <1>1 DEF Grant, GrantOpened, agentVars
    <2>2. GenerationsOK' /\ \A x \in Roots : rootGen[x] <= rootGen'[x]
      BY <2>1, NewerOrSame
    <2>3. outdated' \subseteq Launches /\ outdated' \ outdated = {}
      BY <2>1 DEF SnapshotsAge
    <2> QED BY <2>1, <2>2, <2>3, SnapshotsGrowOld
  <1>2. ASSUME NEW r \in Roots, RevokeTrust(r) PROVE SnapshotsAge'
    <2>1. \E saves \in BOOLEAN : Revoke(r, FALSE, saves)
      BY <1>2 DEF RevokeTrust
    <2>2. UNCHANGED launch
      BY <1>2 DEF RevokeTrust
    <2> QED BY <2>1, <2>2, RevokeAges
  <1>3. ASSUME NEW r \in Roots, MarkClone(r) PROVE SnapshotsAge'
    <2>1. UNCHANGED launch
      BY <1>3 DEF MarkClone, agentVars
    <2>2. \/ \E saves \in BOOLEAN : Revoke(r, TRUE, saves)
          \/ UNCHANGED <<rootGen, outdated>>
      BY <1>3 DEF MarkClone, serviceVars
    <2> QED BY <1>0, <2>1, <2>2, RevokeAges
  <1>4. ASSUME NEW r \in Roots, Sweep(r) PROVE SnapshotsAge'
    <2>1. UNCHANGED <<rootGen, outdated>>
      BY <1>4, Swept DEF serviceVars
    <2>2. \A l \in Launches :
            /\ launch'[l].root = launch[l].root /\ launch'[l].cwd = launch[l].cwd
            /\ launch'[l].gen = launch[l].gen
            /\ launch[l].pc \in {"captured", "ended"} => launch'[l].pc = launch[l].pc
            /\ launch'[l].pc = "captured" => launch[l].pc = "captured"
      BY <1>4, Swept
    <2> QED BY <2>1, <2>2 DEF SnapshotsAge
  <1>5. ASSUME NEW r \in Roots, CloneProject(r) \/ DeleteFolder(r)
        PROVE  SnapshotsAge'
    <2>1. UNCHANGED <<launch, rootGen, outdated>>
      BY <1>5 DEF CloneProject, DeleteFolder, agentVars, serviceVars
    <2> QED BY <1>0, <2>1
  <1>6. CASE PruneBatch \/ PruneLook \/ Forget \/ UNCHANGED vars
    <2>1. UNCHANGED <<launch, rootGen, outdated>>
      BY <1>6 DEF PruneBatch, PruneLook, Forget, vars, agentVars, serviceVars
    <2> QED BY <1>0, <2>1
  <1>7. ASSUME NEW l \in Launches, LaunchStep(l) PROVE SnapshotsAge'
    <2>0. UNCHANGED <<rootGen, outdated>>
      BY <1>7, LaunchQuiet DEF serviceVars
    <2>1. ASSUME NEW cwd \in Roots, Capture(l, cwd) PROVE SnapshotsAge'
      <3>1. /\ launch[l].pc = "idle" /\ launch'[l].pc = "captured"
            /\ launch'[l].gen[1] = rootGen[launch'[l].root]
            /\ launch'[l].gen[2] = rootGen[launch'[l].cwd]
            /\ \A m \in Launches \ {l} : launch'[m] = launch[m]
        BY <2>1, Captured
      <3>2. l \notin outdated
        BY <3>1 DEF SnapshotsAge
      <3>3. /\ rootGen[launch'[l].root] \in Nat /\ rootGen[launch'[l].cwd] \in Nat
        BY <2>1, Captured DEF GenerationsOK, LaunchState
      <3> QED BY <2>0, <3>1, <3>2, <3>3 DEF SnapshotsAge
    <2>2. CASE ReserveTrust(l)
      <3>1. CASE Moved(l, "reserved") /\ SnapshotCurrent(l)
        <4>1. launch[l].gen = <<rootGen[launch[l].root], rootGen[launch[l].cwd]>>
          BY <3>1 DEF SnapshotCurrent
        <4>2. /\ launch[l].gen[1] = rootGen[launch[l].root]
              /\ launch[l].gen[2] = rootGen[launch[l].cwd]
          BY <4>1
        <4>3. rootGen[launch[l].root] \in Nat /\ rootGen[launch[l].cwd] \in Nat
          BY DEF GenerationsOK, AgentsOK, LaunchState
        <4>4. launch[l].pc = "captured"
          BY <2>2, LaunchMoves
        <4>5. l \notin outdated
          BY <4>2, <4>3, <4>4 DEF SnapshotsAge
        <4> QED BY <2>0, <3>1, <4>5 DEF Moved, SnapshotsAge
      <3>2. CASE Moved(l, "ended")
        BY <2>0, <3>2 DEF Moved, SnapshotsAge
      <3> QED BY <2>2, <3>1, <3>2, LaunchMoves
    <2>3. CASE StartTask(l) \/ TaskEnds(l)
      <3>1. /\ launch[l].pc \in {"reserved", "live", "stopping"}
            /\ Moved(l, "live") \/ Moved(l, "ended")
        BY <2>3, LaunchMoves
      <3>2. l \notin outdated
        BY <3>1 DEF SnapshotsAge
      <3> QED BY <2>0, <3>1, <3>2 DEF Moved, SnapshotsAge
    <2>4. CASE DropLeases(l)
      BY <1>0, <2>0, <2>4 DEF DropLeases
    <2> QED BY <1>7, <2>1, <2>2, <2>3, <2>4 DEF LaunchStep
  <1>8. CASE Restart
    <2>1. outdated' = {} /\ \A l \in Launches : launch'[l].pc = "idle"
      BY <1>8, RestartedLaunches
    <2> QED BY <2>1 DEF SnapshotsAge
  <1> QED BY <1>1, <1>2, <1>3, <1>4, <1>5, <1>6, <1>7, <1>8 DEF Next, LaunchStep

LEMMA FreshStep ==
  ASSUME ServiceOK, DiskMatchesMemory, EpochsOK, FreshAreMarked, [Next]_vars
  PROVE  FreshAreMarked'
  <1>a. epoch \in Nat /\ pruner.epoch \in Nat /\ pruner.epoch <= epoch
    <2>1. pruner.epoch \in 0..MaxEpoch
      BY DEF EpochsOK
    <2> QED BY <2>1 DEF EpochsOK
  <1>0. ASSUME UNCHANGED <<trusted, clones, epoch, pruner, folder, cloning, fresh>>
        PROVE  FreshAreMarked'
    BY <1>0 DEF FreshAreMarked
  <1>1. ASSUME NEW r \in Roots, Grant(r) PROVE FreshAreMarked'
    <2>1. /\ UNCHANGED <<epoch, pruner, folder, cloning>>
          /\ \/ /\ trusted' = trusted \cup {r} /\ clones' = clones \ {r}
                /\ fresh' = fresh \ {r}
             \/ UNCHANGED <<trusted, clones, fresh>>
      BY <1>1 DEF Grant
    <2> QED BY <2>1 DEF FreshAreMarked
  <1>2. ASSUME NEW r \in Roots, GrantOpened(r) PROVE FreshAreMarked'
    <2>1. /\ UNCHANGED <<clones, epoch, pruner, folder, cloning, fresh>>
          /\ r \notin clones
          /\ trusted' = trusted \cup {r} \/ trusted' = trusted
      BY <1>2 DEF GrantOpened, OpenedGrantAllowed
    <2> QED BY <2>1 DEF FreshAreMarked
  <1>3. ASSUME NEW r \in Roots, RevokeTrust(r) PROVE FreshAreMarked'
    <2>1. /\ UNCHANGED <<clones, epoch, pruner, folder, cloning, fresh>>
          /\ trusted' \subseteq trusted
      BY <1>3 DEF RevokeTrust, Revoke
    <2> QED BY <2>1 DEF FreshAreMarked
  <1>4. ASSUME NEW r \in Roots, MarkClone(r) PROVE FreshAreMarked'
    <2>1. /\ r \in cloning /\ cloning' = cloning \ {r} /\ UNCHANGED pruner
      BY <1>4 DEF MarkClone
    <2>2. r \notin fresh
      BY <2>1 DEF FreshAreMarked
    <2>3. \/ /\ epoch' = epoch + 1
             /\ trusted' = trusted \ {r} /\ clones' = clones \cup {r}
             /\ folder' = folder
             /\ fresh' = IF r \in folder THEN fresh \cup {r} ELSE fresh
          \/ /\ epoch' = epoch + 1 \/ epoch' = epoch
             /\ folder' = folder \ {r}
             /\ UNCHANGED <<trusted, clones, fresh>>
      BY <1>4 DEF MarkClone, Revoke, serviceVars
    <2>4. epoch' = epoch + 1 => pruner'.epoch # epoch'
      BY <1>a, <2>1
    <2> QED BY <2>1, <2>2, <2>3, <2>4 DEF FreshAreMarked
  <1>5. ASSUME NEW r \in Roots, Sweep(r) PROVE FreshAreMarked'
    <2>1. UNCHANGED <<trusted, clones, epoch, pruner, folder, cloning, fresh>>
      BY <1>5 DEF Sweep, serviceVars
    <2> QED BY <1>0, <2>1
  <1>6. ASSUME NEW r \in Roots, CloneProject(r) \/ DeleteFolder(r)
        PROVE  FreshAreMarked'
    <2>1. /\ UNCHANGED <<trusted, clones, epoch, pruner>>
          /\ \/ /\ r \notin folder /\ folder' = folder \cup {r}
                /\ cloning' = cloning \cup {r} /\ fresh' = fresh
             \/ /\ folder' = folder \ {r} /\ fresh' = fresh \ {r}
                /\ cloning' = cloning
      BY <1>6 DEF CloneProject, DeleteFolder, serviceVars
    <2> QED BY <2>1 DEF FreshAreMarked
  <1>7. CASE PruneBatch \/ PruneLook
    <2>1. /\ UNCHANGED <<trusted, clones, epoch, folder, cloning, fresh>>
          /\ \/ pruner'.pc = "look"
             \/ pruner'.missing \cap folder = {}
      <3>1. UNCHANGED <<trusted, clones, epoch, folder, cloning, fresh>>
        BY <1>7 DEF PruneBatch, PruneLook, serviceVars
      <3>2. CASE PruneBatch
        BY <3>1, <3>2 DEF PruneBatch
      <3>3. CASE PruneLook
        <4>1. pruner' = [pruner EXCEPT !.missing = pruner.missing \ folder,
                           !.pc = IF pruner.missing \subseteq folder
                                  THEN "done" ELSE "forget"]
          BY <3>3 DEF PruneLook
        <4>2. pruner'.missing = pruner.missing \ folder
          BY <4>1 DEF EpochsOK
        <4> QED BY <3>1, <4>2
      <3> QED BY <1>7, <3>1, <3>2, <3>3
    <2> QED BY <2>1 DEF FreshAreMarked
  <1>8. CASE Forget
    <2>1. /\ UNCHANGED <<trusted, epoch, folder, cloning, fresh>>
          /\ pruner.pc = "forget"
      BY <1>8 DEF Forget
    <2>2. pruner'.pc = "done"
      BY <1>8 DEF Forget, EpochsOK
    <2>3. \/ clones' = clones
          \/ pruner.epoch = epoch /\ clones' = clones \ (pruner.missing \cap clones)
      BY <1>8 DEF Forget, PruneCurrent
    <2> QED BY <2>1, <2>2, <2>3 DEF FreshAreMarked
  <1>9. ASSUME NEW l \in Launches, LaunchStep(l) PROVE FreshAreMarked'
    <2>1. UNCHANGED <<trusted, clones, epoch, pruner, folder, cloning, fresh>>
      BY <1>9, LaunchQuiet DEF serviceVars
    <2> QED BY <1>0, <2>1
  <1>10. CASE Restart
    <2>1. /\ cloning' = {} /\ UNCHANGED folder /\ pruner'.pc = "start"
      BY <1>10 DEF Restart
    <2>2. \/ UNCHANGED <<trusted, clones, fresh>>
          \/ trusted' = {} /\ clones' = {} /\ fresh' = {}
      BY <1>10, Restarted
    <2> QED BY <2>1, <2>2 DEF FreshAreMarked
  <1>11. CASE UNCHANGED vars
    BY <1>0, <1>11 DEF vars, serviceVars
  <1> QED BY <1>1, <1>2, <1>3, <1>4, <1>5, <1>6, <1>7, <1>8, <1>9, <1>10, <1>11
          DEF Next, LaunchStep

----------------------------------------------------------------------------
(* The theorems.                                                            *)

LEMMA TrustInitially ==
  ASSUME Init
  PROVE  TrustInvariant
  <1>0. 0 \in 0..MaxGeneration /\ 0 \in 0..MaxEpoch /\ MaxEpoch \in Nat
        /\ MaxRevoked \in Nat
    BY LimitsAssumption DEF LimitsAssumption
  <1>1. ServiceOK /\ DiskMatchesMemory
    <2>1. <<>> \in Seq(Roots) /\ Len(<<>>) = 0
      BY EmptySeq
    <2>2. <<>> \in RevokedList /\ \A r : ~Contains(<<>>, r)
      BY <1>0, <2>1 DEF RevokedList, Distinct, Contains
    <2> QED BY <2>2 DEF Init, ServiceOK, DiskMatchesMemory
  <1>2. GenerationsOK
    BY <1>0 DEF Init, GenerationsOK
  <1>3. EpochsOK
    <2>1. IsFiniteSet({}) /\ Cardinality({}) = 0
      BY FS_EmptySet
    <2> QED BY <1>0, <2>1 DEF Init, EpochsOK
  <1>4. /\ launch \in [Launches -> LaunchState]
        /\ \A l \in Launches : launch[l].pc = "idle"
    <2>1. \A r \in Roots : IdleLaunch(r) \in LaunchState /\ IdleLaunch(r).pc = "idle"
      BY <1>0 DEF IdleLaunch, LaunchState
    <2> QED BY <2>1 DEF Init
  <1>5. AgentsOK
    BY <1>4 DEF Init, AgentsOK
  <1>6. ReservedAreTrusted /\ RevocationStopsAgents /\ SnapshotsAge
    BY <1>4 DEF Init, ReservedAreTrusted, RevocationStopsAgents, SnapshotsAge
  <1>7. FreshAreMarked
    BY DEF Init, FreshAreMarked
  <1> QED BY <1>1, <1>2, <1>3, <1>5, <1>6, <1>7 DEF TrustInvariant

(* Every reachable state satisfies the inductive invariant.                 *)
THEOREM TrustInvariance == Spec => []TrustInvariant
  <1>1. Init => TrustInvariant
    BY TrustInitially
  <1>2. TrustInvariant /\ [Next]_vars => TrustInvariant'
    <2> SUFFICES ASSUME TrustInvariant, [Next]_vars PROVE TrustInvariant'
      OBVIOUS
    <2>1. /\ ServiceOK /\ DiskMatchesMemory /\ GenerationsOK /\ EpochsOK /\ AgentsOK
          /\ ReservedAreTrusted /\ RevocationStopsAgents
          /\ SnapshotsAge /\ FreshAreMarked /\ clones \subseteq Roots
      BY DEF TrustInvariant, ServiceOK
    <2>2. ServiceOK' /\ DiskMatchesMemory'
      BY <2>1, ServiceStep
    <2>3. GenerationsOK' /\ EpochsOK' /\ AgentsOK'
      BY <2>1, GenerationsStep, EpochsStep, AgentsStep
    <2>4. ReservedAreTrusted' /\ RevocationStopsAgents'
      BY <2>1, ReservedStep, StopsStep
    <2>5. SnapshotsAge' /\ FreshAreMarked'
      BY <2>1, SnapshotsStep, FreshStep
    <2> QED BY <2>2, <2>3, <2>4, <2>5 DEF TrustInvariant
  <1> QED BY <1>1, <1>2, PTL DEF Spec

(* The revoked list is within its limit and has no duplicates, and no root  *)
(* is both trusted and revoked.                                             *)
THEOREM TrustTypes == Spec => []TypeOK
  <1>1. TrustInvariant => TypeOK
    <2> SUFFICES ASSUME TrustInvariant PROVE TypeOK
      OBVIOUS
    <2>0. /\ ServiceOK /\ DiskMatchesMemory /\ GenerationsOK /\ EpochsOK /\ AgentsOK
          /\ SnapshotsAge /\ FreshAreMarked
      BY DEF TrustInvariant
    <2>1. /\ revoked \in Seq(Roots) /\ Len(revoked) <= MaxRevoked /\ Distinct(revoked)
      BY <2>0 DEF ServiceOK, RevokedList
    <2>2. /\ revoked \in [1..Len(revoked) -> Roots]
          /\ Len(revoked) \in 0..MaxRevoked
      <3>1. Len(revoked) \in Nat /\ revoked \in [1..Len(revoked) -> Roots]
        BY <2>1, LenProperties
      <3>2. MaxRevoked \in Nat
        BY LimitsAssumption DEF LimitsAssumption
      <3> QED BY <2>1, <3>1, <3>2
    <2>3. revoked \in UNION {[1..n -> Roots] : n \in 0..MaxRevoked}
      BY <2>2
    <2>4. Image(trusted, revoked, clones) \in Images
      BY <2>0, <2>3 DEF Image, Images, ServiceOK
    <2>5. \A i \in 1..Len(revoked) : revoked[i] \notin trusted
      BY <2>0 DEF ServiceOK, Contains
    <2>6. disk \subseteq Images /\ Cardinality(disk) <= 1
      <3>1. Cardinality({}) = 0
            /\ Cardinality({Image(trusted, revoked, clones)}) = 1
        BY FS_EmptySet, FS_Singleton
      <3> QED BY <2>0, <2>4, <3>1 DEF DiskMatchesMemory, Torn
    <2>7. epoch \in 0..MaxEpoch
      <3>1. /\ Cardinality(cloning) \in Nat /\ epoch \in Nat
            /\ epoch + Cardinality(cloning) <= MaxEpoch
        BY <2>0, FS_CardinalityType DEF EpochsOK
      <3>2. MaxEpoch \in Nat
        BY LimitsAssumption DEF LimitsAssumption
      <3> QED BY <3>1, <3>2
    <2>8. /\ generation \in 0..MaxGeneration /\ rootGen \in [Roots -> 0..MaxGeneration]
          /\ pruner \in [pc : {"start", "look", "forget", "done"}, epoch : 0..MaxEpoch,
                         missing : SUBSET Roots]
      BY <2>0 DEF GenerationsOK, EpochsOK
    <2>9. /\ leases \subseteq [launch : Launches, root : Roots, for : {"project", "cwd"}]
          /\ launch \in [Launches -> LaunchState]
          /\ outdated \subseteq Launches
      BY <2>0 DEF AgentsOK, SnapshotsAge
    <2>10. {sweeps, folder, cloning, fresh, withdrawn} \subseteq SUBSET Roots
      BY <2>0 DEF AgentsOK, FreshAreMarked
    <2> QED BY <2>1, <2>4, <2>5, <2>6, <2>7, <2>8, <2>9, <2>10
            DEF TypeOK, Distinct, LaunchState
  <1> QED BY <1>1, TrustInvariance, PTL

(* No agent of a root runs on once the revocation of its trust has returned *)
(* and until the root is trusted again.                                     *)
THEOREM RevokedAgentsAreStopped == Spec => []RevocationStopsAgents
  <1>1. TrustInvariant => RevocationStopsAgents
    BY DEF TrustInvariant
  <1> QED BY <1>1, TrustInvariance, PTL

(* A launch that a revocation overtook never gets its leases, even if its   *)
(* root is trusted again when it asks for them.                             *)
THEOREM OvertakenLaunchesEnd == Spec => []OvertakenLaunchNeverStarts
  <1>1. TrustInvariant => OvertakenLaunchNeverStarts
    BY DEF TrustInvariant, SnapshotsAge, OvertakenLaunchNeverStarts
  <1> QED BY <1>1, TrustInvariance, PTL

(* A folder that a clone made is not trusted before its user grants it, for *)
(* any limit of the revoked list, with the prune thread and over restarts.  *)
THEOREM ClonesStayUntrusted == Spec => []FreshCloneStaysUntrusted
  <1>1. TrustInvariant => FreshCloneStaysUntrusted
    BY DEF TrustInvariant, FreshAreMarked, FreshCloneStaysUntrusted
  <1> QED BY <1>1, TrustInvariance, PTL

(* The file holds what is in memory, after every refused save too, unless   *)
(* the save tore it.                                                        *)
THEOREM MemoryIsOnDisk == Spec => []DiskMatchesMemory
  <1>1. TrustInvariant => DiskMatchesMemory
    BY DEF TrustInvariant
  <1> QED BY <1>1, TrustInvariance, PTL
=============================================================================
