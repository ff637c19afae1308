-------------------------- MODULE AgentTurnLogProofs --------------------------
(****************************************************************************)
(* Proofs about AgentTurnLog: every variable keeps its type, the store      *)
(* stays a log whose last lease holder knows its end and whose rows only    *)
(* grow, and every event is accounted for, for any number of events,        *)
(* mounts, disturbances, attempts and rows of a batch.                      *)
(*                                                                          *)
(* The inductive invariant is Inv.  Its parts take the slots, the store and *)
(* so on as arguments, because a handler passes through slots that no       *)
(* variable ever holds.                                                     *)
(****************************************************************************)
EXTENDS AgentTurnLog, TLAPS, FiniteSetTheorems, WellFoundedInduction

Pos == Nat \ {0}

----------------------------------------------------------------------------
(* Shapes. *)

Rowses == UNION {[D -> SUBSET Pos] : D \in SUBSET Pos}
RowSet == [seq : Nat, events : SUBSET Pos, text : BOOLEAN]
WindowSet == [next : Nat, dirty : Rowses, tail : RowSet, snapshot : RowSet]
Replies == {"none", "held", "sent", "ok", "busy", "unavailable", "tooLarge",
            "budgetExhausted", "supersededWriter", "sealed", "sequenceGap"}
CallSet == [kind : {"none", "open", "reopen", "append", "note"}, epoch : Nat,
            expected : Nat, ops : Rowses, seal : BOOLEAN, loss : BOOLEAN,
            reply : Replies, next : Nat]
BufferedSet == [kind : EventKinds, e : Pos]
SlotSet == [state : {"none", "opening", "writing", "retrying", "stopped", "gone"},
            gen : Nat, buffered : Seq(BufferedSet), win : WindowSet, epoch : Nat,
            expected : Nat, maxBatch : 1..MaxBatch, flushRequested : BOOLEAN,
            sealRequested : BOOLEAN, reopenPending : BOOLEAN, attempts : Nat,
            timer : {"none", "flush", "retry"}, loss : BOOLEAN, call : CallSet,
            note : CallSet, skipped : SUBSET Pos, unsaid : SUBSET Pos]
StoreSet == [epoch : Nat, next : Pos, rows : Rowses, sealed : BOOLEAN, loss : BOOLEAN]

----------------------------------------------------------------------------
(* Rows in the order of their first events. *)

Rows(f) == {<<k, f[k]>> : k \in DOMAIN f}
TailRow(w) == IF w.tail.text THEN {<<w.tail.seq, w.tail.events>>} ELSE {}
SnapshotRow(w) ==
    IF w.snapshot.seq # 0 THEN {<<w.snapshot.seq, w.snapshot.events>>} ELSE {}
WindowRows(w) == Rows(w.dirty) \cup TailRow(w) \cup SnapshotRow(w)

Least(S, x) == x \in S /\ \A y \in S : x <= y

(* Versions of one row have the same first event; a row with a smaller      *)
(* number has an earlier one, and no event in common.                       *)
InOrder(V) ==
    \A v, w \in V : \A x \in v[2], y \in w[2] :
        (Least(v[2], x) /\ Least(w[2], y)) =>
            /\ v[1] < w[1] => (x < y /\ v[2] \cap w[2] = {})
            /\ v[1] = w[1] => x = y

(* Everything in these rows is older than event e. *)
RowsBelow(f, e) == \A k \in DOMAIN f : k < e /\ \A x \in f[k] : x < e
RowBelow(row, e) == row.seq < e /\ \A x \in row.events : x < e
WindowBelow(w, e) ==
    w.next <= e /\ RowsBelow(w.dirty, e) /\ RowBelow(w.tail, e) /\ RowBelow(w.snapshot, e)
StoreBelow(st, e) == st.next <= e /\ RowsBelow(st.rows, e)
Below(s, e) == WindowBelow(s.win, e) /\ RowsBelow(s.call.ops, e)

(* The rows that the window still grows contain what f has of them. *)
Held(f, w) ==
    /\ (w.tail.text /\ w.tail.seq \in DOMAIN f) => f[w.tail.seq] \subseteq w.tail.events
    /\ w.snapshot.seq \in DOMAIN f => f[w.snapshot.seq] \subseteq w.snapshot.events

(* What f has of a row is in every later version of it. *)
Covers(g, f) == \A k \in DOMAIN f \cap DOMAIN g : f[k] \subseteq g[k]

----------------------------------------------------------------------------
(* A slot. *)

WindowShape(w) ==
    /\ w \in WindowSet /\ w.next # 0
    /\ DOMAIN w.dirty \subseteq 1..(w.next - 1)
    /\ w.tail.text => w.tail.seq \in 1..(w.next - 1) /\ w.tail.events # {}
    /\ w.snapshot.seq # 0 => w.snapshot.seq < w.next /\ w.snapshot.events # {}
    /\ (w.tail.text /\ w.snapshot.seq # 0) => w.tail.seq # w.snapshot.seq
    /\ Held(w.dirty, w)

(* The slot may still append: it is alive, or an append of it under way has *)
(* the last lease.                                                          *)
InForce(s, st) == s.epoch # 0 /\ (Alive(s) \/ s.epoch = st.epoch)

LifeOK(s) ==
    /\ ~Alive(s) => /\ s.win = NoWindow /\ s.buffered = <<>> /\ s.timer = "none"
                    /\ ~s.loss /\ s.skipped = {}
    /\ (Alive(s) /\ ~HasWindow(s)) => /\ s.win = NoWindow /\ s.epoch = 0 /\ s.skipped = {}
                                      /\ s.expected = 0
                                      /\ s.state # "writing" /\ s.timer # "flush"
    /\ HasWindow(s) => s.buffered = <<>> /\ s.epoch # 0 /\ s.state # "opening"
    /\ s.skipped # {} => s.loss
    /\ s.timer = "retry" => s.state = "retrying" /\ s.call = NoCall
    /\ (s.state = "retrying" /\ s.timer # "retry") => HasWindow(s) /\ s.win.dirty # <<>>

CallOK(s, st) ==
    /\ s.epoch <= st.epoch /\ s.call.epoch <= st.epoch /\ s.note.epoch <= st.epoch
    /\ s.call.kind \in {"none", "open", "reopen", "append"}
    /\ s.call.kind = "none" => s.call = NoCall
    /\ s.call.kind # "none" => s.call.reply # "none"
    /\ s.call.kind \in {"open", "reopen"} => s.call.ops = <<>>
    /\ Alive(s) => s.call.kind \in IF HasWindow(s) THEN {"none", "reopen", "append"}
                                                   ELSE {"none", "open"}
    /\ s.call.reply = "held" => s.state = "opening" /\ s.call.kind = "open"
    /\ s.note.kind = "none" => s.note = NoCall
    /\ s.note.kind # "none" => /\ s.note.kind = "note" /\ s.note.ops = <<>>
                               /\ s.note.epoch = s.epoch /\ s.note.loss /\ ~s.note.seal
                               /\ s.note.reply \notin {"none", "held"}
    /\ s.note.reply = "ok" => st.loss
    /\ ~Alive(s) \/ s.note = NoCall

(* An append c of the slot. *)
AppendOK(s, c, st) ==
    /\ s.epoch # 0 /\ c.epoch = s.epoch /\ c.expected = s.expected
    /\ IsFiniteSet(DOMAIN c.ops) /\ Cardinality(DOMAIN c.ops) <= MaxBatch
    /\ \A k \in DOMAIN c.ops : c.expected..k \subseteq DOMAIN c.ops
    /\ InForce(s, st) =>
         /\ c.loss \/ Covers(c.ops, st.rows)
         /\ c.reply = "ok" => /\ c.next = st.next
                              /\ \A k \in DOMAIN c.ops :
                                    k \in DOMAIN st.rows /\ st.rows[k] = c.ops[k]
                              /\ c.loss => st.loss
         /\ c.reply = "sequenceGap" => c.next = st.next
    /\ Alive(s) => /\ c.loss => s.loss
                   /\ c.seal => s.sealRequested /\ c.loss = s.loss

(* The window, against the rows that are stored and those under way. *)
WindowOK(s, ops, st) ==
    /\ WindowShape(s.win)
    /\ s.expected \in 1..st.next /\ st.next <= s.win.next
    /\ s.expected..(s.win.next - 1) \subseteq DOMAIN s.win.dirty
    /\ DOMAIN ops \subseteq 1..(s.win.next - 1)
    /\ Held(st.rows, s.win) /\ Held(ops, s.win)
    /\ s.loss \/ (Covers(s.win.dirty, st.rows) /\ Covers(s.win.dirty, ops))

SlotVersions(s, ops, st) == Rows(st.rows) \cup Rows(ops) \cup WindowRows(s.win)

SlotOK(s, st) ==
    /\ s \in SlotSet /\ LifeOK(s) /\ CallOK(s, st)
    /\ s.call.kind = "append" => AppendOK(s, s.call, st)
    /\ (Alive(s) /\ HasWindow(s)) => WindowOK(s, s.call.ops, st)
    /\ InForce(s, st) => InOrder(SlotVersions(s, s.call.ops, st))

(* Between two steps, a slot that is writing with no call under way knows   *)
(* where the log ends, and one that retries has a timer or a call.          *)
Settled(s, st) ==
    /\ (s.state = "writing" /\ s.call = NoCall) => s.expected = st.next
    /\ s.state = "retrying" => (s.timer = "retry" \/ s.call # NoCall)

----------------------------------------------------------------------------
(* The slots together. *)

StoreOK(st) ==
    /\ st \in StoreSet
    /\ DOMAIN st.rows = 1..(st.next - 1)
    /\ InOrder(Rows(st.rows))

Granted(s) == Alive(s) /\ s.call.kind \in {"open", "reopen"} /\ s.call.reply = "ok"

EpochsOK(sl, st) ==
    \A m \in Mounts :
        /\ \A n \in Mounts \ {m} :
              /\ sl[m].epoch = sl[n].epoch => sl[m].epoch = 0
              /\ (Alive(sl[m]) /\ sl[m].epoch # 0) => sl[n].epoch < sl[m].epoch
        /\ Granted(sl[m]) => /\ sl[m].call.next = st.next
                             /\ \A n \in Mounts : sl[n].epoch < sl[m].call.epoch

(* What is stored, and what is or will be under way, is older than e. *)
Newer(sl, st, e) == StoreBelow(st, e) /\ \A m \in Mounts : Below(sl[m], e)

ArrivalsOK(sl, st, rec) ==
    /\ Newer(sl, st, rec + 1)
    /\ \A m \in Mounts : \A i \in DOMAIN sl[m].buffered :
         LET b == sl[m].buffered[i].e
         IN /\ b <= rec /\ Newer(sl, st, b)
            /\ \A j \in DOMAIN sl[m].buffered : i < j => b < sl[m].buffered[j].e
            /\ \A n \in Mounts : \A j \in DOMAIN sl[n].buffered :
                  n < m => sl[n].buffered[j].e < b

Kept(s) == Pending(s) \cup s.unsaid \cup s.skipped

(* What a slot gives up unseen when its log is sealed: nothing that is not  *)
(* stored, covered by the stored loss or counted as dropped before.         *)
Spared(s, st) ==
    st.loss \/ Pending(s) \cup s.skipped \subseteq EventsOf(st.rows) \cup s.unsaid

(* The log is sealed only by a batch that holds all that is pending, so     *)
(* nothing of a slot that is still alive is missing from a sealed log.      *)
SealOK(s, st) ==
    /\ (st.sealed /\ Alive(s)) => s.buffered = <<>> /\ Spared(s, st)
    /\ s.call.kind = "append" =>
         /\ s.call.seal => s.sealRequested
         /\ (s.call.seal /\ Alive(s)) => EventsOf(s.win.dirty) \subseteq EventsOf(s.call.ops)
         /\ s.call.reply = "sealed" => st.sealed

Accounted(sl, st, rec) ==
    st.loss \/ 1..rec \subseteq EventsOf(st.rows) \cup UNION {Kept(sl[m]) : m \in Mounts}

MountsOK(sl, lv, rt, mt) ==
    /\ mt \in Mounts /\ lv \in {0, mt} /\ (lv = 0 => mt < MaxMounts)
    /\ rt \in 0..mt /\ (rt # 0 => rt # lv)
    /\ \A m \in Mounts :
         /\ m > mt => sl[m] = Unopened
         /\ Alive(sl[m]) => m \in {lv, rt}
         /\ (m = lv /\ rt # 0 /\ Alive(sl[m])) => sl[m].call.reply = "held"
         /\ sl[m].call.reply = "held" => m = lv /\ rt # 0

(* Once a log is asked for its seal no event arrives, and no other slot     *)
(* holds one back, unless the slot that is asked has no lease to seal with  *)
(* as long as a writer before it is retiring.                               *)
SealsOK(sl, st, term) ==
    /\ ~term => ~st.sealed /\ \A m \in Mounts : ~sl[m].sealRequested
    /\ \A m \in Mounts : SealOK(sl[m], st)
    /\ \A m \in Mounts : \A n \in Mounts \ {m} :
         sl[m].sealRequested => sl[n].buffered = <<>> \/ (n < m /\ sl[m].epoch = 0)

Global(sl, st, rec) ==
    /\ StoreOK(st)
    /\ sl \in [Mounts -> SlotSet]
    /\ \A m \in Mounts : SlotOK(sl[m], st)
    /\ EpochsOK(sl, st) /\ ArrivalsOK(sl, st, rec) /\ Accounted(sl, st, rec)

(* All of the state, between any two steps of a handler. *)
Shared(sl, st, rec, lv, rt, mt, term) ==
    /\ Global(sl, st, rec)
    /\ MountsOK(sl, lv, rt, mt)
    /\ SealsOK(sl, st, term)

Scalars ==
    /\ gen \in Nat /\ recorded \in 0..MaxEvents /\ disturbed \in 0..MaxDisturbances
    /\ openRequest \in BOOLEAN /\ terminal \in BOOLEAN

Inv ==
    /\ Scalars
    /\ Shared(slot, store, recorded, live, retiring, mounts, terminal)
    /\ \A m \in Mounts : Settled(slot[m], store)

----------------------------------------------------------------------------
(* Numbers, and rows as functions. *)

(* A set of natural numbers that is not empty has a least element. *)
LEMMA LeastNumber ==
    ASSUME NEW T, T \subseteq Nat, T # {}
    PROVE  \E x \in T : \A y \in T : x <= y
<1> DEFINE R == OpToRel(<, Nat)
<1>1. IsWellFoundedOn(R, Nat)
  BY NatLessThanWellFounded
<1>2. \A x, y \in Nat : <<y, x>> \in R <=> y < x
  BY DEF OpToRel
<1> HIDE DEF R
<1>3. PICK x \in T : \A y \in T : ~(<<y, x>> \in R)
  BY <1>1, WFMin
<1>4. ASSUME NEW y \in T PROVE x <= y
  <2>1. x \in Nat /\ y \in Nat /\ ~(y < x)
    BY <1>2, <1>3
  <2> QED BY <2>1
<1> QED BY <1>3, <1>4

LEMMA LeastExists ==
    ASSUME NEW T, T \subseteq Nat, T # {}
    PROVE  \E x \in T : Least(T, x)
BY LeastNumber DEF Least

(* A set of natural numbers with an upper bound has a greatest element. *)
LEMMA GreatestNumber ==
    ASSUME NEW T, T \subseteq Nat, T # {}, NEW n \in Nat, \A x \in T : x <= n
    PROVE  \E x \in T : \A y \in T : y <= x
<1> DEFINE U == {n - x : x \in T}
<1>1. U \subseteq Nat /\ U # {}
  <2>1. \A x \in T : n - x \in Nat
    OBVIOUS
  <2>2. PICK x : x \in T
    OBVIOUS
  <2>3. n - x \in U
    BY <2>2
  <2> QED BY <2>1, <2>3
<1>2. PICK u \in U : \A y \in U : u <= y
  <2> HIDE DEF U
  <2> QED BY <1>1, LeastNumber
<1>3. PICK x \in T : u = n - x
  BY <1>2
<1>4. ASSUME NEW y \in T PROVE y <= x
  <2>1. n - y \in U
    OBVIOUS
  <2>2. n - x <= n - y
    BY <1>2, <1>3, <2>1
  <2> QED BY <2>2
<1> QED BY <1>4

LEMMA RowsesElim ==
    ASSUME NEW f \in Rowses
    PROVE  /\ f \in [DOMAIN f -> SUBSET Pos] /\ DOMAIN f \subseteq Pos
           /\ f = <<>> <=> DOMAIN f = {}
           /\ \A k \in DOMAIN f : f[k] \subseteq Pos
<1>1. PICK D \in SUBSET Pos : f \in [D -> SUBSET Pos]
  BY DEF Rowses
<1> QED BY <1>1

LEMMA RowsesIntro ==
    ASSUME NEW f, f \in [DOMAIN f -> SUBSET Pos], DOMAIN f \subseteq Pos
    PROVE  f \in Rowses
BY DEF Rowses

LEMMA NoRows == <<>> \in Rowses /\ DOMAIN <<>> = {} /\ EventsOf(<<>>) = {} /\ Rows(<<>>) = {}
<1>1. <<>> \in [{} -> SUBSET Pos] /\ DOMAIN <<>> = {}
  OBVIOUS
<1>2. <<>> \in Rowses
  BY <1>1, Zenon DEF Rowses
<1>3. EventsOf(<<>>) = {} /\ Rows(<<>>) = {}
  BY <1>1, Zenon DEF EventsOf, Rows
<1> QED BY <1>1, <1>2, <1>3

LEMMA EventsOfIn ==
    ASSUME NEW f \in Rowses
    PROVE  /\ EventsOf(f) \subseteq Pos
           /\ \A x : x \in EventsOf(f) <=> \E k \in DOMAIN f : x \in f[k]
<1>1. \A k \in DOMAIN f : f[k] \subseteq Pos
  BY RowsesElim
<1> QED BY <1>1 DEF EventsOf

LEMMA RowsIn ==
    ASSUME NEW f \in Rowses
    PROVE  /\ Rows(f) \subseteq Pos \X SUBSET Pos
           /\ \A v : v \in Rows(f) <=> \E k \in DOMAIN f : v = <<k, f[k]>>
<1>1. DOMAIN f \subseteq Pos /\ \A k \in DOMAIN f : f[k] \subseteq Pos
  BY RowsesElim
<1> QED BY <1>1 DEF Rows

----------------------------------------------------------------------------
(* Order. *)

LEMMA InOrderSubset ==
    ASSUME NEW V, NEW U, U \subseteq V, InOrder(V)
    PROVE  InOrder(U)
BY Zenon DEF InOrder

(* The version of a row gets one more event, newer than all others. *)
LEMMA InOrderGrow ==
    ASSUME NEW V, V \subseteq Nat \X SUBSET Nat, InOrder(V),
           NEW q, NEW R, <<q, R>> \in V, R # {},
           NEW e \in Nat, \A v \in V : \A x \in v[2] : x < e
    PROVE  InOrder(V \cup {<<q, R \cup {e}>>})
<1> DEFINE new == <<q, R \cup {e}>>
<1>1. q \in Nat /\ R \subseteq Nat /\ \A x \in R : x < e
  OBVIOUS
<1>2. ASSUME NEW x, Least(R \cup {e}, x) PROVE Least(R, x) /\ x \in R
  <2>1. PICK y \in R : Least(R, y)
    BY <1>1, LeastExists
  <2> QED BY <1>1, <1>2, <2>1 DEF Least
<1>3. ASSUME NEW w \in V, NEW x, NEW y, Least(R \cup {e}, x), Least(w[2], y), y \in w[2]
      PROVE  /\ q < w[1] => (x < y /\ (R \cup {e}) \cap w[2] = {})
             /\ w[1] < q => (y < x /\ w[2] \cap (R \cup {e}) = {})
             /\ w[1] = q => x = y
  <2>1. Least(R, x) /\ x \in R
    BY <1>2, <1>3
  <2> DEFINE old == <<q, R>>
  <2>2. old \in V /\ old[1] = q /\ old[2] = R
    OBVIOUS
  <2> HIDE DEF old
  <2>3. /\ q < w[1] => (x < y /\ R \cap w[2] = {})
        /\ w[1] < q => (y < x /\ w[2] \cap R = {})
        /\ w[1] = q => x = y
    BY <1>3, <2>1, <2>2 DEF InOrder
  <2>4. e \notin w[2]
    BY <1>1
  <2> QED BY <2>3, <2>4
<1>4. new[1] = q /\ new[2] = R \cup {e}
  OBVIOUS
<1>5. SUFFICES ASSUME NEW u \in V \cup {new}, NEW w \in V \cup {new},
                      NEW x \in u[2], NEW y \in w[2], Least(u[2], x), Least(w[2], y)
               PROVE  /\ u[1] < w[1] => (x < y /\ u[2] \cap w[2] = {})
                      /\ u[1] = w[1] => x = y
  BY Zenon DEF InOrder
<1> HIDE DEF new
<1>6. CASE u \in V /\ w \in V
  BY <1>5, <1>6 DEF InOrder
<1>7. CASE u = new /\ w \in V
  <2>1. Least(R \cup {e}, x) /\ Least(w[2], y) /\ y \in w[2]
    BY <1>4, <1>5, <1>7, Zenon
  <2>2. /\ q < w[1] => (x < y /\ (R \cup {e}) \cap w[2] = {})
        /\ w[1] = q => x = y
    BY <1>3, <1>7, <2>1, Zenon
  <2> QED BY <1>4, <1>7, <2>2, Zenon
<1>8. CASE u \in V /\ w = new
  <2>1. Least(R \cup {e}, y) /\ Least(u[2], x) /\ x \in u[2]
    BY <1>4, <1>5, <1>8, Zenon
  <2>2. /\ u[1] < q => (x < y /\ u[2] \cap (R \cup {e}) = {})
        /\ u[1] = q => y = x
    BY <1>3, <1>8, <2>1, Zenon
  <2> QED BY <1>4, <1>8, <2>2, Zenon
<1>9. CASE u = new /\ w = new
  <2>1. x \in Nat /\ y \in Nat /\ x <= y /\ y <= x
    BY <1>1, <1>4, <1>5, <1>9 DEF Least
  <2> QED BY <1>1, <1>4, <1>9, <2>1
<1> QED BY <1>5, <1>6, <1>7, <1>8, <1>9

(* A new row behind all others has one event, newer than all others. *)
LEMMA InOrderNew ==
    ASSUME NEW V, V \subseteq Nat \X SUBSET Nat, InOrder(V),
           NEW q \in Nat, \A v \in V : v[1] < q,
           NEW e \in Nat, \A v \in V : \A x \in v[2] : x < e
    PROVE  InOrder(V \cup {<<q, {e}>>})
<1> DEFINE new == <<q, {e}>>
<1>1. new[1] = q /\ new[2] = {e} /\ \A x \in new[2] : x = e
  OBVIOUS
<1>2. SUFFICES ASSUME NEW u \in V \cup {new}, NEW w \in V \cup {new},
                      NEW x \in u[2], NEW y \in w[2], Least(u[2], x), Least(w[2], y)
               PROVE  /\ u[1] < w[1] => (x < y /\ u[2] \cap w[2] = {})
                      /\ u[1] = w[1] => x = y
  BY Zenon DEF InOrder
<1> HIDE DEF new
<1>3. CASE u \in V /\ w \in V
  BY <1>2, <1>3 DEF InOrder
<1>4. CASE u = new /\ w \in V
  <2>1. w[1] \in Nat /\ w[1] < q
    BY <1>4
  <2> QED BY <1>1, <1>4, <2>1
<1>5. CASE u \in V /\ w = new
  <2>1. u[1] \in Nat /\ u[1] < q /\ x < e /\ e \notin u[2] /\ y = e
    BY <1>1, <1>5
  <2> QED BY <1>1, <1>5, <2>1
<1>6. CASE u = new /\ w = new
  BY <1>1, <1>6
<1> QED BY <1>2, <1>3, <1>4, <1>5, <1>6

(* A version without events has no place in the order. *)
LEMMA InOrderEmpty ==
    ASSUME NEW V, InOrder(V), NEW q
    PROVE  InOrder(V \cup {<<q, {}>>})
<1>1. \A v \in V \cup {<<q, {}>>} : \A x \in v[2] : v \in V
  OBVIOUS
<1> QED BY <1>1, Zenon DEF InOrder

----------------------------------------------------------------------------
(* Windows. *)

LEMMA NoWindowIsEmpty ==
    /\ NoWindow \in WindowSet /\ NoWindow.next = 0 /\ NoWindow.dirty = <<>>
    /\ WindowRows(NoWindow) = {}
<1>1. NoRow \in RowSet /\ ~NoRow.text /\ NoRow.seq = 0
  BY DEF NoRow, RowSet
<1>2. /\ NoWindow.next = 0 /\ NoWindow.dirty = <<>> /\ NoWindow.tail = NoRow
      /\ NoWindow.snapshot = NoRow
  BY Zenon DEF NoWindow
<1>3. NoWindow \in WindowSet
  <2> HIDE DEF NoRow
  <2> QED BY <1>1, NoRows DEF NoWindow, WindowSet
<1> QED BY <1>1, <1>2, <1>3, NoRows DEF WindowRows, TailRow, SnapshotRow

(* The fields of a window. *)
LEMMA WindowFields ==
    ASSUME NEW w \in WindowSet
    PROVE  /\ w.next \in Nat /\ w.dirty \in Rowses
           /\ w.tail \in RowSet /\ w.snapshot \in RowSet
           /\ w.tail.seq \in Nat /\ w.tail.events \subseteq Pos /\ w.tail.text \in BOOLEAN
           /\ w.snapshot.seq \in Nat /\ w.snapshot.events \subseteq Pos
           /\ DOMAIN w.dirty \subseteq Pos
           /\ \A k \in DOMAIN w.dirty : w.dirty[k] \subseteq Pos
<1>1. w.next \in Nat /\ w.dirty \in Rowses /\ w.tail \in RowSet /\ w.snapshot \in RowSet
  BY DEF WindowSet
<1>2. DOMAIN w.dirty \subseteq Pos /\ \A k \in DOMAIN w.dirty : w.dirty[k] \subseteq Pos
  BY <1>1, RowsesElim
<1> QED BY <1>1, <1>2 DEF RowSet

LEMMA MarkDirtyFields ==
    ASSUME NEW w \in WindowSet, NEW q \in Pos, NEW E \in SUBSET Pos,
           NEW r, r = MarkDirty(w, q, E)
    PROVE  /\ r \in WindowSet /\ r.next = w.next /\ r.tail = w.tail
           /\ r.snapshot = w.snapshot
           /\ DOMAIN r.dirty = DOMAIN w.dirty \cup {q}
           /\ r.dirty[q] = E
           /\ \A k \in DOMAIN w.dirty \ {q} : r.dirty[k] = w.dirty[k]
<1> DEFINE d == [s \in DOMAIN w.dirty \cup {q} |-> IF s = q THEN E ELSE w.dirty[s]]
<1>1. DOMAIN d = DOMAIN w.dirty \cup {q}
  OBVIOUS
<1>2. d[q] = E /\ \A k \in DOMAIN w.dirty \ {q} : d[k] = w.dirty[k]
  OBVIOUS
<1>3. d \in Rowses
  <2>1. DOMAIN d \subseteq Pos
    BY <1>1, WindowFields, Zenon
  <2>2. ASSUME NEW k \in DOMAIN d PROVE d[k] \in SUBSET Pos
    BY WindowFields
  <2>3. d \in [DOMAIN d -> SUBSET Pos]
    BY <2>2
  <2> HIDE DEF d
  <2> QED BY <2>1, <2>3, RowsesIntro
<1>4. r = [w EXCEPT !.dirty = d]
  BY DEF MarkDirty
<1> HIDE DEF d
<1>5. r \in WindowSet /\ r.next = w.next /\ r.tail = w.tail /\ r.snapshot = w.snapshot /\ r.dirty = d
  BY <1>3, <1>4 DEF WindowSet
<1> QED BY <1>1, <1>2, <1>5, Zenon

(* What a window becomes when an event is put into row q, whose events are  *)
(* E from then on.                                                          *)
Put(w, r, q, E) ==
    /\ r \in WindowSet
    /\ DOMAIN r.dirty = DOMAIN w.dirty \cup {q} /\ r.dirty[q] = E
    /\ \A k \in DOMAIN w.dirty \ {q} : r.dirty[k] = w.dirty[k]

GrewTail(w, r, e) ==
    /\ w.tail.text
    /\ Put(w, r, w.tail.seq, w.tail.events \cup {e})
    /\ r.next = w.next /\ r.snapshot = w.snapshot
    /\ r.tail.seq = w.tail.seq /\ r.tail.events = w.tail.events \cup {e} /\ r.tail.text

GrewSnapshot(w, r, e) ==
    /\ w.snapshot.seq # 0 /\ ~w.tail.text
    /\ Put(w, r, w.snapshot.seq, w.snapshot.events \cup {e})
    /\ r.next = w.next /\ r.tail = w.tail
    /\ r.snapshot.seq = w.snapshot.seq /\ r.snapshot.events = w.snapshot.events \cup {e}

NewRow(w, r, e) ==
    /\ Put(w, r, w.next, {e})
    /\ r.next = w.next + 1
    /\ r.tail.seq = w.next /\ r.tail.events = {e}
    /\ \/ r.snapshot = w.snapshot
       \/ r.snapshot.seq = w.next /\ r.snapshot.events = {e} /\ ~r.tail.text

LEMMA AcceptCases ==
    ASSUME NEW w, WindowShape(w), NEW kind \in EventKinds, NEW e \in Pos
    PROVE  LET r == AcceptEvent(w, kind, e)
           IN IF kind = "oversized" THEN r = w
              ELSE GrewTail(w, r, e) \/ GrewSnapshot(w, r, e) \/ NewRow(w, r, e)
<1> DEFINE r == AcceptEvent(w, kind, e)
<1>0. w \in WindowSet /\ w.next \in Pos
  BY WindowFields DEF WindowShape, Pos
<1>1. CASE kind = "oversized"
  BY <1>1 DEF AcceptEvent
<1>2. CASE kind = "text" /\ w.tail.text
  <2> DEFINE E == w.tail.events \cup {e}
             d == MarkDirty(w, w.tail.seq, E)
  <2>0. d = MarkDirty(w, w.tail.seq, E)
    OBVIOUS
  <2>1. w.tail.seq \in Pos /\ E \in SUBSET Pos
    BY <1>0, <1>2, WindowFields DEF WindowShape, Pos
  <2>2. /\ d \in WindowSet /\ d.next = w.next /\ d.tail = w.tail /\ d.snapshot = w.snapshot
        /\ DOMAIN d.dirty = DOMAIN w.dirty \cup {w.tail.seq} /\ d.dirty[w.tail.seq] = E
        /\ \A k \in DOMAIN w.dirty \ {w.tail.seq} : d.dirty[k] = w.dirty[k]
    <3> HIDE DEF d, E
    <3> QED BY <1>0, <2>0, <2>1, MarkDirtyFields
  <2>3. r = [d EXCEPT !.tail.events = E]
    BY <1>2 DEF AcceptEvent, CoalesceIntoTail
  <2> HIDE DEF d, r, E
  <2>4. d.tail \in RowSet
    BY <2>2, WindowFields
  <2>5. r = [d EXCEPT !.tail = [d.tail EXCEPT !.events = E]]
    BY <2>3
  <2> DEFINE t == [d.tail EXCEPT !.events = E]
  <2>6. t \in RowSet /\ t.seq = d.tail.seq /\ t.text = d.tail.text /\ t.events = E
    BY <2>1, <2>4 DEF RowSet
  <2> HIDE DEF t
  <2>7. r = [d EXCEPT !.tail = t]
    BY <2>5, Zenon DEF t
  <2>8. r \in WindowSet /\ r.next = d.next /\ r.dirty = d.dirty /\ r.snapshot = d.snapshot /\ r.tail = t
    BY <2>2, <2>6, <2>7 DEF WindowSet
  <2>9. GrewTail(w, r, e)
    BY <1>2, <2>2, <2>6, <2>8, Zenon DEF GrewTail, Put, E
  <2>10. kind # "oversized"
    BY <1>2
  <2> QED BY <2>9, <2>10, Zenon DEF r
<1>3. CASE kind = "snapshot" /\ w.snapshot.seq # 0 /\ ~w.tail.text
  <2> DEFINE E == w.snapshot.events \cup {e}
             d == MarkDirty(w, w.snapshot.seq, E)
  <2>0. d = MarkDirty(w, w.snapshot.seq, E)
    OBVIOUS
  <2>1. w.snapshot.seq \in Pos /\ E \in SUBSET Pos
    BY <1>0, <1>3, WindowFields DEF WindowShape, Pos
  <2>2. /\ d \in WindowSet /\ d.next = w.next /\ d.tail = w.tail /\ d.snapshot = w.snapshot
        /\ DOMAIN d.dirty = DOMAIN w.dirty \cup {w.snapshot.seq} /\ d.dirty[w.snapshot.seq] = E
        /\ \A k \in DOMAIN w.dirty \ {w.snapshot.seq} : d.dirty[k] = w.dirty[k]
    <3> HIDE DEF d, E
    <3> QED BY <1>0, <2>0, <2>1, MarkDirtyFields
  <2>3. r = [d EXCEPT !.snapshot.events = E]
    BY <1>3 DEF AcceptEvent, SupersedeInPlace
  <2> HIDE DEF d, r, E
  <2>4. d.snapshot \in RowSet
    BY <2>2, WindowFields
  <2>5. r = [d EXCEPT !.snapshot = [d.snapshot EXCEPT !.events = E]]
    BY <2>3
  <2> DEFINE t == [d.snapshot EXCEPT !.events = E]
  <2>6. t \in RowSet /\ t.seq = d.snapshot.seq /\ t.events = E
    BY <2>1, <2>4 DEF RowSet
  <2> HIDE DEF t
  <2>7. r = [d EXCEPT !.snapshot = t]
    BY <2>5, Zenon DEF t
  <2>8. r \in WindowSet /\ r.next = d.next /\ r.dirty = d.dirty /\ r.tail = d.tail /\ r.snapshot = t
    BY <2>2, <2>6, <2>7 DEF WindowSet
  <2>9. GrewSnapshot(w, r, e)
    BY <1>3, <2>2, <2>6, <2>8, Zenon DEF GrewSnapshot, Put, E
  <2>10. kind # "oversized"
    BY <1>3
  <2> QED BY <2>9, <2>10, Zenon DEF r
<1>4. CASE /\ kind # "oversized"
           /\ ~(kind = "text" /\ w.tail.text)
           /\ ~(kind = "snapshot" /\ w.snapshot.seq # 0 /\ ~w.tail.text)
  <2> DEFINE row == [seq |-> w.next, events |-> {e}, text |-> kind = "text"]
             d == MarkDirty(w, w.next, {e})
             t == IF kind = "snapshot" THEN row ELSE d.snapshot
  <2>1. /\ d \in WindowSet /\ d.next = w.next /\ d.tail = w.tail /\ d.snapshot = w.snapshot
        /\ DOMAIN d.dirty = DOMAIN w.dirty \cup {w.next} /\ d.dirty[w.next] = {e}
        /\ \A k \in DOMAIN w.dirty \ {w.next} : d.dirty[k] = w.dirty[k]
    <3>1. {e} \in SUBSET Pos /\ d = MarkDirty(w, w.next, {e})
      OBVIOUS
    <3> HIDE DEF d
    <3> QED BY <1>0, <3>1, MarkDirtyFields
  <2>2. r = [d EXCEPT !.next = w.next + 1, !.tail = row, !.snapshot = t]
    <3>1. r = AppendRow(w, kind, e)
      BY <1>4, Zenon DEF AcceptEvent
    <3> QED BY <3>1 DEF AppendRow
  <2>3. row \in RowSet /\ row.seq = w.next /\ row.events = {e} /\ row.text = (kind = "text")
    BY <1>0 DEF RowSet, Pos
  <2>4. t \in RowSet /\ ((t = row /\ kind = "snapshot") \/ t = w.snapshot)
    BY <2>1, <2>3, WindowFields
  <2>5. w.next + 1 \in Nat
    BY <1>0 DEF Pos
  <2> HIDE DEF d, r, row, t
  <2>6. /\ r \in WindowSet /\ r.next = w.next + 1 /\ r.dirty = d.dirty /\ r.tail = row
        /\ r.snapshot = t
    BY <2>1, <2>2, <2>3, <2>4, <2>5 DEF WindowSet
  <2>7. NewRow(w, r, e)
    BY <2>1, <2>3, <2>4, <2>6 DEF NewRow, Put
  <2> QED BY <1>4, <2>7, Zenon DEF r
<1> QED BY <1>1, <1>2, <1>3, <1>4

(* An event that enters the window keeps its shape, fills the rows it adds, *)
(* and drops no event.                                                      *)
(* The window r has what w had, rows for its new numbers, and the event. *)
Accepts(w, kind, e, r) ==
    /\ WindowShape(r) /\ w.next <= r.next
    /\ DOMAIN w.dirty \subseteq DOMAIN r.dirty
    /\ w.next..(r.next - 1) \subseteq DOMAIN r.dirty
    /\ EventsOf(w.dirty) \subseteq EventsOf(r.dirty)
    /\ kind # "oversized" => e \in EventsOf(r.dirty)

LEMMA AcceptShape ==
    ASSUME NEW w, WindowShape(w), NEW kind \in EventKinds, NEW e \in Pos,
           NEW r, r = AcceptEvent(w, kind, e)
    PROVE  Accepts(w, kind, e, r)
<1> USE DEF Accepts
<1>0. /\ w \in WindowSet /\ w.next \in Pos /\ w.tail.seq \in Nat /\ w.snapshot.seq \in Nat
      /\ DOMAIN w.dirty \subseteq 1..(w.next - 1)
      /\ w.tail.text => w.tail.seq \in 1..(w.next - 1) /\ w.tail.events # {}
      /\ w.snapshot.seq # 0 => w.snapshot.seq < w.next /\ w.snapshot.events # {}
      /\ (w.tail.text /\ w.snapshot.seq # 0) => w.tail.seq # w.snapshot.seq
      /\ (w.tail.text /\ w.tail.seq \in DOMAIN w.dirty) => w.dirty[w.tail.seq] \subseteq w.tail.events
      /\ w.snapshot.seq \in DOMAIN w.dirty => w.dirty[w.snapshot.seq] \subseteq w.snapshot.events
  BY WindowFields DEF WindowShape, Pos, Held
<1>1. IF kind = "oversized" THEN r = w
      ELSE GrewTail(w, r, e) \/ GrewSnapshot(w, r, e) \/ NewRow(w, r, e)
  BY AcceptCases, Zenon
<1>2. CASE r = w /\ kind = "oversized"
  <2>1. w.next..(w.next - 1) = {} /\ w.next <= w.next
    BY <1>0 DEF Pos
  <2> QED BY <1>2, <2>1
<1>3. ASSUME NEW q \in Pos, NEW R \in SUBSET Pos, Put(w, r, q, R \cup {e}),
             q \in DOMAIN w.dirty => w.dirty[q] \subseteq R
      PROVE  /\ EventsOf(w.dirty) \subseteq EventsOf(r.dirty) /\ e \in EventsOf(r.dirty)
             /\ DOMAIN w.dirty \subseteq DOMAIN r.dirty
  <2>1. w.dirty \in Rowses /\ r.dirty \in Rowses
    BY <1>0, <1>3, WindowFields DEF Put
  <2>2. q \in DOMAIN r.dirty /\ r.dirty[q] = R \cup {e} /\ DOMAIN w.dirty \subseteq DOMAIN r.dirty
    BY <1>3 DEF Put
  <2>3. ASSUME NEW x \in EventsOf(w.dirty) PROVE x \in EventsOf(r.dirty)
    <3>1. PICK k \in DOMAIN w.dirty : x \in w.dirty[k]
      BY <2>1, EventsOfIn
    <3>2. k \in DOMAIN r.dirty /\ x \in r.dirty[k]
      BY <1>3, <2>2, <3>1 DEF Put
    <3> QED BY <2>1, <3>2, EventsOfIn
  <2>4. e \in EventsOf(r.dirty)
    BY <2>1, <2>2, EventsOfIn
  <2> QED BY <2>2, <2>3, <2>4
<1>4. CASE GrewTail(w, r, e)
  <2>1. w.tail.seq \in Pos /\ w.tail.events \in SUBSET Pos
    BY <1>0, <1>4, WindowFields DEF GrewTail, Pos
  <2>2. Put(w, r, w.tail.seq, w.tail.events \cup {e})
    BY <1>4 DEF GrewTail
  <2>3. /\ EventsOf(w.dirty) \subseteq EventsOf(r.dirty) /\ e \in EventsOf(r.dirty)
        /\ DOMAIN w.dirty \subseteq DOMAIN r.dirty
    BY <1>0, <1>3, <1>4, <2>1, <2>2 DEF GrewTail
  <2>4. WindowShape(r)
    BY <1>0, <1>4 DEF GrewTail, Put, WindowShape, Held, Pos
  <2> QED BY <1>0, <1>4, <2>3, <2>4 DEF GrewTail, Pos
<1>5. CASE GrewSnapshot(w, r, e)
  <2>1. w.snapshot.seq \in Pos /\ w.snapshot.events \in SUBSET Pos
    BY <1>0, <1>5, WindowFields DEF GrewSnapshot, Pos
  <2>2. Put(w, r, w.snapshot.seq, w.snapshot.events \cup {e})
    BY <1>5 DEF GrewSnapshot
  <2>3. /\ EventsOf(w.dirty) \subseteq EventsOf(r.dirty) /\ e \in EventsOf(r.dirty)
        /\ DOMAIN w.dirty \subseteq DOMAIN r.dirty
    BY <1>0, <1>3, <1>5, <2>1, <2>2 DEF GrewSnapshot
  <2>4. WindowShape(r)
    BY <1>0, <1>5 DEF GrewSnapshot, Put, WindowShape, Held, Pos
  <2> QED BY <1>0, <1>5, <2>3, <2>4 DEF GrewSnapshot, Pos
<1>6. CASE NewRow(w, r, e)
  <2>1. Put(w, r, w.next, {} \cup {e}) /\ w.next \notin DOMAIN w.dirty
    BY <1>0, <1>6 DEF NewRow, Pos
  <2>2. /\ EventsOf(w.dirty) \subseteq EventsOf(r.dirty) /\ e \in EventsOf(r.dirty)
        /\ DOMAIN w.dirty \subseteq DOMAIN r.dirty
    <3>1. {} \in SUBSET Pos
      OBVIOUS
    <3> QED BY <1>0, <1>3, <2>1, <3>1
  <2>3. WindowShape(r)
    BY <1>0, <1>6 DEF NewRow, Put, WindowShape, Held, Pos
  <2>4. w.next..(r.next - 1) \subseteq DOMAIN r.dirty /\ w.next <= r.next
    BY <1>0, <1>6 DEF NewRow, Put, Pos
  <2> QED BY <2>2, <2>3, <2>4
<1> QED BY <1>1, <1>2, <1>4, <1>5, <1>6

(* What other rows had of the window is still in it. *)
LEMMA AcceptRows ==
    ASSUME NEW w, WindowShape(w), NEW kind \in EventKinds, NEW e \in Pos,
           NEW r, r = AcceptEvent(w, kind, e),
           NEW f \in Rowses, DOMAIN f \subseteq 1..(w.next - 1), Held(f, w)
    PROVE  Held(f, r) /\ (Covers(w.dirty, f) => Covers(r.dirty, f))
<1>0. /\ w.next \in Pos /\ w.tail.seq \in Nat /\ w.snapshot.seq \in Nat
      /\ (w.tail.text /\ w.snapshot.seq # 0) => w.tail.seq # w.snapshot.seq
      /\ w.next \notin DOMAIN f /\ 0 \notin DOMAIN f
  BY WindowFields DEF WindowShape, Pos
<1>1. IF kind = "oversized" THEN r = w
      ELSE GrewTail(w, r, e) \/ GrewSnapshot(w, r, e) \/ NewRow(w, r, e)
  BY AcceptCases, Zenon
<1>2. CASE r = w
  BY <1>2
<1>3. CASE GrewTail(w, r, e)
  BY <1>0, <1>3 DEF GrewTail, Put, Held, Covers
<1>4. CASE GrewSnapshot(w, r, e)
  BY <1>0, <1>4 DEF GrewSnapshot, Put, Held, Covers
<1>5. CASE NewRow(w, r, e)
  BY <1>0, <1>5 DEF NewRow, Put, Held, Covers
<1> QED BY <1>1, <1>2, <1>3, <1>4, <1>5

(* Everything in the window is older than the events to come. *)
LEMMA AcceptBelow ==
    ASSUME NEW w, WindowShape(w), NEW kind \in EventKinds, NEW e \in Pos,
           NEW r, r = AcceptEvent(w, kind, e), WindowBelow(w, e),
           NEW f \in Nat, e < f
    PROVE  WindowBelow(r, f)
<1>0. /\ w \in WindowSet /\ w.next \in Pos /\ w.tail.seq \in Nat /\ w.snapshot.seq \in Nat
      /\ w.tail.events \subseteq Pos /\ w.snapshot.events \subseteq Pos
      /\ DOMAIN w.dirty \subseteq Pos /\ \A k \in DOMAIN w.dirty : w.dirty[k] \subseteq Pos
      /\ e \in Nat
  BY WindowFields DEF WindowShape, Pos
<1>1. /\ w.next < f /\ RowBelow(w.tail, f) /\ RowBelow(w.snapshot, f)
      /\ \A k \in DOMAIN w.dirty : k < f /\ \A x \in w.dirty[k] : x < f
  BY <1>0 DEF WindowBelow, RowBelow, RowsBelow, Pos
<1>2. IF kind = "oversized" THEN r = w
      ELSE GrewTail(w, r, e) \/ GrewSnapshot(w, r, e) \/ NewRow(w, r, e)
  BY AcceptCases, Zenon
<1>3. CASE r = w
  BY <1>0, <1>1, <1>3 DEF WindowBelow, RowsBelow, Pos
<1>4. CASE GrewTail(w, r, e)
  <2>1. RowBelow(r.tail, f) /\ RowBelow(r.snapshot, f) /\ r.next <= f
    BY <1>0, <1>1, <1>4 DEF GrewTail, RowBelow, Pos
  <2>2. RowsBelow(r.dirty, f)
    BY <1>1, <1>4 DEF GrewTail, Put, RowBelow, RowsBelow
  <2> QED BY <2>1, <2>2 DEF WindowBelow
<1>5. CASE GrewSnapshot(w, r, e)
  <2>1. RowBelow(r.tail, f) /\ RowBelow(r.snapshot, f) /\ r.next <= f
    BY <1>0, <1>1, <1>5 DEF GrewSnapshot, RowBelow, Pos
  <2>2. RowsBelow(r.dirty, f)
    BY <1>1, <1>5 DEF GrewSnapshot, Put, RowBelow, RowsBelow
  <2> QED BY <2>1, <2>2 DEF WindowBelow
<1>6. CASE NewRow(w, r, e)
  <2>1. RowBelow(r.tail, f) /\ RowBelow(r.snapshot, f) /\ r.next <= f
    BY <1>0, <1>1, <1>6 DEF NewRow, RowBelow, Pos
  <2>2. RowsBelow(r.dirty, f)
    BY <1>1, <1>6 DEF NewRow, Put, RowBelow, RowsBelow
  <2> QED BY <2>1, <2>2 DEF WindowBelow
<1> QED BY <1>2, <1>3, <1>4, <1>5, <1>6

LEMMA WindowRowsIn ==
    ASSUME NEW w \in WindowSet
    PROVE  /\ WindowRows(w) \subseteq Nat \X SUBSET Nat
           /\ \A v : v \in WindowRows(w) <=>
                 \/ \E k \in DOMAIN w.dirty : v = <<k, w.dirty[k]>>
                 \/ w.tail.text /\ v = <<w.tail.seq, w.tail.events>>
                 \/ w.snapshot.seq # 0 /\ v = <<w.snapshot.seq, w.snapshot.events>>
<1>1. /\ w.dirty \in Rowses /\ w.tail.seq \in Nat /\ w.tail.events \subseteq Nat
      /\ w.snapshot.seq \in Nat /\ w.snapshot.events \subseteq Nat
  BY WindowFields DEF Pos
<1>2. Rows(w.dirty) \subseteq Nat \X SUBSET Nat
  BY <1>1, RowsIn DEF Pos
<1>3. \A v : v \in Rows(w.dirty) <=> \E k \in DOMAIN w.dirty : v = <<k, w.dirty[k]>>
  BY <1>1, RowsIn
<1>4. TailRow(w) \subseteq Nat \X SUBSET Nat /\ SnapshotRow(w) \subseteq Nat \X SUBSET Nat
  BY <1>1 DEF TailRow, SnapshotRow
<1>5. \A v : v \in TailRow(w) <=> w.tail.text /\ v = <<w.tail.seq, w.tail.events>>
  BY DEF TailRow
<1>6. \A v : v \in SnapshotRow(w) <=>
                 w.snapshot.seq # 0 /\ v = <<w.snapshot.seq, w.snapshot.events>>
  BY DEF SnapshotRow
<1>7. WindowRows(w) \subseteq Nat \X SUBSET Nat
  BY <1>2, <1>4, Zenon DEF WindowRows
<1> QED BY <1>3, <1>5, <1>6, <1>7, Zenon DEF WindowRows

(* The rows of a window are older than an event that it is below. *)
LEMMA WindowRowsBelow ==
    ASSUME NEW w, WindowShape(w), NEW e \in Nat, WindowBelow(w, e), NEW v \in WindowRows(w)
    PROVE  v[1] < w.next /\ v[1] < e /\ \A x \in v[2] : x < e
<1>1. w \in WindowSet /\ w.next \in Pos /\ w.tail.seq \in Nat /\ w.snapshot.seq \in Nat
  BY WindowFields DEF WindowShape, Pos
<1>2. CASE \E k \in DOMAIN w.dirty : v = <<k, w.dirty[k]>>
  <2>1. PICK k \in DOMAIN w.dirty : v = <<k, w.dirty[k]>>
    BY <1>2
  <2>2. k \in 1..(w.next - 1)
    BY DEF WindowShape
  <2> QED BY <1>1, <2>1, <2>2 DEF WindowBelow, RowsBelow, Pos
<1>3. CASE w.tail.text /\ v = <<w.tail.seq, w.tail.events>>
  BY <1>1, <1>3 DEF WindowBelow, RowBelow, WindowShape, Pos
<1>4. CASE w.snapshot.seq # 0 /\ v = <<w.snapshot.seq, w.snapshot.events>>
  BY <1>1, <1>4 DEF WindowBelow, RowBelow, WindowShape, Pos
<1> QED BY <1>1, <1>2, <1>3, <1>4, WindowRowsIn, Zenon

(* The rows of a window in which one row was put. *)
LEMMA RowPut ==
    ASSUME NEW w \in WindowSet, NEW r \in WindowSet, NEW q, NEW E,
           \A k \in DOMAIN r.dirty : \/ k = q /\ r.dirty[k] = E
                                     \/ k \in DOMAIN w.dirty /\ r.dirty[k] = w.dirty[k],
           \/ r.tail.text = FALSE
           \/ r.tail.seq = q /\ r.tail.events = E
           \/ r.tail = w.tail,
           \/ r.snapshot.seq = q /\ r.snapshot.events = E
           \/ r.snapshot = w.snapshot
    PROVE  WindowRows(r) \subseteq WindowRows(w) \cup {<<q, E>>}
<1>1. SUFFICES ASSUME NEW v \in WindowRows(r), v # <<q, E>> PROVE v \in WindowRows(w)
  OBVIOUS
<1>2. CASE \E k \in DOMAIN r.dirty : v = <<k, r.dirty[k]>>
  <2>1. PICK k \in DOMAIN r.dirty : v = <<k, r.dirty[k]>>
    BY <1>2
  <2>2. k \in DOMAIN w.dirty /\ v = <<k, w.dirty[k]>>
    BY <1>1, <2>1, Zenon
  <2> QED BY <2>2, WindowRowsIn, Zenon
<1>3. CASE r.tail.text /\ v = <<r.tail.seq, r.tail.events>>
  <2>1. r.tail = w.tail
    BY <1>1, <1>3, Zenon
  <2> QED BY <1>3, <2>1, WindowRowsIn, Zenon
<1>4. CASE r.snapshot.seq # 0 /\ v = <<r.snapshot.seq, r.snapshot.events>>
  <2>1. r.snapshot = w.snapshot
    BY <1>1, <1>4, Zenon
  <2> QED BY <1>4, <2>1, WindowRowsIn, Zenon
<1> QED BY <1>1, <1>2, <1>3, <1>4, WindowRowsIn, Zenon

(* An event that enters the window keeps the order. *)
LEMMA AcceptOrder ==
    ASSUME NEW w, WindowShape(w), NEW kind \in EventKinds, NEW e \in Pos,
           NEW r, r = AcceptEvent(w, kind, e), WindowBelow(w, e),
           NEW B, B \subseteq Nat \X SUBSET Nat,
           \A v \in B : v[1] < w.next /\ \A x \in v[2] : x < e,
           InOrder(B \cup WindowRows(w))
    PROVE  InOrder(B \cup WindowRows(r))
<1> DEFINE V == B \cup WindowRows(w)
<1>0. w \in WindowSet /\ r \in WindowSet /\ w.next \in Pos /\ e \in Nat
  BY WindowFields, AcceptShape DEF Accepts, WindowShape, Pos
<1>1. V \subseteq Nat \X SUBSET Nat
  BY <1>0, WindowRowsIn, Zenon
<1>2. \A v \in V : v[1] < w.next /\ \A x \in v[2] : x < e
  BY <1>0, WindowRowsBelow
<1>3. ASSUME NEW v, WindowRows(r) \subseteq WindowRows(w) \cup {v}, InOrder(V \cup {v})
      PROVE  InOrder(B \cup WindowRows(r))
  <2>1. B \cup WindowRows(r) \subseteq V \cup {v}
    BY <1>3
  <2> QED BY <1>3, <2>1, InOrderSubset
<1> HIDE DEF V
<1>4. IF kind = "oversized" THEN r = w
      ELSE GrewTail(w, r, e) \/ GrewSnapshot(w, r, e) \/ NewRow(w, r, e)
  BY AcceptCases, Zenon
<1>5. CASE r = w
  BY <1>5
<1>6. CASE GrewTail(w, r, e)
  <2> DEFINE q == w.tail.seq
             R == w.tail.events
  <2>1. <<q, R>> \in WindowRows(w) /\ R # {}
    BY <1>0, <1>6, WindowRowsIn DEF GrewTail, WindowShape
  <2>2. WindowRows(r) \subseteq WindowRows(w) \cup {<<q, R \cup {e}>>}
    <3>1. \A k \in DOMAIN r.dirty :
             \/ k = q /\ r.dirty[k] = R \cup {e}
             \/ k \in DOMAIN w.dirty /\ r.dirty[k] = w.dirty[k]
      BY <1>6 DEF GrewTail, Put
    <3>2. r.tail.seq = q /\ r.tail.events = R \cup {e} /\ r.snapshot = w.snapshot
      BY <1>6 DEF GrewTail
    <3> DEFINE E == R \cup {e}
    <3> HIDE DEF q, R
    <3>3. \A k \in DOMAIN r.dirty : \/ k = q /\ r.dirty[k] = E
                                    \/ k \in DOMAIN w.dirty /\ r.dirty[k] = w.dirty[k]
      BY <3>1
    <3>4. /\ \/ r.tail.seq = q /\ r.tail.events = E
             \/ r.tail = w.tail
          /\ \/ r.snapshot.seq = q /\ r.snapshot.events = E
             \/ r.snapshot = w.snapshot
      BY <3>2
    <3> HIDE DEF E
    <3>5. WindowRows(r) \subseteq WindowRows(w) \cup {<<q, E>>}
      BY <1>0, <3>3, <3>4, RowPut
    <3> QED BY <3>5 DEF E
  <2>3. InOrder(V \cup {<<q, R \cup {e}>>})
    <3>1. <<q, R>> \in V /\ InOrder(V)
      BY <2>1 DEF V
    <3> HIDE DEF q, R
    <3> QED BY <1>0, <1>1, <1>2, <2>1, <3>1, InOrderGrow
  <2> QED BY <1>3, <2>2, <2>3
<1>7. CASE GrewSnapshot(w, r, e)
  <2> DEFINE q == w.snapshot.seq
             R == w.snapshot.events
  <2>1. <<q, R>> \in WindowRows(w) /\ R # {}
    BY <1>0, <1>7, WindowRowsIn DEF GrewSnapshot, WindowShape
  <2>2. WindowRows(r) \subseteq WindowRows(w) \cup {<<q, R \cup {e}>>}
    <3>1. \A k \in DOMAIN r.dirty :
             \/ k = q /\ r.dirty[k] = R \cup {e}
             \/ k \in DOMAIN w.dirty /\ r.dirty[k] = w.dirty[k]
      BY <1>7 DEF GrewSnapshot, Put
    <3>2. r.snapshot.seq = q /\ r.snapshot.events = R \cup {e} /\ r.tail = w.tail
      BY <1>7 DEF GrewSnapshot
    <3> DEFINE E == R \cup {e}
    <3> HIDE DEF q, R
    <3>3. \A k \in DOMAIN r.dirty : \/ k = q /\ r.dirty[k] = E
                                    \/ k \in DOMAIN w.dirty /\ r.dirty[k] = w.dirty[k]
      BY <3>1
    <3>4. /\ \/ r.tail.seq = q /\ r.tail.events = E
             \/ r.tail = w.tail
          /\ \/ r.snapshot.seq = q /\ r.snapshot.events = E
             \/ r.snapshot = w.snapshot
      BY <3>2
    <3> HIDE DEF E
    <3>5. WindowRows(r) \subseteq WindowRows(w) \cup {<<q, E>>}
      BY <1>0, <3>3, <3>4, RowPut
    <3> QED BY <3>5 DEF E
  <2>3. InOrder(V \cup {<<q, R \cup {e}>>})
    <3>1. <<q, R>> \in V /\ InOrder(V)
      BY <2>1 DEF V
    <3> HIDE DEF q, R
    <3> QED BY <1>0, <1>1, <1>2, <2>1, <3>1, InOrderGrow
  <2> QED BY <1>3, <2>2, <2>3
<1>8. CASE NewRow(w, r, e)
  <2> DEFINE q == w.next
  <2>1. WindowRows(r) \subseteq WindowRows(w) \cup {<<q, {e}>>}
    <3>1. \A k \in DOMAIN r.dirty :
             \/ k = q /\ r.dirty[k] = {e}
             \/ k \in DOMAIN w.dirty /\ r.dirty[k] = w.dirty[k]
      BY <1>8 DEF NewRow, Put
    <3>2. /\ r.tail.seq = q /\ r.tail.events = {e}
          /\ \/ r.snapshot = w.snapshot
             \/ r.snapshot.seq = q /\ r.snapshot.events = {e}
      BY <1>8 DEF NewRow
    <3> DEFINE E == {e}
    <3> HIDE DEF q
    <3>3. \A k \in DOMAIN r.dirty : \/ k = q /\ r.dirty[k] = E
                                    \/ k \in DOMAIN w.dirty /\ r.dirty[k] = w.dirty[k]
      BY <3>1
    <3>4. /\ \/ r.tail.seq = q /\ r.tail.events = E
             \/ r.tail = w.tail
          /\ \/ r.snapshot.seq = q /\ r.snapshot.events = E
             \/ r.snapshot = w.snapshot
      BY <3>2
    <3> HIDE DEF E
    <3>5. WindowRows(r) \subseteq WindowRows(w) \cup {<<q, E>>}
      BY <1>0, <3>3, <3>4, RowPut
    <3> QED BY <3>5 DEF E
  <2>2. InOrder(V)
    BY DEF V
  <2>3. InOrder(V \cup {<<q, {e}>>})
    BY <1>0, <1>1, <1>2, <2>2, InOrderNew DEF Pos
  <2> QED BY <1>3, <2>1, <2>3
<1> QED BY <1>4, <1>5, <1>6, <1>7, <1>8

LEMMA DirtyFinite ==
    ASSUME NEW w, WindowShape(w)
    PROVE  IsFiniteSet(DOMAIN w.dirty) /\ Cardinality(DOMAIN w.dirty) \in Nat
<1>1. w.next \in Nat
  BY WindowFields DEF WindowShape
<1>2. IsFiniteSet(1..(w.next - 1))
  BY <1>1, FS_Interval
<1>3. DOMAIN w.dirty \subseteq 1..(w.next - 1)
  BY DEF WindowShape
<1> QED BY <1>2, <1>3, FS_Subset, FS_CardinalityType

(* A batch has at most n rows, with their events, and no row before one of  *)
(* its rows is left out.                                                    *)
LEMMA TakeBatchFields ==
    ASSUME NEW w, WindowShape(w), NEW n \in Nat, NEW f, f = TakeBatch(w, n)
    PROVE  /\ f \in Rowses /\ DOMAIN f \subseteq DOMAIN w.dirty
           /\ \A k \in DOMAIN f : f[k] = w.dirty[k]
           /\ \A k \in DOMAIN f, j \in DOMAIN w.dirty : j < k => j \in DOMAIN f
           /\ IsFiniteSet(DOMAIN f) /\ Cardinality(DOMAIN f) <= n
<1> DEFINE seqs == DOMAIN w.dirty
           upTo(x) == {y \in seqs : y <= x}
           S == {x \in seqs : Cardinality(upTo(x)) <= n}
<1>1. f = [s \in S |-> w.dirty[s]]
  BY DEF TakeBatch
<1>2. DOMAIN f = S /\ S \subseteq seqs /\ \A k \in S : f[k] = w.dirty[k]
  BY <1>1
<1>3. IsFiniteSet(seqs) /\ w.next \in Nat /\ seqs \subseteq 1..(w.next - 1)
  BY DirtyFinite, WindowFields DEF WindowShape
<1>4. \A x \in seqs : IsFiniteSet(upTo(x)) /\ Cardinality(upTo(x)) \in Nat
  <2>1. \A x \in seqs : upTo(x) \subseteq seqs
    OBVIOUS
  <2> HIDE DEF upTo, seqs
  <2> QED BY <1>3, <2>1, FS_Subset, FS_CardinalityType
<1>5. ASSUME NEW k \in S, NEW j \in seqs, j < k PROVE j \in S
  <2>1. k \in seqs /\ upTo(j) \subseteq upTo(k)
    BY <1>3, <1>5
  <2>2. Cardinality(upTo(j)) <= Cardinality(upTo(k))
    <3> HIDE DEF upTo, seqs
    <3> QED BY <1>4, <2>1, FS_Subset
  <2>3. Cardinality(upTo(k)) <= n
    OBVIOUS
  <2>4. Cardinality(upTo(j)) <= n
    <3> HIDE DEF upTo, seqs
    <3> QED BY <1>4, <2>1, <2>2, <2>3
  <2> QED BY <2>4
<1>6. IsFiniteSet(S)
  BY <1>2, <1>3, FS_Subset, Zenon
<1>7. Cardinality(S) <= n
  <2>1. CASE S = {}
    <3>1. Cardinality(S) = 0
      BY <2>1, FS_EmptySet, Zenon
    <3> QED BY <3>1
  <2>2. CASE S # {}
    <3>1. \A x \in S : x <= w.next
      BY <1>3
    <3>2. S \subseteq Nat
      BY <1>3
    <3>3. PICK x \in S : \A y \in S : y <= x
      <4> HIDE DEF S
      <4> QED BY <1>3, <2>2, <3>1, <3>2, GreatestNumber
    <3>4. S \subseteq upTo(x) /\ x \in seqs /\ Cardinality(upTo(x)) <= n
      BY <3>3
    <3>5. Cardinality(S) \in Nat /\ Cardinality(S) <= Cardinality(upTo(x))
      <4> HIDE DEF S, upTo, seqs
      <4> QED BY <1>4, <1>6, <3>4, FS_Subset, FS_CardinalityType
    <3>6. Cardinality(upTo(x)) \in Nat
      <4> HIDE DEF S, upTo, seqs
      <4> QED BY <1>4, <3>4
    <3> HIDE DEF S, upTo
    <3> QED BY <3>4, <3>5, <3>6
  <2> QED BY <2>1, <2>2
<1>8. f \in Rowses
  <2>1. S \subseteq Pos /\ \A k \in S : w.dirty[k] \in SUBSET Pos
    BY <1>2, WindowFields DEF WindowShape
  <2>2. f \in [DOMAIN f -> SUBSET Pos]
    <3> HIDE DEF S
    <3> QED BY <1>1, <2>1
  <2> QED BY <1>2, <2>1, <2>2, RowsesIntro, Zenon
<1> HIDE DEF S
<1>9. \A k \in DOMAIN f, j \in DOMAIN w.dirty : j < k => j \in DOMAIN f
  BY <1>2, <1>5, Zenon
<1> QED BY <1>2, <1>6, <1>7, <1>8, <1>9, Zenon

(* A batch as large as the window holds all of it.                          *)
LEMMA TakeBatchAll ==
    ASSUME NEW w, WindowShape(w), NEW f, f = TakeBatch(w, Cardinality(DOMAIN w.dirty))
    PROVE  EventsOf(w.dirty) \subseteq EventsOf(f)
<1> DEFINE seqs == DOMAIN w.dirty
           n == Cardinality(seqs)
           upTo(x) == {y \in seqs : y <= x}
           S == {x \in seqs : Cardinality(upTo(x)) <= n}
<1>1. f = [s \in S |-> w.dirty[s]]
  BY DEF TakeBatch
<1>2. \A x \in seqs : Cardinality(upTo(x)) <= n
  <2>1. IsFiniteSet(seqs) /\ \A x \in seqs : upTo(x) \subseteq seqs
    BY DirtyFinite
  <2> HIDE DEF upTo, seqs
  <2> QED BY <2>1, FS_Subset
<1>3. S = seqs
  BY <1>2
<1> HIDE DEF S, n, upTo
<1>4. \A k \in seqs : k \in DOMAIN f /\ f[k] = w.dirty[k]
  BY <1>1, <1>3
<1> QED BY <1>4 DEF EventsOf

(* A committed batch leaves in the window the rows that changed since.      *)
LEMMA CommitBatchFields ==
    ASSUME NEW w, WindowShape(w), NEW ops \in Rowses, NEW r, r = CommitBatch(w, ops)
    PROVE  /\ WindowShape(r) /\ r.next = w.next /\ r.tail = w.tail /\ r.snapshot = w.snapshot
           /\ \A k : k \in DOMAIN r.dirty <=>
                  k \in DOMAIN w.dirty /\ (k \in DOMAIN ops => ops[k] # w.dirty[k])
           /\ \A k \in DOMAIN r.dirty : r.dirty[k] = w.dirty[k]
           /\ WindowRows(r) \subseteq WindowRows(w)
<1> DEFINE kept == {s \in DOMAIN w.dirty : s \in DOMAIN ops => ops[s] # w.dirty[s]}
           d == [s \in kept |-> w.dirty[s]]
<1>0. w \in WindowSet
  BY DEF WindowShape
<1>1. r = [w EXCEPT !.dirty = d]
  BY DEF CommitBatch
<1>2. DOMAIN d = kept /\ \A k \in kept : d[k] = w.dirty[k]
  OBVIOUS
<1>3. \A k : k \in kept <=> k \in DOMAIN w.dirty /\ (k \in DOMAIN ops => ops[k] # w.dirty[k])
  OBVIOUS
<1>4. d \in Rowses
  <2>1. kept \subseteq Pos /\ \A k \in kept : w.dirty[k] \in SUBSET Pos
    BY <1>0, WindowFields
  <2>2. d \in [DOMAIN d -> SUBSET Pos]
    <3> HIDE DEF kept
    <3> QED BY <2>1
  <2> HIDE DEF kept, d
  <2> QED BY <1>2, <2>1, <2>2, RowsesIntro
<1> HIDE DEF kept, d
<1>5. /\ r \in WindowSet /\ r.next = w.next /\ r.tail = w.tail /\ r.snapshot = w.snapshot
      /\ r.dirty = d
  BY <1>0, <1>1, <1>4 DEF WindowSet
<1>6. \A k \in DOMAIN r.dirty : k \in DOMAIN w.dirty /\ r.dirty[k] = w.dirty[k]
  BY <1>2, <1>3, <1>5
<1>7. WindowShape(r)
  BY <1>5, <1>6 DEF WindowShape, Held
<1>8. WindowRows(r) \subseteq WindowRows(w)
  <2>1. TailRow(r) = TailRow(w) /\ SnapshotRow(r) = SnapshotRow(w)
    BY <1>5, Zenon DEF TailRow, SnapshotRow
  <2>2. r.dirty \in Rowses /\ w.dirty \in Rowses
    BY <1>0, <1>5, WindowFields
  <2>3. Rows(r.dirty) \subseteq Rows(w.dirty)
    BY <1>6, <2>2, RowsIn
  <2> QED BY <2>1, <2>3 DEF WindowRows
<1> QED BY <1>2, <1>3, <1>5, <1>6, <1>7, <1>8

(* Clipping empties a row. *)
Clipped(w, r, q) ==
    /\ WindowShape(r) /\ r.next = w.next /\ DOMAIN r.dirty = DOMAIN w.dirty
    /\ r.dirty[q] = {} /\ \A k \in DOMAIN w.dirty \ {q} : r.dirty[k] = w.dirty[k]
    /\ r.snapshot = w.snapshot
    /\ \/ r.tail = w.tail /\ w.tail.seq # q
       \/ r.tail.seq = w.tail.seq /\ r.tail.events = {} /\ r.tail.text = FALSE
    /\ WindowRows(r) \subseteq WindowRows(w) \cup {<<q, {}>>}

LEMMA ClipRowFields ==
    ASSUME NEW w, WindowShape(w), NEW q \in DOMAIN w.dirty, NEW r, r = ClipRow(w, q)
    PROVE  Clipped(w, r, q)
<1> DEFINE d == MarkDirty(w, q, {})
           t == IF d.tail.seq = q THEN [NoRow EXCEPT !.seq = q] ELSE d.tail
<1>0. w \in WindowSet /\ w.tail \in RowSet /\ q \in Pos
  BY WindowFields DEF WindowShape
<1>1. /\ d \in WindowSet /\ d.next = w.next /\ d.tail = w.tail /\ d.snapshot = w.snapshot
      /\ DOMAIN d.dirty = DOMAIN w.dirty \cup {q} /\ d.dirty[q] = {}
      /\ \A k \in DOMAIN w.dirty \ {q} : d.dirty[k] = w.dirty[k]
  <2>1. {} \in SUBSET Pos /\ d = MarkDirty(w, q, {})
    OBVIOUS
  <2> HIDE DEF d
  <2> QED BY <1>0, <2>1, MarkDirtyFields
<1>2. r = [d EXCEPT !.tail = t]
  BY <1>1 DEF ClipRow
<1>3. /\ t \in RowSet
      /\ \/ t = w.tail /\ w.tail.seq # q
         \/ t.seq = w.tail.seq /\ t.events = {} /\ t.text = FALSE
  <2> HIDE DEF d
  <2> QED BY <1>0, <1>1 DEF NoRow, RowSet, Pos
<1> HIDE DEF d, t
<1>4. /\ r \in WindowSet /\ r.next = d.next /\ r.dirty = d.dirty /\ r.snapshot = d.snapshot
      /\ r.tail = t
  BY <1>1, <1>2, <1>3 DEF WindowSet
<1>5. /\ r.next = w.next /\ DOMAIN r.dirty = DOMAIN w.dirty
      /\ r.dirty[q] = {} /\ \A k \in DOMAIN w.dirty \ {q} : r.dirty[k] = w.dirty[k]
      /\ r.snapshot = w.snapshot
      /\ \/ r.tail = w.tail /\ w.tail.seq # q
         \/ r.tail.seq = w.tail.seq /\ r.tail.events = {} /\ r.tail.text = FALSE
  BY <1>1, <1>3, <1>4
<1>6. WindowShape(r)
  BY <1>4, <1>5 DEF WindowShape, Held
<1>7. WindowRows(r) \subseteq WindowRows(w) \cup {<<q, {}>>}
  <2> DEFINE E == {}
  <2>1. \A k \in DOMAIN r.dirty : \/ k = q /\ r.dirty[k] = E
                                  \/ k \in DOMAIN w.dirty /\ r.dirty[k] = w.dirty[k]
    BY <1>5
  <2>2. /\ \/ r.tail.text = FALSE
           \/ r.tail.seq = q /\ r.tail.events = E
           \/ r.tail = w.tail
        /\ \/ r.snapshot.seq = q /\ r.snapshot.events = E
           \/ r.snapshot = w.snapshot
    BY <1>5
  <2> HIDE DEF E
  <2>3. WindowRows(r) \subseteq WindowRows(w) \cup {<<q, E>>}
    BY <1>0, <1>4, <2>1, <2>2, RowPut
  <2> QED BY <2>3 DEF E
<1> QED BY <1>5, <1>6, <1>7 DEF Clipped

----------------------------------------------------------------------------
(* The buffered events, replayed into a new window.                         *)

(* The recursive function that Replay defines exists.                       *)
LEMMA ReplaySteps ==
    ASSUME NEW first, NEW b, Len(b) \in Nat
    PROVE  \E h : /\ h[0] = createAgentTurnWindow(first)
                  /\ \A i \in 1..Len(b) : h[i] = AcceptEvent(h[i - 1], b[i].kind, b[i].e)
                  /\ Replay(first, b) = h[Len(b)]
<1> DEFINE start == createAgentTurnWindow(first)
           next(w, i) == AcceptEvent(w, b[i].kind, b[i].e)
           Upto(n, g) == g = [i \in 0..n |-> IF i = 0 THEN start ELSE next(g[i - 1], i)]
           Bad == {n \in Nat : ~ \E g : Upto(n, g)}
<1>1. \E g : Upto(0, g)
  <2> DEFINE g == [i \in 0..0 |-> start]
  <2> HIDE DEF start, next
  <2>1. g = [i \in 0..0 |-> IF i = 0 THEN start ELSE next(g[i - 1], i)]
    OBVIOUS
  <2> HIDE DEF g
  <2> QED BY <2>1
<1>2. ASSUME NEW n \in Nat, n # 0, NEW f, Upto(n - 1, f) PROVE \E g : Upto(n, g)
  <2> DEFINE g == [i \in 0..n |-> IF i = n THEN next(f[n - 1], n) ELSE f[i]]
  <2> HIDE DEF start, next
  <2>1. \A i \in 0..(n - 1) : g[i] = f[i]
    BY <1>2
  <2>2. g[n] = next(f[n - 1], n) /\ n - 1 \in 0..(n - 1)
    BY <1>2
  <2>3. ASSUME NEW i \in 0..n PROVE g[i] = IF i = 0 THEN start ELSE next(g[i - 1], i)
    <3>1. CASE i = n
      BY <1>2, <2>1, <2>2, <3>1
    <3>2. CASE i # n
      <4>1. i \in 0..(n - 1) /\ (i # 0 => i - 1 \in 0..(n - 1))
        BY <1>2, <3>2
      <4>2. f[i] = IF i = 0 THEN start ELSE next(f[i - 1], i)
        BY <1>2, <4>1
      <4> QED BY <2>1, <4>1, <4>2
    <3> QED BY <3>1, <3>2
  <2>4. g = [i \in 0..n |-> g[i]]
    OBVIOUS
  <2> HIDE DEF g
  <2>5. g = [i \in 0..n |-> IF i = 0 THEN start ELSE next(g[i - 1], i)]
    BY <2>3, <2>4
  <2> QED BY <2>5
<1>3. \A n \in Nat : \E g : Upto(n, g)
  <2>1. SUFFICES ASSUME Bad # {} PROVE FALSE
    OBVIOUS
  <2>2. Bad \subseteq Nat /\ \A n \in Bad : ~ \E g : Upto(n, g)
    OBVIOUS
  <2>3. PICK n \in Bad : \A y \in Bad : n <= y
    <3> HIDE DEF Bad
    <3> QED BY <2>1, <2>2, LeastNumber
  <2>4. n # 0
    BY <1>1, <2>2
  <2>5. n - 1 \in Nat /\ n - 1 \notin Bad
    <3> HIDE DEF Bad
    <3> QED BY <2>2, <2>3, <2>4
  <2>6. PICK f : Upto(n - 1, f)
    <3> HIDE DEF Upto
    <3> QED BY <2>5
  <2>7. \E g : Upto(n, g)
    <3> HIDE DEF Upto, Bad
    <3> QED BY <1>2, <2>2, <2>4, <2>6
  <2> QED BY <2>2, <2>7
<1> DEFINE F(h) == h = [i \in 0..Len(b) |->
                           IF i = 0 THEN createAgentTurnWindow(first)
                           ELSE AcceptEvent(h[i - 1], b[i].kind, b[i].e)]
           H == CHOOSE h : F(h)
<1>4. F(H)
  <2>1. \E h : F(h)
    BY <1>3
  <2> HIDE DEF F
  <2> QED BY <2>1, Zenon
<1>5. Replay(first, b) = H[Len(b)]
  BY Zenon DEF Replay
<1>6. H[0] = createAgentTurnWindow(first)
  <2> HIDE DEF H
  <2> QED BY <1>4
<1>7. \A i \in 1..Len(b) : H[i] = AcceptEvent(H[i - 1], b[i].kind, b[i].e)
  <2> HIDE DEF H
  <2> QED BY <1>4
<1> HIDE DEF H
<1> QED BY <1>5, <1>6, <1>7

(* No event, an empty window. *)
LEMMA ReplayNothing ==
    ASSUME NEW first
    PROVE  Replay(first, <<>>) = createAgentTurnWindow(first)
<1>1. Len(<<>>) = 0
  OBVIOUS
<1>2. PICK h : h[0] = createAgentTurnWindow(first) /\ Replay(first, <<>>) = h[Len(<<>>)]
  BY <1>1, ReplaySteps
<1> QED BY <1>1, <1>2

(* The window after the first i events. *)
ReplayedOK(w, i, first, b, f) ==
    /\ WindowShape(w) /\ first <= w.next
    /\ first..(w.next - 1) \subseteq DOMAIN w.dirty
    /\ Held(f, w) /\ Covers(w.dirty, f)
    /\ InOrder(Rows(f) \cup WindowRows(w))
    /\ \A e \in Pos : (first <= e /\ \A j \in 1..i : b[j].e < e) => WindowBelow(w, e)
    /\ \A j \in 1..i : b[j].kind # "oversized" => b[j].e \in EventsOf(w.dirty)

(* Replay makes a window that is in order behind the rows that are stored.  *)
LEMMA ReplayOK ==
    ASSUME NEW first \in Pos, NEW b \in Seq(BufferedSet), NEW f \in Rowses,
           DOMAIN f \subseteq 1..(first - 1), InOrder(Rows(f)),
           \A i \in 1..Len(b) : first <= b[i].e /\ RowsBelow(f, b[i].e),
           \A i, j \in 1..Len(b) : i < j => b[i].e < b[j].e
    PROVE  ReplayedOK(Replay(first, b), Len(b), first, b, f)
<1>0. /\ Len(b) \in Nat /\ first \in Nat /\ first # 0
      /\ \A i \in 1..Len(b) : b[i] \in BufferedSet /\ b[i].kind \in EventKinds /\ b[i].e \in Pos
  <2>1. Len(b) \in Nat /\ \A i \in 1..Len(b) : b[i] \in BufferedSet
    OBVIOUS
  <2>2. \A x \in BufferedSet : x.kind \in EventKinds /\ x.e \in Pos
    BY DEF BufferedSet
  <2> QED BY <2>1, <2>2 DEF Pos
<1>1. PICK h : /\ h[0] = createAgentTurnWindow(first)
               /\ \A i \in 1..Len(b) : h[i] = AcceptEvent(h[i - 1], b[i].kind, b[i].e)
               /\ Replay(first, b) = h[Len(b)]
  BY <1>0, ReplaySteps
<1> DEFINE Bad == {i \in 0..Len(b) : ~ReplayedOK(h[i], i, first, b, f)}
<1>2. ReplayedOK(h[0], 0, first, b, f)
  <2> DEFINE w == createAgentTurnWindow(first)
  <2>1. /\ w \in WindowSet /\ w.next = first /\ w.dirty = <<>> /\ w.tail = NoRow
        /\ w.snapshot = NoRow
    <3>1. NoWindow \in WindowSet /\ NoWindow.dirty = <<>>
      BY NoWindowIsEmpty
    <3>2. NoWindow.tail = NoRow /\ NoWindow.snapshot = NoRow
      BY Zenon DEF NoWindow
    <3>3. w = [NoWindow EXCEPT !.next = first]
      BY DEF createAgentTurnWindow
    <3> HIDE DEF w
    <3> QED BY <1>0, <3>1, <3>2, <3>3 DEF WindowSet
  <2>2. NoRow.seq = 0 /\ NoRow.events = {} /\ NoRow.text = FALSE
    BY DEF NoRow
  <2> HIDE DEF w
  <2>3. DOMAIN w.dirty = {} /\ WindowRows(w) = {}
    <3>1. DOMAIN w.dirty = {}
      BY <2>1, NoRows
    <3> QED BY <2>1, <2>2, <3>1, NoRows DEF WindowRows, TailRow, SnapshotRow
  <2>4. WindowShape(w)
    BY <1>0, <2>1, <2>2, <2>3 DEF WindowShape, Held, Pos
  <2>5. Held(f, w) /\ Covers(w.dirty, f)
    <3>1. 0 \notin DOMAIN f
      BY <1>0
    <3> QED BY <2>1, <2>2, <2>3, <3>1 DEF Held, Covers
  <2>6. InOrder(Rows(f) \cup WindowRows(w))
    BY <2>3
  <2>7. \A e \in Pos : first <= e => WindowBelow(w, e)
    BY <1>0, <2>1, <2>2, <2>3 DEF WindowBelow, RowBelow, RowsBelow, Pos
  <2>8. first <= w.next /\ first..(w.next - 1) = {}
    BY <1>0, <2>1
  <2>9. ReplayedOK(w, 0, first, b, f)
    BY <2>4, <2>5, <2>6, <2>7, <2>8 DEF ReplayedOK
  <2> QED BY <1>1, <2>9, Zenon DEF w
<1>3. ASSUME NEW i \in 1..Len(b), ReplayedOK(h[i - 1], i - 1, first, b, f)
      PROVE  ReplayedOK(h[i], i, first, b, f)
  <2> DEFINE w == h[i - 1]
             r == h[i]
             kind == b[i].kind
             e == b[i].e
  <2>1. /\ WindowShape(w) /\ first <= w.next /\ first..(w.next - 1) \subseteq DOMAIN w.dirty
        /\ Held(f, w) /\ Covers(w.dirty, f)
        /\ InOrder(Rows(f) \cup WindowRows(w))
        /\ \A x \in Pos : (first <= x /\ \A j \in 1..(i - 1) : b[j].e < x) => WindowBelow(w, x)
        /\ \A j \in 1..(i - 1) : b[j].kind # "oversized" => b[j].e \in EventsOf(w.dirty)
    BY <1>3 DEF ReplayedOK
  <2>2. kind \in EventKinds /\ e \in Pos /\ r = AcceptEvent(w, kind, e)
    BY <1>0, <1>1
  <2>3. first <= e /\ RowsBelow(f, e) /\ \A j \in 1..(i - 1) : b[j].e < e
    BY <1>0
  <2>4. \A x \in Pos : (first <= x /\ \A j \in 1..i : b[j].e < x) => e < x
    BY <1>0
  <2>5. \A j \in 1..i : j \in 1..(i - 1) \/ j = i
    BY <1>0
  <2>6. 1..(i - 1) \subseteq 1..i
    BY <1>0
  <2> DEFINE big(x) == first <= x /\ \A j \in 1..i : b[j].e < x
  <2> HIDE DEF w, r, kind, e
  <2>7. WindowBelow(w, e)
    BY <2>1, <2>2, <2>3
  <2>8. w.next \in Pos /\ w.next \in Nat
    BY <2>1, WindowFields DEF WindowShape, Pos
  <2>9. /\ WindowShape(r) /\ w.next <= r.next /\ DOMAIN w.dirty \subseteq DOMAIN r.dirty
        /\ w.next..(r.next - 1) \subseteq DOMAIN r.dirty
        /\ EventsOf(w.dirty) \subseteq EventsOf(r.dirty)
        /\ kind # "oversized" => e \in EventsOf(r.dirty)
    <3>1. WindowShape(w)
      BY <2>1
    <3>2. Accepts(w, kind, e, r)
      BY ONLY <2>2, <3>1, AcceptShape
    <3> QED BY ONLY <3>2 DEF Accepts
  <2>10. r.next \in Nat
    BY <2>9, WindowFields DEF WindowShape
  <2>11. first <= r.next /\ first..(r.next - 1) \subseteq DOMAIN r.dirty
    <3>1. ASSUME NEW x \in first..(r.next - 1) PROVE x \in DOMAIN r.dirty
      <4>1. x \in first..(w.next - 1) \/ x \in w.next..(r.next - 1)
        BY <1>0, <2>8, <2>10
      <4> QED BY <2>1, <2>9, <4>1
    <3> QED BY <1>0, <2>1, <2>8, <2>9, <2>10, <3>1
  <2>12. Held(f, r) /\ Covers(r.dirty, f)
    <3>1. DOMAIN f \subseteq 1..(w.next - 1)
      BY <1>0, <2>1, <2>8
    <3> QED BY <2>1, <2>2, <3>1, AcceptRows
  <2>13. InOrder(Rows(f) \cup WindowRows(r))
    <3>1. Rows(f) \subseteq Nat \X SUBSET Nat
      BY RowsIn DEF Pos
    <3>2. ASSUME NEW v \in Rows(f) PROVE v[1] < w.next /\ \A x \in v[2] : x < e
      <4>1. PICK k \in DOMAIN f : v = <<k, f[k]>>
        BY RowsIn
      <4>2. k < w.next
        BY <1>0, <2>1, <2>8
      <4> QED BY <2>3, <4>1, <4>2 DEF RowsBelow
    <3> QED BY <2>1, <2>2, <2>7, <3>1, <3>2, AcceptOrder
  <2>14. ASSUME NEW x \in Pos, first <= x /\ \A j \in 1..i : b[j].e < x PROVE WindowBelow(r, x)
    <3>1. e < x /\ x \in Nat
      BY <2>4, <2>14 DEF Pos
    <3> QED BY <2>1, <2>2, <2>7, <3>1, AcceptBelow
  <2>15. ASSUME NEW j \in 1..i, b[j].kind # "oversized" PROVE b[j].e \in EventsOf(r.dirty)
    <3>1. CASE j \in 1..(i - 1)
      BY <2>1, <2>9, <2>15, <3>1
    <3>2. CASE j = i
      BY <2>9, <2>15, <3>2 DEF kind, e
    <3> QED BY <2>5, <3>1, <3>2
  <2>16. ReplayedOK(r, i, first, b, f)
    BY <2>9, <2>11, <2>12, <2>13, <2>14, <2>15 DEF ReplayedOK
  <2> QED BY <2>16 DEF r
<1>4. Bad = {}
  <2>1. SUFFICES ASSUME Bad # {} PROVE FALSE
    OBVIOUS
  <2>2. Bad \subseteq Nat /\ \A n \in Bad : n \in 0..Len(b) /\ ~ReplayedOK(h[n], n, first, b, f)
    OBVIOUS
  <2>3. \A n \in 0..Len(b) : n \notin Bad => ReplayedOK(h[n], n, first, b, f)
    OBVIOUS
  <2> HIDE DEF Bad
  <2>4. PICK n \in Bad : \A y \in Bad : n <= y
    BY <2>1, <2>2, LeastNumber
  <2>5. n # 0
    BY <1>2, <2>2
  <2>6. n \in 1..Len(b) /\ n - 1 \in 0..Len(b) /\ n - 1 \notin Bad
    BY <1>0, <2>2, <2>4, <2>5
  <2> QED BY <1>3, <2>2, <2>3, <2>4, <2>6
<1>5. ReplayedOK(h[Len(b)], Len(b), first, b, f)
  <2>1. Len(b) \in 0..Len(b)
    BY <1>0
  <2> QED BY <1>4, <2>1, Zenon
<1> QED BY <1>1, <1>5, Zenon

----------------------------------------------------------------------------
(* Slots: the handlers' helpers. *)

LEMMA NoCallFields ==
    /\ NoCall \in CallSet /\ NoCall.kind = "none" /\ NoCall.ops = <<>> /\ NoCall.reply = "none"
    /\ NoCall.epoch = 0 /\ NoCall.expected = 0 /\ NoCall.next = 0
    /\ NoCall.seal = FALSE /\ NoCall.loss = FALSE
<1>1. /\ NoCall.kind = "none" /\ NoCall.ops = <<>> /\ NoCall.reply = "none"
      /\ NoCall.epoch = 0 /\ NoCall.expected = 0 /\ NoCall.next = 0
      /\ NoCall.seal = FALSE /\ NoCall.loss = FALSE
  BY Zenon DEF NoCall
<1>2. NoCall \in CallSet
  BY NoRows DEF NoCall, CallSet, Replies
<1> QED BY <1>1, <1>2

LEMMA CallFields ==
    ASSUME NEW c \in CallSet
    PROVE  /\ c.kind \in {"none", "open", "reopen", "append", "note"} /\ c.epoch \in Nat
           /\ c.expected \in Nat /\ c.ops \in Rowses /\ c.seal \in BOOLEAN
           /\ c.loss \in BOOLEAN /\ c.reply \in Replies /\ c.next \in Nat
BY DEF CallSet

LEMMA SlotFields ==
    ASSUME NEW s \in SlotSet
    PROVE  /\ s.state \in {"none", "opening", "writing", "retrying", "stopped", "gone"}
           /\ s.gen \in Nat /\ s.buffered \in Seq(BufferedSet) /\ s.win \in WindowSet
           /\ s.epoch \in Nat /\ s.expected \in Nat /\ s.maxBatch \in 1..MaxBatch
           /\ s.flushRequested \in BOOLEAN /\ s.sealRequested \in BOOLEAN
           /\ s.reopenPending \in BOOLEAN /\ s.attempts \in Nat
           /\ s.timer \in {"none", "flush", "retry"} /\ s.loss \in BOOLEAN
           /\ s.call \in CallSet /\ s.note \in CallSet
           /\ s.skipped \in SUBSET Pos /\ s.unsaid \in SUBSET Pos
BY DEF SlotSet

LEMMA StoreFields ==
    ASSUME NEW st \in StoreSet
    PROVE  /\ st.epoch \in Nat /\ st.next \in Pos /\ st.rows \in Rowses
           /\ st.sealed \in BOOLEAN /\ st.loss \in BOOLEAN
BY DEF StoreSet

(* What a handler may do with a slot. *)
Move(s, r, st) ==
    /\ r.epoch = s.epoch
    /\ Alive(r) => Alive(s)
    /\ r.call = s.call \/ r.call.reply \in {"none", "sent"}
    /\ r.buffered \in {s.buffered, <<>>}
    /\ \A e \in Pos : Below(s, e) => Below(r, e)
    /\ st.loss \/ Kept(s) \subseteq EventsOf(st.rows) \cup Kept(r)

Step(s, r, st) ==
    /\ Move(s, r, st)
    /\ SealOK(s, st) => SealOK(r, st)
    /\ r.sealRequested = s.sealRequested
    /\ (s.call.reply = "held" /\ Alive(r)) => r.call = s.call

LEMMA StepTransitive ==
    ASSUME NEW s, NEW r, NEW t, NEW st, Step(s, r, st), Step(r, t, st)
    PROVE  Step(s, t, st)
<1>1. t.epoch = s.epoch /\ t.sealRequested = s.sealRequested /\ (Alive(t) => Alive(s))
  BY DEF Step, Move
<1>2. t.call = s.call \/ t.call.reply \in {"none", "sent"}
  BY DEF Step, Move
<1>3. (s.call.reply = "held" /\ Alive(t)) => t.call = s.call
  BY Zenon DEF Step, Move
<1>4. t.buffered \in {s.buffered, <<>>}
  BY DEF Step, Move
<1>5. \A e \in Pos : Below(s, e) => Below(t, e)
  BY Zenon DEF Step, Move
<1>6. st.loss \/ Kept(s) \subseteq EventsOf(st.rows) \cup Kept(t)
  BY DEF Step, Move
<1>7. SealOK(s, st) => SealOK(t, st)
  BY Zenon DEF Step
<1> QED BY <1>1, <1>2, <1>3, <1>4, <1>5, <1>6, <1>7, Zenon DEF Step, Move

LEMMA PendingSame ==
    ASSUME NEW s, NEW r, r.win = s.win, r.buffered = s.buffered
    PROVE  Pending(r) = Pending(s)
BY Zenon DEF Pending

LEMMA KeptSame ==
    ASSUME NEW s, NEW r, r.win = s.win, r.buffered = s.buffered,
           r.unsaid = s.unsaid, r.skipped = s.skipped
    PROVE  Kept(r) = Kept(s)
BY PendingSame, Zenon DEF Kept

(* What a handler does to a slot without sending a batch.                   *)
LEMMA SealKept ==
    ASSUME NEW s, NEW r, NEW st,
           r.call = s.call \/ r.call.kind # "append", r.sealRequested = s.sealRequested,
           Alive(r) => /\ Alive(s) /\ r.buffered \in {s.buffered, <<>>}
                       /\ EventsOf(r.win.dirty) \subseteq EventsOf(s.win.dirty)
                       /\ Pending(r) \cup r.skipped \subseteq Pending(s) \cup s.skipped
                       /\ s.unsaid \subseteq r.unsaid
    PROVE  SealOK(s, st) => SealOK(r, st)
<1>1. SUFFICES ASSUME SealOK(s, st) PROVE SealOK(r, st)
  OBVIOUS
<1>2. (st.sealed /\ Alive(r)) => r.buffered = <<>> /\ Spared(r, st)
  <2>1. SUFFICES ASSUME st.sealed, Alive(r) PROVE r.buffered = <<>> /\ Spared(r, st)
    OBVIOUS
  <2>2. s.buffered = <<>> /\ Spared(s, st)
    BY <1>1, <2>1 DEF SealOK
  <2> QED BY <2>1, <2>2 DEF Spared
<1>3. r.call.kind = "append" =>
         /\ r.call.seal => r.sealRequested
         /\ (r.call.seal /\ Alive(r)) => EventsOf(r.win.dirty) \subseteq EventsOf(r.call.ops)
         /\ r.call.reply = "sealed" => st.sealed
  <2>1. SUFFICES ASSUME r.call.kind = "append", r.call = s.call
                 PROVE  /\ r.call.seal => r.sealRequested
                        /\ (r.call.seal /\ Alive(r)) =>
                               EventsOf(r.win.dirty) \subseteq EventsOf(r.call.ops)
                        /\ r.call.reply = "sealed" => st.sealed
    OBVIOUS
  <2>2. /\ s.call.seal => s.sealRequested
        /\ (s.call.seal /\ Alive(s)) => EventsOf(s.win.dirty) \subseteq EventsOf(s.call.ops)
        /\ s.call.reply = "sealed" => st.sealed
    BY <1>1, <2>1 DEF SealOK
  <2> QED BY <2>1, <2>2
<1> QED BY <1>2, <1>3 DEF SealOK

LEMMA SealSame ==
    ASSUME NEW s, NEW r, NEW st, Alive(r) => Alive(s),
           r.win = s.win, r.buffered = s.buffered, r.skipped = s.skipped,
           r.unsaid = s.unsaid, r.sealRequested = s.sealRequested,
           r.call = s.call \/ r.call.kind # "append"
    PROVE  SealOK(s, st) => SealOK(r, st)
<1>1. /\ Pending(r) = Pending(s) /\ EventsOf(r.win.dirty) = EventsOf(s.win.dirty)
      /\ r.buffered \in {s.buffered, <<>>}
  BY PendingSame
<1> QED BY <1>1, SealKept

(* A slot that is given up. *)
LEMMA SealDead ==
    ASSUME NEW s, NEW r, NEW st, ~Alive(r), r.sealRequested = s.sealRequested,
           r.call = s.call \/ r.call.kind # "append"
    PROVE  SealOK(s, st) => SealOK(r, st)
BY SealKept

(* Before the turn has ended, no append seals the log. *)
LEMMA SealYoung ==
    ASSUME NEW s, NEW r, NEW st, SealOK(s, st), ~st.sealed, ~s.sealRequested,
           r.call = s.call \/ r.call.kind # "append"
    PROVE  SealOK(r, st)
<1>1. r.call.kind = "append" => ~r.call.seal /\ r.call.reply # "sealed"
  <2>1. SUFFICES ASSUME r.call.kind = "append" PROVE ~r.call.seal /\ r.call.reply # "sealed"
    OBVIOUS
  <2>2. r.call = s.call /\ s.call.kind = "append"
    BY <2>1
  <2> QED BY <2>2 DEF SealOK
<1> QED BY <1>1 DEF SealOK

(* A change of the fields that the invariant does not mention. *)
LEMMA SlotFrame ==
    ASSUME NEW st, NEW s, SlotOK(s, st), NEW r \in SlotSet,
           r.state = s.state, r.win = s.win, r.buffered = s.buffered, r.epoch = s.epoch,
           r.expected = s.expected, r.timer = s.timer, r.loss = s.loss, r.call = s.call,
           r.note = s.note, r.skipped = s.skipped, r.sealRequested = s.sealRequested,
           r.unsaid = s.unsaid
    PROVE  /\ SlotOK(r, st) /\ Step(s, r, st) /\ (Settled(s, st) => Settled(r, st))
           /\ Alive(r) = Alive(s) /\ HasWindow(r) = HasWindow(s)
<1>0. Alive(r) = Alive(s) /\ HasWindow(r) = HasWindow(s) /\ InForce(r, st) = InForce(s, st)
  BY Zenon DEF Alive, HasWindow, InForce
<1>1. LifeOK(r)
  BY <1>0 DEF SlotOK, LifeOK
<1>2. CallOK(r, st)
  BY <1>0 DEF SlotOK, CallOK
<1>3. r.call.kind = "append" => AppendOK(r, r.call, st)
  BY <1>0 DEF SlotOK, AppendOK
<1>4. (Alive(r) /\ HasWindow(r)) => WindowOK(r, r.call.ops, st)
  BY <1>0 DEF SlotOK, WindowOK
<1>5. InForce(r, st) => InOrder(SlotVersions(r, r.call.ops, st))
  BY <1>0 DEF SlotOK, SlotVersions
<1>6. Step(s, r, st)
  <2>1. SealOK(s, st) => SealOK(r, st)
    BY <1>0, SealSame
  <2> QED BY <1>0, <2>1 DEF Step, Move, Below, Kept, Pending
<1>7. Settled(s, st) => Settled(r, st)
  BY DEF Settled
<1> QED BY <1>0, <1>1, <1>2, <1>3, <1>4, <1>5, <1>6, <1>7 DEF SlotOK

LEMMA NoWindowBelow ==
    ASSUME NEW e \in Pos
    PROVE  WindowBelow(NoWindow, e) /\ RowsBelow(<<>>, e)
<1>1. NoWindow.next = 0 /\ NoWindow.dirty = <<>> /\ NoWindow.tail = NoRow /\ NoWindow.snapshot = NoRow
  BY Zenon DEF NoWindow
<1>2. NoRow.seq = 0 /\ NoRow.events = {}
  BY DEF NoRow
<1>3. RowsBelow(<<>>, e)
  BY NoRows DEF RowsBelow
<1>4. RowBelow(NoRow, e)
  BY <1>2 DEF RowBelow, Pos
<1>5. 0 <= e
  BY DEF Pos
<1> QED BY <1>1, <1>3, <1>4, <1>5 DEF WindowBelow

(* A slot that was given up; a sealed log has nothing to drop.              *)
Dropped(s, reason) ==
    IF reason = "sealed" THEN s.unsaid ELSE s.unsaid \cup Pending(s) \cup s.skipped

Stopped(s, r, reason) ==
    /\ r \in SlotSet /\ r.state \in {"stopped", "gone"} /\ ~Alive(r)
    /\ r.win = NoWindow /\ r.buffered = <<>> /\ r.timer = "none" /\ r.loss = FALSE
    /\ r.skipped = {} /\ r.unsaid = Dropped(s, reason)
    /\ r.epoch = s.epoch /\ r.expected = s.expected /\ r.call = s.call
    /\ r.sealRequested = s.sealRequested
    /\ r.note = NoCall \/ r.note = IncompleteNote(s)

LEMMA DroppedIn ==
    ASSUME NEW s \in SlotSet
    PROVE  s.unsaid \cup Pending(s) \cup s.skipped \in SUBSET Pos
<1>1. EventsOf(s.win.dirty) \subseteq Pos
  BY SlotFields, WindowFields, EventsOfIn
<1>2. {s.buffered[i].e : i \in DOMAIN s.buffered} \subseteq Pos
  <2>1. \A i \in DOMAIN s.buffered : s.buffered[i] \in BufferedSet
    BY SlotFields
  <2>2. \A x \in BufferedSet : x.e \in Pos
    BY DEF BufferedSet
  <2> QED BY <2>1, <2>2
<1> QED BY <1>1, <1>2, SlotFields DEF Pending

LEMMA StopFields ==
    ASSUME NEW s \in SlotSet, NEW reason
    PROVE  Stopped(s, Stop(s, reason), reason)
<1> DEFINE r == Stop(s, reason)
           silent == reason = "sealed" \/ s.epoch = 0
           u == Dropped(s, reason)
           n == IF silent THEN NoCall ELSE IncompleteNote(s)
           t == IF silent THEN "gone" ELSE "stopped"
<1>1. r = [s EXCEPT !.state = t, !.win = NoWindow, !.buffered = <<>>, !.timer = "none",
                    !.loss = FALSE, !.note = n, !.unsaid = u, !.skipped = {}]
  BY DEF Stop, Dropped
<1>2. n \in CallSet /\ (n = NoCall \/ n = IncompleteNote(s))
  <2>1. s.epoch \in Nat /\ s.expected \in Nat
    BY SlotFields
  <2>2. IncompleteNote(s) \in CallSet
    BY <2>1, NoCallFields DEF IncompleteNote, CallSet, Replies
  <2> QED BY <2>2, NoCallFields
<1>3. u \in SUBSET Pos
  BY DroppedIn, SlotFields DEF Dropped
<1>4. t \in {"stopped", "gone"} /\ NoWindow \in WindowSet /\ <<>> \in Seq(BufferedSet)
  BY NoWindowIsEmpty
<1> HIDE DEF r, silent, u, n, t
<1>5. r \in SlotSet
  BY <1>1, <1>2, <1>3, <1>4 DEF SlotSet
<1>6. /\ r.state = t /\ r.win = NoWindow /\ r.buffered = <<>> /\ r.timer = "none"
      /\ r.loss = FALSE /\ r.skipped = {} /\ r.unsaid = u /\ r.note = n
      /\ r.epoch = s.epoch /\ r.expected = s.expected /\ r.call = s.call
      /\ r.sealRequested = s.sealRequested
  BY <1>1 DEF SlotSet
<1>7. ~Alive(r)
  BY <1>4, <1>6 DEF Alive
<1>8. Stopped(s, r, reason)
  BY <1>2, <1>4, <1>5, <1>6, <1>7 DEF u, Stopped
<1> QED BY <1>8 DEF r

Good(s, r, st) == SlotOK(r, st) /\ Settled(r, st) /\ Step(s, r, st)

(* A slot that is given up keeps what it had among its dropped events.      *)
LEMMA StopOK ==
    ASSUME NEW st \in StoreSet, NEW s, SlotOK(s, st), Alive(s), s.call.reply # "held",
           NEW reason, reason = "sealed" => Spared(s, st), NEW r, r = Stop(s, reason)
    PROVE  Good(s, r, st) /\ ~Alive(r)
<1>0. s \in SlotSet
  BY DEF SlotOK
<1>1. /\ r \in SlotSet /\ r.state \in {"stopped", "gone"} /\ ~Alive(r)
      /\ r.win = NoWindow /\ r.buffered = <<>> /\ r.timer = "none" /\ r.loss = FALSE
      /\ r.skipped = {} /\ r.unsaid = Dropped(s, reason)
      /\ r.epoch = s.epoch /\ r.expected = s.expected /\ r.call = s.call
      /\ r.sealRequested = s.sealRequested
      /\ r.note = NoCall \/ r.note = IncompleteNote(s)
  <2>1. Stopped(s, r, reason)
    BY <1>0, StopFields
  <2> QED BY <2>1 DEF Stopped
<1>2. NoWindow.next = 0 /\ ~HasWindow(r)
  BY <1>1, NoWindowIsEmpty DEF HasWindow
<1>3. InForce(r, st) => InForce(s, st)
  BY <1>1 DEF InForce
<1>4. LifeOK(r)
  BY <1>1, <1>2 DEF LifeOK
<1>5. CallOK(r, st)
  <2> DEFINE n == IncompleteNote(s)
  <2>1. /\ n.kind = "note" /\ n.epoch = s.epoch /\ n.loss = TRUE /\ n.reply = "sent"
        /\ n.ops = <<>> /\ n.seal = FALSE
    BY NoCallFields DEF IncompleteNote, CallSet
  <2> HIDE DEF n
  <2>2. r.note = NoCall \/ r.note = n
    BY <1>1, Zenon DEF n
  <2>3. CallOK(s, st)
    BY DEF SlotOK
  <2>4. /\ r.note.epoch <= st.epoch
        /\ r.note.kind = "none" => r.note = NoCall
        /\ r.note.kind # "none" => /\ r.note.kind = "note" /\ r.note.ops = <<>>
                                   /\ r.note.epoch = r.epoch /\ r.note.loss /\ ~r.note.seal
                                   /\ r.note.reply \notin {"none", "held"}
        /\ r.note.reply # "ok"
    BY <1>1, <2>1, <2>2, <2>3, NoCallFields, StoreFields DEF CallOK
  <2>5. s.call.reply # "held"
    OBVIOUS
  <2> QED BY <1>1, <2>3, <2>4, <2>5 DEF CallOK
<1>6. r.call.kind = "append" => AppendOK(r, r.call, st)
  <2>1. s.call.kind = "append" => AppendOK(s, s.call, st)
    BY DEF SlotOK
  <2> QED BY <1>1, <1>3, <2>1 DEF AppendOK
<1>7. InForce(r, st) => InOrder(SlotVersions(r, r.call.ops, st))
  <2>1. SlotVersions(r, r.call.ops, st) \subseteq SlotVersions(s, s.call.ops, st)
    BY <1>1, NoWindowIsEmpty DEF SlotVersions
  <2>2. InForce(s, st) => InOrder(SlotVersions(s, s.call.ops, st))
    BY DEF SlotOK
  <2> QED BY <1>3, <2>1, <2>2, InOrderSubset
<1>8. SlotOK(r, st)
  BY <1>1, <1>4, <1>5, <1>6, <1>7 DEF SlotOK
<1>9. Settled(r, st)
  BY <1>1 DEF Settled
<1>10. Step(s, r, st)
  <2>1. \A e \in Pos : Below(s, e) => Below(r, e)
    BY <1>1, NoWindowBelow DEF Below
  <2>2. st.loss \/ Kept(s) \subseteq EventsOf(st.rows) \cup Kept(r)
    <3>1. CASE reason = "sealed"
      BY <1>1, <3>1 DEF Kept, Dropped, Spared
    <3>2. CASE reason # "sealed"
      BY <1>1, <3>2 DEF Kept, Dropped
    <3> QED BY <3>1, <3>2
  <2>3. SealOK(s, st) => SealOK(r, st)
    BY <1>1, SealDead
  <2> QED BY <1>1, <2>1, <2>2, <2>3 DEF Step, Move
<1> QED BY <1>1, <1>8, <1>9, <1>10 DEF Good

Same(s, r) ==
    /\ r.state = s.state /\ r.win = s.win /\ r.buffered = s.buffered
    /\ r.epoch = s.epoch /\ r.expected = s.expected
    /\ r.timer = s.timer /\ r.loss = s.loss /\ r.call = s.call
    /\ r.note = s.note /\ r.skipped = s.skipped
    /\ r.sealRequested = s.sealRequested /\ r.unsaid = s.unsaid

(* A slot that is checked goes on as it is, with a new lease to take, or is *)
(* given up.                                                                *)
LEMMA CheckedOK ==
    ASSUME NEW st \in StoreSet, NEW s, SlotOK(s, st), Alive(s), s.call.reply # "held",
           gen \in Nat, NEW r, r = Checked(s)
    PROVE  /\ SlotOK(r, st) /\ Step(s, r, st)
           /\ ~Alive(r) => Settled(r, st)
           /\ Alive(r) => Same(s, r)
<1>0. s \in SlotSet
  BY DEF SlotOK
<1>1. CASE gen = 0
  <2>1. r = Stop(s, "ownerMismatch")
    BY <1>1 DEF Checked
  <2>2. Good(s, r, st) /\ ~Alive(r)
    BY <2>1, StopOK
  <2> QED BY <2>2 DEF Good
<1>2. CASE gen # 0
  <2>1. r = s \/ r = [s EXCEPT !.gen = gen, !.reopenPending = TRUE]
    BY <1>2 DEF Checked
  <2>2. /\ r \in SlotSet
        /\ r.state = s.state /\ r.win = s.win /\ r.buffered = s.buffered
        /\ r.epoch = s.epoch /\ r.expected = s.expected
        /\ r.timer = s.timer /\ r.loss = s.loss /\ r.call = s.call
        /\ r.note = s.note /\ r.skipped = s.skipped
        /\ r.sealRequested = s.sealRequested /\ r.unsaid = s.unsaid
    BY <1>0, <2>1 DEF SlotSet
  <2>3. SlotOK(r, st) /\ Step(s, r, st)
    BY <2>2, SlotFrame
  <2>4. Alive(r)
    BY <2>2 DEF Alive
  <2> QED BY <2>2, <2>3, <2>4 DEF Same
<1> QED BY <1>1, <1>2

(* A call without rows goes out. *)
LEMMA OpenCallFields ==
    ASSUME NEW kind \in {"open", "reopen"}, NEW c, c = OpenCall(kind)
    PROVE  /\ c \in CallSet /\ c.kind = kind /\ c.reply = "sent" /\ c.epoch = 0 /\ c.ops = <<>>
           /\ c # NoCall
<1>1. c = [NoCall EXCEPT !.kind = kind, !.reply = "sent"]
  BY DEF OpenCall
<1>2. c \in CallSet /\ c.kind = kind /\ c.reply = "sent" /\ c.epoch = 0 /\ c.ops = <<>>
  BY <1>1, NoCallFields DEF CallSet, Replies
<1>3. c # NoCall
  BY <1>2, NoCallFields
<1> QED BY <1>2, <1>3

LEMMA ReopenSentOK ==
    ASSUME NEW st \in StoreSet, NEW s, SlotOK(s, st), Alive(s), HasWindow(s),
           s.call = NoCall, s.timer # "retry",
           NEW r, r = [s EXCEPT !.call = OpenCall("reopen")]
    PROVE  Good(s, r, st)
<1> DEFINE c == OpenCall("reopen")
<1>0. s \in SlotSet
  BY DEF SlotOK
<1>1. /\ c \in CallSet /\ c.kind = "reopen" /\ c.reply = "sent" /\ c.epoch = 0 /\ c.ops = <<>>
      /\ c # NoCall
  BY OpenCallFields
<1> HIDE DEF c
<1>2. /\ r \in SlotSet /\ r.call = c
      /\ r.state = s.state /\ r.win = s.win /\ r.buffered = s.buffered
      /\ r.epoch = s.epoch /\ r.expected = s.expected /\ r.timer = s.timer
      /\ r.loss = s.loss /\ r.note = s.note /\ r.skipped = s.skipped
      /\ r.sealRequested = s.sealRequested /\ r.unsaid = s.unsaid
  BY <1>0, <1>1 DEF SlotSet, c
<1>3. /\ Alive(r) = Alive(s) /\ HasWindow(r) = HasWindow(s) /\ InForce(r, st) = InForce(s, st)
  BY <1>2, Zenon DEF Alive, HasWindow, InForce
<1>4. LifeOK(r)
  BY <1>2, <1>3 DEF SlotOK, LifeOK
<1>5. CallOK(r, st)
  BY <1>1, <1>2, <1>3, StoreFields DEF SlotOK, CallOK
<1>6. Alive(r) /\ HasWindow(r) => WindowOK(r, r.call.ops, st)
  BY <1>1, <1>2, <1>3, NoCallFields DEF SlotOK, WindowOK
<1>7. InForce(r, st) => InOrder(SlotVersions(r, r.call.ops, st))
  BY <1>1, <1>2, <1>3, NoCallFields DEF SlotOK, SlotVersions
<1>8. SlotOK(r, st)
  BY <1>1, <1>2, <1>4, <1>5, <1>6, <1>7 DEF SlotOK
<1>9. Settled(r, st)
  BY <1>1, <1>2 DEF Settled
<1>10. Step(s, r, st)
  <2>1. \A e \in Pos : Below(s, e) => Below(r, e)
    BY <1>1, <1>2, NoCallFields DEF Below
  <2>2. Kept(r) = Kept(s)
    BY <1>2, KeptSame
  <2>3. Alive(r) => Alive(s)
    BY <1>3
  <2>4. SealOK(s, st) => SealOK(r, st)
    BY <1>1, <1>2, <1>3, SealSame
  <2> QED BY <1>1, <1>2, <2>1, <2>2, <2>3, <2>4, NoCallFields DEF Step, Move
<1> QED BY <1>8, <1>9, <1>10 DEF Good

(* A batch goes out. *)
LEMMA AppendSentOK ==
    ASSUME NEW st \in StoreSet, NEW s, SlotOK(s, st), Alive(s), HasWindow(s),
           s.call = NoCall, s.timer # "retry",
           NEW n \in Nat, n <= MaxBatch, NEW all,
           all => n = Cardinality(DOMAIN s.win.dirty),
           NEW r, r = [s EXCEPT !.call = AppendCall(s, TakeBatch(s.win, n), all),
                                !.timer = "none"]
    PROVE  Good(s, r, st)
<1> DEFINE ops == TakeBatch(s.win, n)
           seal == s.sealRequested /\ all
           c == AppendCall(s, ops, all)
<1>0. s \in SlotSet /\ MaxBatch \in Nat
  BY TurnLogAssumption DEF SlotOK
<1>1. WindowOK(s, <<>>, st) /\ WindowShape(s.win)
  BY NoCallFields DEF SlotOK, WindowOK
<1>2. /\ ops \in Rowses /\ DOMAIN ops \subseteq DOMAIN s.win.dirty
      /\ \A k \in DOMAIN ops : ops[k] = s.win.dirty[k]
      /\ \A k \in DOMAIN ops, j \in DOMAIN s.win.dirty : j < k => j \in DOMAIN ops
      /\ IsFiniteSet(DOMAIN ops) /\ Cardinality(DOMAIN ops) <= n
  <2> HIDE DEF ops
  <2> QED BY <1>1, TakeBatchFields DEF ops
<1>3. seal \in BOOLEAN /\ (seal => s.sealRequested)
  BY <1>0, SlotFields
<1>4. c = [NoCall EXCEPT !.kind = "append", !.epoch = s.epoch, !.expected = s.expected,
                         !.ops = ops, !.seal = seal, !.loss = s.loss, !.reply = "sent"]
  BY DEF AppendCall
<1> HIDE DEF ops, seal, c
<1>5. /\ c \in CallSet /\ c.kind = "append" /\ c.epoch = s.epoch /\ c.expected = s.expected
      /\ c.ops = ops /\ c.seal = seal /\ c.loss = s.loss /\ c.reply = "sent"
  <2>1. s.epoch \in Nat /\ s.expected \in Nat /\ s.loss \in BOOLEAN
    BY <1>0, SlotFields
  <2>2. c = [kind |-> "append", epoch |-> s.epoch, expected |-> s.expected, ops |-> ops,
             seal |-> seal, loss |-> s.loss, reply |-> "sent", next |-> 0]
    BY ONLY <1>4 DEF NoCall
  <2> QED BY ONLY <1>2, <1>3, <2>1, <2>2 DEF CallSet, Replies
<1>6. c # NoCall
  BY <1>5, NoCallFields
<1>7. /\ r \in SlotSet /\ r.call = c /\ r.timer = "none"
      /\ r.state = s.state /\ r.win = s.win /\ r.buffered = s.buffered
      /\ r.epoch = s.epoch /\ r.expected = s.expected
      /\ r.loss = s.loss /\ r.note = s.note /\ r.skipped = s.skipped
      /\ r.sealRequested = s.sealRequested /\ r.unsaid = s.unsaid
  BY <1>0, <1>5 DEF SlotSet, c, ops
<1>8. /\ Alive(r) = Alive(s) /\ HasWindow(r) = HasWindow(s) /\ InForce(r, st) = InForce(s, st)
  BY <1>7, Zenon DEF Alive, HasWindow, InForce
<1>9. LifeOK(r)
  BY <1>7, <1>8 DEF SlotOK, LifeOK
<1>10. CallOK(r, st)
  BY <1>5, <1>7, <1>8, StoreFields DEF SlotOK, CallOK
<1>11. /\ s.expected \in Nat /\ s.win.next \in Nat
       /\ DOMAIN s.win.dirty \subseteq 1..(s.win.next - 1)
       /\ s.expected..(s.win.next - 1) \subseteq DOMAIN s.win.dirty
       /\ Held(s.win.dirty, s.win)
       /\ s.loss \/ Covers(s.win.dirty, st.rows)
  BY <1>0, <1>1, SlotFields, WindowFields DEF WindowOK, WindowShape
<1>12. AppendOK(r, c, st)
  <2>1. \A k \in DOMAIN ops : s.expected..k \subseteq DOMAIN ops
    <3>1. SUFFICES ASSUME NEW k \in DOMAIN ops, NEW j \in s.expected..k
                   PROVE  j \in DOMAIN ops
      OBVIOUS
    <3>2. k \in 1..(s.win.next - 1)
      BY <1>2, <1>11
    <3>3. j \in DOMAIN s.win.dirty /\ (j = k \/ j < k)
      BY <1>11, <3>2
    <3> QED BY <1>2, <3>3
  <2>2. Cardinality(DOMAIN ops) <= MaxBatch
    <3>1. Cardinality(DOMAIN ops) \in Nat
      BY <1>2, FS_CardinalityType
    <3> QED BY <1>0, <1>2, <3>1
  <2>3. s.loss \/ Covers(ops, st.rows)
    BY <1>2, <1>11 DEF Covers
  <2>4. s.epoch # 0
    BY <1>0 DEF SlotOK, LifeOK
  <2> QED BY <1>2, <1>3, <1>5, <1>7, <2>1, <2>2, <2>3, <2>4 DEF AppendOK
<1>13. WindowOK(r, ops, st)
  <2>1. Held(ops, s.win) /\ Covers(s.win.dirty, ops)
    BY <1>2, <1>11 DEF Held, Covers
  <2>2. DOMAIN ops \subseteq 1..(s.win.next - 1)
    BY <1>2, <1>11
  <2> QED BY <1>1, <1>7, <2>1, <2>2 DEF WindowOK
<1>14. InForce(r, st) => InOrder(SlotVersions(r, ops, st))
  <2>1. Rows(ops) \subseteq Rows(s.win.dirty)
    BY <1>2 DEF Rows
  <2>2. SlotVersions(r, ops, st) \subseteq SlotVersions(s, <<>>, st)
    BY <1>7, <2>1 DEF SlotVersions, WindowRows
  <2>3. InForce(s, st) => InOrder(SlotVersions(s, <<>>, st))
    BY NoCallFields DEF SlotOK
  <2> QED BY <1>8, <2>2, <2>3, InOrderSubset
<1>15. SlotOK(r, st)
  BY <1>5, <1>7, <1>9, <1>10, <1>12, <1>13, <1>14 DEF SlotOK
<1>16. Settled(r, st)
  BY <1>6, <1>7 DEF Settled
<1>17. Step(s, r, st)
  <2>1. \A e \in Pos : Below(s, e) => Below(r, e)
    BY <1>2, <1>5, <1>7 DEF Below, WindowBelow, RowsBelow
  <2>2. Kept(r) = Kept(s)
    BY <1>7, KeptSame
  <2>3. Alive(r) => Alive(s)
    BY <1>8
  <2>4. SealOK(s, st) => SealOK(r, st)
    <3>1. (st.sealed /\ Alive(r)) => (SealOK(s, st) => r.buffered = <<>> /\ Spared(r, st))
      <4>1. Pending(r) = Pending(s)
        BY <1>7, PendingSame
      <4> QED BY <1>7, <1>8, <4>1 DEF SealOK, Spared
    <3>2. c.seal => /\ r.sealRequested
                    /\ EventsOf(r.win.dirty) \subseteq EventsOf(c.ops)
      <4>1. SUFFICES ASSUME seal PROVE EventsOf(s.win.dirty) \subseteq EventsOf(ops)
        BY <1>3, <1>5, <1>7
      <4>2. ops = TakeBatch(s.win, Cardinality(DOMAIN s.win.dirty))
        BY <4>1 DEF ops, seal
      <4> QED BY <1>1, <4>2, TakeBatchAll
    <3> QED BY <1>5, <1>7, <3>1, <3>2 DEF SealOK
  <2> QED BY <1>5, <1>7, <2>1, <2>2, <2>3, <2>4, NoCallFields DEF Step, Move
<1> QED BY <1>15, <1>16, <1>17 DEF Good

LEMMA StepReflexive ==
    ASSUME NEW s, NEW st
    PROVE  Step(s, s, st)
BY DEF Step, Move

LEMMA NotHeld ==
    ASSUME NEW st, NEW s, SlotOK(s, st), HasWindow(s)
    PROVE  s.call.reply # "held" /\ Alive(s)
<1>1. s.call.reply # "held"
  BY DEF SlotOK, LifeOK, CallOK
<1>2. ~Alive(s) => s.win = NoWindow
  BY DEF SlotOK, LifeOK
<1>3. NoWindow.next = 0
  BY NoWindowIsEmpty
<1> QED BY <1>1, <1>2, <1>3 DEF HasWindow

LEMMA RunFlushOK ==
    ASSUME NEW st \in StoreSet, NEW s, SlotOK(s, st), HasWindow(s), s.timer # "retry",
           NEW r \in RunFlush(s)
    PROVE  Good(s, r, st)
<1> DEFINE dirty == Cardinality(DOMAIN s.win.dirty)
           most == IF dirty < s.maxBatch THEN dirty ELSE s.maxBatch
           sizes == IF dirty = 0 THEN {0} ELSE 1..most
<1>0. s \in SlotSet /\ Alive(s) /\ WindowOK(s, s.call.ops, st) /\ WindowShape(s.win)
  BY NotHeld DEF SlotOK, WindowOK
<1>1. CASE s.call # NoCall
  <2>1. r = [s EXCEPT !.flushRequested = TRUE]
    BY <1>1 DEF RunFlush
  <2>2. /\ r \in SlotSet
        /\ r.state = s.state /\ r.win = s.win /\ r.buffered = s.buffered
        /\ r.epoch = s.epoch /\ r.expected = s.expected
        /\ r.timer = s.timer /\ r.loss = s.loss /\ r.call = s.call
        /\ r.note = s.note /\ r.skipped = s.skipped
        /\ r.sealRequested = s.sealRequested /\ r.unsaid = s.unsaid
    BY <1>0, <2>1 DEF SlotSet
  <2>3. SlotOK(r, st) /\ Step(s, r, st)
    BY <2>2, SlotFrame
  <2>4. Settled(r, st)
    BY <1>1, <2>2 DEF Settled
  <2> QED BY <2>3, <2>4 DEF Good
<1>2. CASE s.call = NoCall /\ s.reopenPending
  <2>1. r = [s EXCEPT !.call = OpenCall("reopen")]
    BY <1>2 DEF RunFlush
  <2> QED BY <1>0, <1>2, <2>1, ReopenSentOK
<1>3. CASE s.call = NoCall /\ ~s.reopenPending /\ NothingToWrite(s)
  <2>1. r = s
    BY <1>3 DEF RunFlush
  <2>2. s.win.dirty = <<>>
    BY <1>3 DEF NothingToWrite
  <2>3. s.state # "retrying"
    BY <2>2 DEF SlotOK, LifeOK
  <2>4. s.expected = st.next
    <3>1. DOMAIN s.win.dirty = {} /\ s.win.next \in Nat /\ s.expected \in Nat /\ st.next \in Nat
      BY <1>0, <2>2, NoRows, SlotFields, WindowFields, StoreFields DEF Pos
    <3>2. s.expected <= st.next /\ st.next <= s.win.next
      BY <1>0, <3>1 DEF WindowOK
    <3>3. s.expected..(s.win.next - 1) = {}
      BY <1>0, <3>1 DEF WindowOK
    <3> QED BY <3>1, <3>2, <3>3
  <2>5. Settled(s, st)
    BY <2>3, <2>4 DEF Settled
  <2> QED BY <2>1, <2>5, StepReflexive DEF Good
<1>4. CASE s.call = NoCall /\ ~s.reopenPending /\ ~NothingToWrite(s)
  <2>1. r \in {[s EXCEPT !.call = AppendCall(s, TakeBatch(s.win, n), n = dirty),
                         !.timer = "none"] : n \in sizes}
    BY <1>4, Zenon DEF RunFlush
  <2>2. PICK n \in sizes : r = [s EXCEPT !.call = AppendCall(s, TakeBatch(s.win, n), n = dirty),
                                         !.timer = "none"]
    BY <2>1
  <2>3. n \in Nat /\ n <= MaxBatch
    <3>1. dirty \in Nat /\ s.maxBatch \in Nat /\ s.maxBatch <= MaxBatch /\ MaxBatch \in Nat
      BY <1>0, DirtyFinite, SlotFields, TurnLogAssumption
    <3> HIDE DEF dirty
    <3> QED BY <3>1
  <2>4. (n = dirty) => n = Cardinality(DOMAIN s.win.dirty)
    OBVIOUS
  <2> HIDE DEF dirty
  <2> QED BY <1>0, <1>4, <2>2, <2>3, <2>4, AppendSentOK
<1> QED BY <1>1, <1>2, <1>3, <1>4

(* A timer is armed or disarmed. *)
LEMMA TimerOK ==
    ASSUME NEW st, NEW s, SlotOK(s, st), HasWindow(s),
           NEW t \in {"none", "flush"}, s.state = "retrying" => s.win.dirty # <<>>,
           NEW r, r = [s EXCEPT !.timer = t]
    PROVE  /\ SlotOK(r, st) /\ Step(s, r, st)
           /\ r.timer = t /\ r.state = s.state /\ r.win = s.win /\ r.expected = s.expected
           /\ r.call = s.call
<1>0. s \in SlotSet /\ Alive(s)
  BY NotHeld DEF SlotOK
<1>1. /\ r \in SlotSet /\ r.timer = t
      /\ r.state = s.state /\ r.win = s.win /\ r.buffered = s.buffered
      /\ r.epoch = s.epoch /\ r.expected = s.expected
      /\ r.loss = s.loss /\ r.call = s.call
      /\ r.note = s.note /\ r.skipped = s.skipped
      /\ r.sealRequested = s.sealRequested /\ r.unsaid = s.unsaid
  BY <1>0 DEF SlotSet
<1>2. /\ Alive(r) = Alive(s) /\ HasWindow(r) = HasWindow(s) /\ InForce(r, st) = InForce(s, st)
  BY <1>1, Zenon DEF Alive, HasWindow, InForce
<1>3. LifeOK(r)
  BY <1>0, <1>1, <1>2 DEF SlotOK, LifeOK
<1>4. CallOK(r, st)
  BY <1>1, <1>2 DEF SlotOK, CallOK
<1>5. r.call.kind = "append" => AppendOK(r, r.call, st)
  BY <1>1, <1>2 DEF SlotOK, AppendOK
<1>6. (Alive(r) /\ HasWindow(r)) => WindowOK(r, r.call.ops, st)
  BY <1>1, <1>2 DEF SlotOK, WindowOK
<1>7. InForce(r, st) => InOrder(SlotVersions(r, r.call.ops, st))
  BY <1>1, <1>2 DEF SlotOK, SlotVersions
<1>8. Step(s, r, st)
  <2>1. SealOK(s, st) => SealOK(r, st)
    BY <1>1, <1>2, SealSame
  <2> QED BY <1>1, <1>2, <2>1 DEF Step, Move, Below, Kept, Pending
<1> QED BY <1>1, <1>3, <1>4, <1>5, <1>6, <1>7, <1>8 DEF SlotOK

LEMMA CheckedFlushOK ==
    ASSUME NEW st \in StoreSet, NEW s, SlotOK(s, st), HasWindow(s), s.timer # "retry",
           gen \in Nat, NEW r \in CheckedFlush(s)
    PROVE  Good(s, r, st)
<1> DEFINE c == Checked(s)
<1>1. s.call.reply # "held" /\ Alive(s)
  BY NotHeld
<1>2. /\ SlotOK(c, st) /\ Step(s, c, st)
      /\ ~Alive(c) => Settled(c, st)
      /\ Alive(c) => c.win = s.win /\ c.timer = s.timer
  <2>1. c = Checked(s)
    OBVIOUS
  <2> HIDE DEF c
  <2>2. Alive(c) => Same(s, c)
    BY <1>1, <2>1, CheckedOK
  <2> QED BY <1>1, <2>1, <2>2, CheckedOK DEF Same
<1>3. r \in IF Alive(c) THEN RunFlush(c) ELSE {c}
  BY DEF CheckedFlush
<1> HIDE DEF c
<1>4. CASE Alive(c)
  <2>1. HasWindow(c) /\ c.timer # "retry" /\ r \in RunFlush(c)
    BY <1>2, <1>3, <1>4 DEF HasWindow
  <2>2. Good(c, r, st)
    BY <1>2, <2>1, RunFlushOK
  <2> QED BY <1>2, <2>2, StepTransitive DEF Good
<1>5. CASE ~Alive(c)
  BY <1>2, <1>3, <1>5 DEF Good
<1> QED BY <1>4, <1>5

LEMMA ScheduleFlushOK ==
    ASSUME NEW st \in StoreSet, NEW s, SlotOK(s, st), Settled(s, st),
           gen \in Nat, NEW immediate \in BOOLEAN, NEW r \in ScheduleFlush(s, immediate)
    PROVE  Good(s, r, st)
<1>1. CASE s.state = "retrying" \/ ~HasWindow(s)
  <2>1. r = s
    BY <1>1 DEF ScheduleFlush
  <2> QED BY <2>1, StepReflexive DEF Good
<1>2. CASE s.state # "retrying" /\ HasWindow(s) /\ immediate
  <2> DEFINE t == [s EXCEPT !.timer = "none"]
  <2>1. r \in CheckedFlush(t)
    BY <1>2, Zenon DEF ScheduleFlush
  <2>2. t = [s EXCEPT !.timer = "none"]
    OBVIOUS
  <2> HIDE DEF t
  <2>3. SlotOK(t, st) /\ Step(s, t, st) /\ t.timer = "none" /\ t.win = s.win
    BY <1>2, <2>2, TimerOK
  <2>4. Good(t, r, st)
    BY <1>2, <2>1, <2>3, CheckedFlushOK DEF HasWindow
  <2> QED BY <2>3, <2>4, StepTransitive DEF Good
<1>3. CASE s.state # "retrying" /\ HasWindow(s) /\ ~immediate
  <2>1. r = [s EXCEPT !.timer = "flush"]
    BY <1>3 DEF ScheduleFlush
  <2>2. /\ SlotOK(r, st) /\ Step(s, r, st) /\ r.state = s.state /\ r.expected = s.expected
        /\ r.call = s.call
    BY <1>3, <2>1, TimerOK
  <2>3. Settled(r, st)
    BY <1>3, <2>2 DEF Settled
  <2> QED BY <2>2, <2>3 DEF Good
<1> QED BY <1>1, <1>2, <1>3

(* What settleFlush is given: a batch that the store has, or whose events   *)
(* are accounted for, and where the log ends.                               *)
Settles(s, ops, seal, next, st) ==
    /\ s.call = NoCall /\ HasWindow(s) /\ s.timer # "retry"
    /\ ops \in Rowses /\ next = st.next
    /\ \A k \in DOMAIN ops : k < st.next
    /\ seal => /\ (s.skipped = {} \/ st.loss)
                /\ EventsOf(s.win.dirty) \subseteq EventsOf(ops)
    /\ st.loss \/ EventsOf(ops) \subseteq EventsOf(st.rows) \cup s.unsaid

(* The slot of settleFlush once the batch has left the window.              *)
Committed(s, ops, next) ==
    [s EXCEPT !.win = CommitBatch(s.win, ops), !.attempts = 0, !.expected = next,
              !.state = "writing"]

LEMMA CommittedOK ==
    ASSUME NEW st \in StoreSet, NEW s, SlotOK(s, st),
           NEW ops, NEW seal, NEW next, Settles(s, ops, seal, next, st),
           NEW r, r = Committed(s, ops, next)
    PROVE  /\ SlotOK(r, st) /\ Settled(r, st) /\ Step(s, r, st) /\ HasWindow(r)
           /\ r.call = NoCall /\ r.timer # "retry" /\ r.skipped = s.skipped
           /\ r.unsaid = s.unsaid /\ EventsOf(r.win.dirty) \subseteq EventsOf(s.win.dirty)
<1> DEFINE w == CommitBatch(s.win, ops)
<1>0. /\ s \in SlotSet /\ Alive(s) /\ WindowOK(s, <<>>, st) /\ WindowShape(s.win)
      /\ s.win \in WindowSet /\ st.next \in Pos /\ next = st.next /\ s.call = NoCall
      /\ ops \in Rowses
  BY NotHeld, NoCallFields, SlotFields, StoreFields DEF SlotOK, WindowOK, Settles
<1>1. /\ WindowShape(w) /\ w.next = s.win.next /\ w.tail = s.win.tail
      /\ w.snapshot = s.win.snapshot
      /\ \A k : k \in DOMAIN w.dirty <=>
             k \in DOMAIN s.win.dirty /\ (k \in DOMAIN ops => ops[k] # s.win.dirty[k])
      /\ \A k \in DOMAIN w.dirty : w.dirty[k] = s.win.dirty[k]
      /\ WindowRows(w) \subseteq WindowRows(s.win)
  <2>1. w = CommitBatch(s.win, ops)
    OBVIOUS
  <2> HIDE DEF w
  <2> QED BY <1>0, <2>1, CommitBatchFields
<1> HIDE DEF w
<1>2. /\ r \in SlotSet /\ r.win = w /\ r.expected = st.next /\ r.state = "writing"
      /\ r.timer = s.timer /\ r.buffered = s.buffered /\ r.epoch = s.epoch
      /\ r.loss = s.loss /\ r.call = s.call /\ r.note = s.note /\ r.skipped = s.skipped
      /\ r.sealRequested = s.sealRequested /\ r.unsaid = s.unsaid
  <2>1. w \in WindowSet /\ st.next \in Nat
    BY <1>0, <1>1 DEF WindowShape, Pos
  <2>2. r = [s EXCEPT !.win = w, !.attempts = 0, !.expected = st.next, !.state = "writing"]
    BY <1>0, Zenon DEF w, Committed
  <2>3. s \in SlotSet
    BY <1>0
  <2> QED BY ONLY <2>1, <2>2, <2>3 DEF SlotSet
<1>11. EventsOf(r.win.dirty) \subseteq EventsOf(s.win.dirty)
  BY <1>1, <1>2 DEF EventsOf
<1>3. Alive(r) /\ HasWindow(r) /\ InForce(r, st) /\ HasWindow(s) /\ InForce(s, st) /\ s.timer # "retry"
  <2>1. HasWindow(s) /\ s.timer # "retry"
    BY DEF Settles
  <2>2. Alive(r) /\ HasWindow(r)
    BY <1>1, <1>2, <2>1 DEF Alive, HasWindow
  <2>3. s.epoch # 0
    BY <2>1 DEF SlotOK, LifeOK
  <2> QED BY <1>0, <1>2, <2>1, <2>2, <2>3 DEF InForce
<1>4. LifeOK(r)
  BY <1>2, <1>3 DEF SlotOK, LifeOK
<1>5. CallOK(r, st)
  <2>1. CallOK(s, st)
    BY DEF SlotOK
  <2> QED BY <1>0, <1>2, <1>3, <2>1, NoCallFields DEF CallOK
<1>6. WindowOK(r, <<>>, st)
  <2>1. /\ st.next \in Nat /\ st.next # 0 /\ s.win.next \in Nat /\ s.expected \in Nat
        /\ s.expected <= st.next /\ st.next <= s.win.next
        /\ s.expected..(s.win.next - 1) \subseteq DOMAIN s.win.dirty
    BY <1>0, WindowFields, SlotFields DEF WindowOK, Pos
  <2>2. st.next..(s.win.next - 1) \subseteq DOMAIN w.dirty
    <3>1. SUFFICES ASSUME NEW k \in st.next..(s.win.next - 1) PROVE k \in DOMAIN w.dirty
      OBVIOUS
    <3>2. k \in DOMAIN s.win.dirty
      BY <2>1
    <3>3. k \notin DOMAIN ops
      BY <2>1 DEF Settles
    <3> QED BY <1>1, <3>2, <3>3
  <2>3. Held(st.rows, w) /\ Held(<<>>, w)
    BY <1>0, <1>1 DEF WindowOK, Held
  <2>4. s.loss \/ (Covers(w.dirty, st.rows) /\ Covers(w.dirty, <<>>))
    BY <1>0, <1>1, NoRows DEF WindowOK, Covers
  <2>5. DOMAIN <<>> \subseteq 1..(w.next - 1)
    BY NoRows
  <2>6. st.next \in 1..st.next
    BY <2>1
  <2> QED BY <1>1, <1>2, <2>1, <2>2, <2>3, <2>4, <2>5, <2>6 DEF WindowOK
<1>7. InOrder(SlotVersions(r, <<>>, st))
  <2>1. SlotVersions(r, <<>>, st) \subseteq SlotVersions(s, <<>>, st)
    BY <1>1, <1>2 DEF SlotVersions
  <2>2. InOrder(SlotVersions(s, <<>>, st))
    BY <1>0, <1>3, NoCallFields DEF SlotOK
  <2> QED BY <2>1, <2>2, InOrderSubset
<1>8. SlotOK(r, st)
  BY <1>0, <1>2, <1>4, <1>5, <1>6, <1>7, NoCallFields DEF SlotOK
<1>9. Settled(r, st)
  BY <1>2 DEF Settled
<1>10. Step(s, r, st)
  <2>1. \A e \in Pos : Below(s, e) => Below(r, e)
    BY <1>1, <1>2 DEF Below, WindowBelow, RowsBelow
  <2>2. st.loss \/ Kept(s) \subseteq EventsOf(st.rows) \cup Kept(r)
    <3>1. SUFFICES ASSUME ~st.loss, NEW x \in EventsOf(s.win.dirty), x \notin EventsOf(w.dirty)
                   PROVE  x \in EventsOf(st.rows) \cup s.unsaid
      <4> DEFINE b == {s.buffered[i].e : i \in DOMAIN s.buffered}
      <4>1. Kept(s) = EventsOf(s.win.dirty) \cup b \cup s.unsaid \cup s.skipped
        BY Zenon DEF Kept, Pending
      <4>2. Kept(r) = EventsOf(w.dirty) \cup b \cup s.unsaid \cup s.skipped
        BY <1>2 DEF Kept, Pending
      <4> HIDE DEF b
      <4> QED BY <4>1, <4>2
    <3>2. PICK k \in DOMAIN s.win.dirty : x \in s.win.dirty[k]
      BY <3>1 DEF EventsOf
    <3>3. k \notin DOMAIN w.dirty
      BY <1>1, <3>1, <3>2 DEF EventsOf
    <3>4. k \in DOMAIN ops /\ x \in ops[k]
      BY <1>1, <3>2, <3>3
    <3>5. x \in EventsOf(ops)
      BY <3>4 DEF EventsOf
    <3> QED BY <3>1, <3>5 DEF Settles
  <2>3. SealOK(s, st) => SealOK(r, st)
    <3>1. Pending(r) \cup r.skipped \subseteq Pending(s) \cup s.skipped
      BY <1>2, <1>11 DEF Pending
    <3> QED BY <1>0, <1>2, <1>11, <3>1, NoCallFields, SealKept
  <2> QED BY <1>0, <1>2, <1>3, <2>1, <2>2, <2>3 DEF Step, Move
<1> QED BY <1>0, <1>2, <1>3, <1>8, <1>9, <1>10, <1>11

LEMMA SettleFlushOK ==
    ASSUME NEW st \in StoreSet, NEW s, SlotOK(s, st),
           NEW ops, NEW seal \in BOOLEAN, NEW next, Settles(s, ops, seal, next, st),
           NEW r \in SettleFlush(s, ops, seal, next)
    PROVE  Good(s, r, st)
<1> DEFINE c == Committed(s, ops, next)
           chase == c.flushRequested \/ c.sealRequested \/ c.win.dirty # <<>>
           quiet == [c EXCEPT !.flushRequested = FALSE]
           last == [c EXCEPT !.skipped = {}]
<1>1. r \in IF seal THEN {Stop(last, "sealed")} ELSE IF chase THEN RunFlush(quiet) ELSE {quiet}
  BY DEF SettleFlush, Committed
<1>2. /\ SlotOK(c, st) /\ Settled(c, st) /\ Step(s, c, st) /\ HasWindow(c)
      /\ c.call = NoCall /\ c.timer # "retry" /\ c.skipped = s.skipped
      /\ c.unsaid = s.unsaid /\ EventsOf(c.win.dirty) \subseteq EventsOf(s.win.dirty)
  <2>1. c = Committed(s, ops, next)
    OBVIOUS
  <2> HIDE DEF c
  <2> QED BY <2>1, CommittedOK
<1>3. c \in SlotSet /\ Alive(c)
  BY <1>2, NotHeld DEF SlotOK
<1> HIDE DEF c
<1>4. CASE seal
  <2>1. /\ last \in SlotSet /\ last.skipped = {}
        /\ last.state = c.state /\ last.win = c.win /\ last.buffered = c.buffered
        /\ last.epoch = c.epoch /\ last.expected = c.expected
        /\ last.timer = c.timer /\ last.loss = c.loss /\ last.call = c.call
        /\ last.note = c.note
        /\ last.sealRequested = c.sealRequested /\ last.unsaid = c.unsaid
    BY <1>3 DEF SlotSet
  <2>2. r = Stop(last, "sealed")
    BY <1>1, <1>4
  <2> HIDE DEF last
  <2>3. /\ Alive(last) = Alive(c) /\ HasWindow(last) = HasWindow(c)
        /\ InForce(last, st) = InForce(c, st)
    BY <2>1, Zenon DEF Alive, HasWindow, InForce
  <2>4. LifeOK(last)
    BY <1>2, <2>1, <2>3 DEF SlotOK, LifeOK
  <2>5. CallOK(last, st)
    BY <1>2, <2>1, <2>3 DEF SlotOK, CallOK
  <2>6. /\ last.call.kind = "append" => AppendOK(last, last.call, st)
        /\ (Alive(last) /\ HasWindow(last)) => WindowOK(last, last.call.ops, st)
        /\ InForce(last, st) => InOrder(SlotVersions(last, last.call.ops, st))
    BY <1>2, <2>1, <2>3 DEF SlotOK, AppendOK, WindowOK, SlotVersions
  <2>7. SlotOK(last, st)
    BY <2>1, <2>4, <2>5, <2>6 DEF SlotOK
  <2>8. Step(c, last, st)
    <3>1. \A e \in Pos : Below(c, e) => Below(last, e)
      BY <2>1 DEF Below
    <3>2. st.loss \/ Kept(c) \subseteq Kept(last)
      <4>1. c.skipped = {} \/ st.loss
        <5>1. s.skipped = {} \/ st.loss
          BY <1>4, Zenon DEF Settles
        <5>2. c.skipped = s.skipped
          BY <1>2
        <5> QED BY <5>1, <5>2
      <4> QED BY <2>1, <4>1 DEF Kept, Pending
    <3>3. SealOK(c, st) => SealOK(last, st)
      <4>1. Pending(last) \cup last.skipped \subseteq Pending(c) \cup c.skipped
        BY <2>1, PendingSame
      <4> QED BY <2>1, <2>3, <4>1, SealKept
    <3> QED BY <1>2, <2>1, <2>3, <3>1, <3>2, <3>3 DEF Step, Move
  <2>9. Good(last, r, st)
    <3>1. last.call.reply # "held" /\ Alive(last)
      BY <1>2, <1>3, <2>1, <2>3, NoCallFields
    <3>2. Spared(last, st)
      <4>1. EventsOf(c.win.dirty) \subseteq EventsOf(ops)
        BY <1>2, <1>4 DEF Settles
      <4>2. st.loss \/ EventsOf(ops) \subseteq EventsOf(st.rows) \cup s.unsaid
        BY DEF Settles
      <4>3. DOMAIN last.buffered = {}
        BY <1>2, <2>1 DEF SlotOK, LifeOK
      <4>4. Pending(last) = EventsOf(c.win.dirty)
        BY <2>1, <4>3 DEF Pending
      <4> QED BY <1>2, <2>1, <4>1, <4>2, <4>4 DEF Spared
    <3> QED BY <2>2, <2>7, <3>1, <3>2, StopOK
  <2>10. Step(s, last, st)
    BY <1>2, <2>8, StepTransitive
  <2> QED BY <2>9, <2>10, StepTransitive DEF Good
<1>5. CASE ~seal
  <2>1. /\ quiet \in SlotSet
        /\ quiet.state = c.state /\ quiet.win = c.win /\ quiet.buffered = c.buffered
        /\ quiet.epoch = c.epoch /\ quiet.expected = c.expected
        /\ quiet.timer = c.timer /\ quiet.loss = c.loss /\ quiet.call = c.call
        /\ quiet.note = c.note /\ quiet.skipped = c.skipped
        /\ quiet.sealRequested = c.sealRequested /\ quiet.unsaid = c.unsaid
    BY <1>3 DEF SlotSet
  <2>2. r = quiet \/ r \in RunFlush(quiet)
    BY <1>1, <1>5, Zenon
  <2> HIDE DEF quiet
  <2>3. SlotOK(quiet, st) /\ Step(c, quiet, st) /\ Settled(quiet, st) /\ HasWindow(quiet)
    <3>1. SlotOK(quiet, st) /\ Step(c, quiet, st) /\ (Settled(c, st) => Settled(quiet, st))
      BY <1>2, <2>1, SlotFrame
    <3> QED BY <1>2, <2>1, <3>1 DEF HasWindow
  <2>4. Step(s, quiet, st)
    BY <1>2, <2>3, StepTransitive
  <2>5. CASE r = quiet
    BY <2>3, <2>4, <2>5 DEF Good
  <2>6. CASE r \in RunFlush(quiet)
    <3>1. Good(quiet, r, st)
      BY <1>2, <2>1, <2>3, <2>6, RunFlushOK
    <3> QED BY <2>4, <3>1, StepTransitive DEF Good
  <2> QED BY <2>2, <2>5, <2>6
<1> QED BY <1>4, <1>5

LEMMA MaxIs ==
    ASSUME NEW S, S \subseteq Nat, S # {}, NEW n \in Nat, \A x \in S : x <= n
    PROVE  Max(S) \in S /\ \A x \in S : x <= Max(S)
<1>1. PICK x \in S : \A y \in S : y <= x
  BY GreatestNumber
<1>2. \A y \in S : x >= y
  BY <1>1
<1>3. Max(S) \in S /\ \A y \in S : Max(S) >= y
  BY <1>2, Zenon DEF Max
<1> QED BY <1>3

(* More of the dropped events are known to be dropped. *)
LEMMA UnsaidOK ==
    ASSUME NEW st, NEW s, SlotOK(s, st), NEW u \in SUBSET Pos,
           NEW r, r = [s EXCEPT !.unsaid = @ \cup u]
    PROVE  /\ SlotOK(r, st) /\ Step(s, r, st) /\ r.unsaid = s.unsaid \cup u
           /\ r.win = s.win /\ r.call = s.call /\ r.timer = s.timer /\ r.skipped = s.skipped
           /\ r.expected = s.expected
<1>0. s \in SlotSet
  BY DEF SlotOK
<1>1. /\ r \in SlotSet /\ r.unsaid = s.unsaid \cup u
      /\ r.state = s.state /\ r.win = s.win /\ r.buffered = s.buffered
      /\ r.epoch = s.epoch /\ r.expected = s.expected
      /\ r.timer = s.timer /\ r.loss = s.loss /\ r.call = s.call
      /\ r.note = s.note /\ r.skipped = s.skipped
      /\ r.sealRequested = s.sealRequested
  <2>1. s.unsaid \cup u \in SUBSET Pos
    BY <1>0, SlotFields
  <2>2. r = [s EXCEPT !.unsaid = s.unsaid \cup u]
    OBVIOUS
  <2> QED BY ONLY <1>0, <2>1, <2>2 DEF SlotSet
<1>2. /\ Alive(r) = Alive(s) /\ HasWindow(r) = HasWindow(s) /\ InForce(r, st) = InForce(s, st)
  BY <1>1, Zenon DEF Alive, HasWindow, InForce
<1>3. LifeOK(r) /\ CallOK(r, st)
  BY <1>1, <1>2 DEF SlotOK, LifeOK, CallOK
<1>4. r.call.kind = "append" => AppendOK(r, r.call, st)
  BY <1>1, <1>2 DEF SlotOK, AppendOK
<1>5. (Alive(r) /\ HasWindow(r)) => WindowOK(r, r.call.ops, st)
  BY <1>1, <1>2 DEF SlotOK, WindowOK
<1>6. InForce(r, st) => InOrder(SlotVersions(r, r.call.ops, st))
  BY <1>1, <1>2 DEF SlotOK, SlotVersions
<1>7. Step(s, r, st)
  <2>1. Pending(r) = Pending(s)
    BY <1>1, PendingSame
  <2>2. Kept(s) \subseteq Kept(r)
    BY <1>1, <2>1 DEF Kept
  <2>3. \A e \in Pos : Below(s, e) => Below(r, e)
    BY <1>1 DEF Below
  <2>4. SealOK(s, st) => SealOK(r, st)
    BY <1>1, <1>2, <2>1, SealKept
  <2> QED BY <1>1, <1>2, <2>2, <2>3, <2>4 DEF Step, Move
<1> QED BY <1>1, <1>3, <1>4, <1>5, <1>6, <1>7 DEF SlotOK

(* A failed call is tried again later, or the slot is given up. *)
LEMMA RetryLaterOK ==
    ASSUME NEW st \in StoreSet, NEW s, SlotOK(s, st), Alive(s), s.call = NoCall,
           NEW error, NEW r \in RetryLater(s, error)
    PROVE  Good(s, r, st)
<1> DEFINE attempts == s.attempts + 1
           t == [s EXCEPT !.attempts = attempts]
           later == [s EXCEPT !.attempts = attempts, !.state = "retrying", !.timer = "retry"]
<1>0. s \in SlotSet /\ attempts \in Nat
  BY SlotFields DEF SlotOK
<1>1. r = Stop(t, "failed") \/ r = later
  BY Zenon DEF RetryLater
<1>2. /\ t \in SlotSet
      /\ t.state = s.state /\ t.win = s.win /\ t.buffered = s.buffered
      /\ t.epoch = s.epoch /\ t.expected = s.expected
      /\ t.timer = s.timer /\ t.loss = s.loss /\ t.call = s.call
      /\ t.note = s.note /\ t.skipped = s.skipped
      /\ t.sealRequested = s.sealRequested /\ t.unsaid = s.unsaid
  BY <1>0 DEF SlotSet
<1>3. /\ later \in SlotSet /\ later.state = "retrying" /\ later.timer = "retry"
      /\ later.win = s.win /\ later.buffered = s.buffered
      /\ later.epoch = s.epoch /\ later.expected = s.expected
      /\ later.loss = s.loss /\ later.call = s.call
      /\ later.note = s.note /\ later.skipped = s.skipped
      /\ later.sealRequested = s.sealRequested /\ later.unsaid = s.unsaid
  BY <1>0 DEF SlotSet
<1> HIDE DEF t, later
<1>4. CASE r = Stop(t, "failed")
  <2>1. SlotOK(t, st) /\ Step(s, t, st)
    BY <1>2, SlotFrame
  <2>2. Alive(t) /\ t.call.reply # "held"
    BY <1>2, NoCallFields DEF Alive
  <2>3. Good(t, r, st)
    BY <1>4, <2>1, <2>2, StopOK
  <2> QED BY <2>1, <2>3, StepTransitive DEF Good
<1>5. CASE r = later
  <2>1. Alive(later) /\ HasWindow(later) = HasWindow(s) /\ InForce(later, st) = InForce(s, st)
    <3>1. Alive(later)
      BY <1>3 DEF Alive
    <3> QED BY <1>3, <3>1 DEF HasWindow, InForce
  <2>2. LifeOK(later)
    BY <1>3, <2>1 DEF SlotOK, LifeOK
  <2>3. CallOK(later, st)
    <3>1. CallOK(s, st) /\ s.call.reply # "held"
      BY NoCallFields DEF SlotOK
    <3> QED BY <1>3, <2>1, <3>1 DEF CallOK
  <2>4. (Alive(later) /\ HasWindow(later)) => WindowOK(later, later.call.ops, st)
    BY <1>3, <2>1 DEF SlotOK, WindowOK
  <2>5. InForce(later, st) => InOrder(SlotVersions(later, later.call.ops, st))
    BY <1>3, <2>1 DEF SlotOK, SlotVersions
  <2>6. later.call.kind # "append"
    BY <1>3, NoCallFields
  <2>7. SlotOK(later, st)
    BY <1>3, <2>2, <2>3, <2>4, <2>5, <2>6 DEF SlotOK
  <2>8. Settled(later, st)
    BY <1>3 DEF Settled
  <2>9. Step(s, later, st)
    <3>1. Kept(later) = Kept(s)
      BY <1>3, KeptSame
    <3>2. \A e \in Pos : Below(s, e) => Below(later, e)
      BY <1>3 DEF Below
    <3>3. SealOK(s, st) => SealOK(later, st)
      BY <1>3, SealSame
    <3> QED BY <1>3, <2>1, <3>1, <3>2, <3>3 DEF Step, Move
  <2> QED BY <1>5, <2>7, <2>8, <2>9 DEF Good
<1> QED BY <1>1, <1>4, <1>5

(* A row is clipped and its events are given up for a loss. *)
LEMMA ClippedOK ==
    ASSUME NEW st \in StoreSet, NEW s, SlotOK(s, st), HasWindow(s), s.call = NoCall,
           NEW q \in DOMAIN s.win.dirty,
           NEW r, r = [s EXCEPT !.win = ClipRow(s.win, q), !.loss = TRUE,
                                !.skipped = @ \cup s.win.dirty[q]]
    PROVE  SlotOK(r, st) /\ Step(s, r, st) /\ HasWindow(r) /\ r.timer = s.timer
<1> DEFINE w == ClipRow(s.win, q)
           u == s.skipped \cup s.win.dirty[q]
<1>0. /\ s \in SlotSet /\ Alive(s) /\ WindowOK(s, <<>>, st) /\ WindowShape(s.win)
      /\ s.win \in WindowSet
  BY NotHeld, NoCallFields, SlotFields DEF SlotOK, WindowOK
<1>1. /\ WindowShape(w) /\ w.next = s.win.next /\ DOMAIN w.dirty = DOMAIN s.win.dirty
      /\ w.dirty[q] = {} /\ \A k \in DOMAIN s.win.dirty \ {q} : w.dirty[k] = s.win.dirty[k]
      /\ w.snapshot = s.win.snapshot
      /\ \/ w.tail = s.win.tail /\ s.win.tail.seq # q
         \/ w.tail.seq = s.win.tail.seq /\ w.tail.events = {} /\ w.tail.text = FALSE
      /\ WindowRows(w) \subseteq WindowRows(s.win) \cup {<<q, {}>>}
  <2>1. w = ClipRow(s.win, q)
    OBVIOUS
  <2> HIDE DEF w
  <2>2. Clipped(s.win, w, q)
    BY <1>0, <2>1, ClipRowFields
  <2> QED BY <2>2 DEF Clipped
<1>2. u \in SUBSET Pos
  BY <1>0, WindowFields, SlotFields
<1> HIDE DEF w
<1>3. /\ r \in SlotSet /\ r.win = w /\ r.loss = TRUE /\ r.skipped = u
      /\ r.state = s.state /\ r.expected = s.expected
      /\ r.timer = s.timer /\ r.buffered = s.buffered /\ r.epoch = s.epoch
      /\ r.call = s.call /\ r.note = s.note
      /\ r.sealRequested = s.sealRequested /\ r.unsaid = s.unsaid
  <2>1. w \in WindowSet /\ s \in SlotSet
    BY <1>0, <1>1 DEF WindowShape
  <2>2. r = [s EXCEPT !.win = w, !.loss = TRUE, !.skipped = u]
    BY Zenon DEF w
  <2> HIDE DEF u
  <2>3. u \in SUBSET Pos
    BY <1>2
  <2> QED BY ONLY <2>1, <2>2, <2>3 DEF SlotSet
<1>4. Alive(r) = Alive(s) /\ HasWindow(r) = HasWindow(s) /\ InForce(r, st) = InForce(s, st)
  <2>1. r.win.next = s.win.next
    BY <1>1, <1>3
  <2> QED BY <1>3, <2>1, Zenon DEF Alive, HasWindow, InForce
<1>5. LifeOK(r)
  <2>1. w.dirty # <<>>
    <3>1. w.dirty \in Rowses /\ DOMAIN w.dirty # {}
      BY <1>1, WindowFields DEF WindowShape
    <3> QED BY <3>1, RowsesElim
  <2>2. LifeOK(s)
    BY DEF SlotOK
  <2> QED BY <1>0, <1>3, <1>4, <2>1, <2>2 DEF LifeOK
<1>6. CallOK(r, st)
  BY <1>3, <1>4 DEF SlotOK, CallOK
<1>7. WindowOK(r, <<>>, st)
  <2>1. Held(st.rows, w) /\ Held(<<>>, w)
    BY <1>0, <1>1 DEF WindowOK, Held
  <2> QED BY <1>0, <1>1, <1>3, <2>1 DEF WindowOK
<1>8. InForce(r, st) => InOrder(SlotVersions(r, <<>>, st))
  <2>1. SlotVersions(r, <<>>, st) \subseteq SlotVersions(s, <<>>, st) \cup {<<q, {}>>}
    BY <1>1, <1>3 DEF SlotVersions
  <2>2. InForce(s, st) => InOrder(SlotVersions(s, <<>>, st))
    BY NoCallFields DEF SlotOK
  <2>3. InForce(s, st) => InOrder(SlotVersions(s, <<>>, st) \cup {<<q, {}>>})
    BY <2>2, InOrderEmpty
  <2> QED BY <1>4, <2>1, <2>3, InOrderSubset
<1>9. SlotOK(r, st)
  <2>1. r.call = NoCall /\ r.call.ops = <<>> /\ r.call.kind = "none"
    BY <1>3, NoCallFields
  <2> QED BY <1>3, <1>5, <1>6, <1>7, <1>8, <2>1 DEF SlotOK
<1>10. Step(s, r, st)
  <2>1. \A e \in Pos : Below(s, e) => Below(r, e)
    <3>1. SUFFICES ASSUME NEW e \in Pos, WindowBelow(s.win, e) PROVE WindowBelow(w, e)
      BY <1>3 DEF Below
    <3>2. RowsBelow(w.dirty, e)
      BY <1>1, <3>1 DEF WindowBelow, RowsBelow
    <3>3. RowBelow(w.tail, e) /\ RowBelow(w.snapshot, e) /\ w.next <= e
      BY <1>1, <3>1 DEF WindowBelow, RowBelow
    <3> QED BY <3>2, <3>3 DEF WindowBelow
  <2>2. Kept(s) \subseteq Kept(r)
    <3>1. EventsOf(s.win.dirty) \subseteq EventsOf(w.dirty) \cup u
      <4>1. SUFFICES ASSUME NEW x \in EventsOf(s.win.dirty) PROVE x \in EventsOf(w.dirty) \cup u
        OBVIOUS
      <4>2. PICK k \in DOMAIN s.win.dirty : x \in s.win.dirty[k]
        BY DEF EventsOf
      <4>3. k # q => x \in EventsOf(w.dirty)
        BY <1>1, <4>2 DEF EventsOf
      <4> QED BY <4>2, <4>3
    <3> DEFINE b == {s.buffered[i].e : i \in DOMAIN s.buffered}
    <3>2. Kept(s) = EventsOf(s.win.dirty) \cup b \cup s.unsaid \cup s.skipped
      BY Zenon DEF Kept, Pending
    <3>3. Kept(r) = EventsOf(w.dirty) \cup b \cup s.unsaid \cup u
      BY <1>3 DEF Kept, Pending
    <3>4. s.skipped \subseteq u
      OBVIOUS
    <3> HIDE DEF b, u
    <3> QED BY <3>1, <3>2, <3>3, <3>4
  <2>3. SealOK(s, st) => SealOK(r, st)
    <3>1. EventsOf(w.dirty) \subseteq EventsOf(s.win.dirty)
      BY <1>1 DEF EventsOf
    <3>2. s.win.dirty[q] \subseteq EventsOf(s.win.dirty)
      BY DEF EventsOf
    <3>3. Pending(r) \cup r.skipped \subseteq Pending(s) \cup s.skipped
      BY <1>3, <3>1, <3>2 DEF Pending
    <3> QED BY <1>3, <1>4, <3>1, <3>3, SealKept
  <2> QED BY <1>3, <1>4, <2>1, <2>2, <2>3 DEF Step, Move
<1> QED BY <1>3, <1>4, <1>9, <1>10

LEMMA ShrinkBatchOK ==
    ASSUME NEW st \in StoreSet, NEW s, SlotOK(s, st), HasWindow(s), s.call = NoCall,
           s.timer # "retry",
           NEW ops \in Rowses, IsFiniteSet(DOMAIN ops), Cardinality(DOMAIN ops) <= MaxBatch,
           NEW r \in ShrinkBatch(s, ops)
    PROVE  Good(s, r, st)
<1> DEFINE seq == CHOOSE x \in DOMAIN ops : TRUE
           half == Cardinality(DOMAIN ops) \div 2
<1>0. s \in SlotSet /\ Alive(s) /\ s.call.reply # "held"
  BY NotHeld DEF SlotOK
<1>1. CASE r = Stop(s, "failed")
  BY <1>0, <1>1, StopOK DEF Good
<1>2. CASE Cardinality(DOMAIN ops) > 1 /\ r \in RunFlush([s EXCEPT !.maxBatch = half])
  <2> DEFINE t == [s EXCEPT !.maxBatch = half]
  <2>1. half \in 1..MaxBatch
    <3>1. Cardinality(DOMAIN ops) \in Nat /\ MaxBatch \in Nat
      BY FS_CardinalityType, TurnLogAssumption
    <3> QED BY <1>2, <3>1
  <2> HIDE DEF half
  <2>2. /\ t \in SlotSet
        /\ t.state = s.state /\ t.win = s.win /\ t.buffered = s.buffered
        /\ t.epoch = s.epoch /\ t.expected = s.expected
        /\ t.timer = s.timer /\ t.loss = s.loss /\ t.call = s.call
        /\ t.note = s.note /\ t.skipped = s.skipped
        /\ t.sealRequested = s.sealRequested /\ t.unsaid = s.unsaid
    BY <1>0, <2>1 DEF SlotSet
  <2>3. r \in RunFlush(t)
    BY <1>2
  <2> HIDE DEF t
  <2>4. SlotOK(t, st) /\ Step(s, t, st)
    BY <2>2, SlotFrame
  <2>5. Good(t, r, st)
    BY <2>2, <2>3, <2>4, RunFlushOK DEF HasWindow
  <2> QED BY <2>4, <2>5, StepTransitive DEF Good
<1>3. CASE /\ seq \in DOMAIN s.win.dirty
           /\ r \in RunFlush([s EXCEPT !.win = ClipRow(s.win, seq), !.loss = TRUE,
                                       !.skipped = @ \cup s.win.dirty[seq]])
  <2> DEFINE t == [s EXCEPT !.win = ClipRow(s.win, seq), !.loss = TRUE,
                            !.skipped = @ \cup s.win.dirty[seq]]
  <2>1. r \in RunFlush(t) /\ seq \in DOMAIN s.win.dirty
    BY <1>3
  <2> HIDE DEF seq
  <2>2. t = [s EXCEPT !.win = ClipRow(s.win, seq), !.loss = TRUE,
                      !.skipped = @ \cup s.win.dirty[seq]]
    OBVIOUS
  <2> HIDE DEF t
  <2>3. SlotOK(t, st) /\ Step(s, t, st) /\ HasWindow(t) /\ t.timer = s.timer
    BY <2>1, <2>2, ClippedOK
  <2>4. Good(t, r, st)
    BY <2>1, <2>3, RunFlushOK
  <2> QED BY <2>3, <2>4, StepTransitive DEF Good
<1>4. \/ r = Stop(s, "failed")
      \/ Cardinality(DOMAIN ops) > 1 /\ r \in RunFlush([s EXCEPT !.maxBatch = half])
      \/ /\ seq \in DOMAIN s.win.dirty
         /\ r \in RunFlush([s EXCEPT !.win = ClipRow(s.win, seq), !.loss = TRUE,
                                     !.skipped = @ \cup s.win.dirty[seq]])
  <2> DEFINE clipped == [s EXCEPT !.win = ClipRow(s.win, seq), !.loss = TRUE,
                                  !.skipped = @ \cup s.win.dirty[seq]]
             halved == [s EXCEPT !.maxBatch = half]
  <2>1. r \in CASE ops = <<>> -> {Stop(s, "failed")}
                [] Cardinality(DOMAIN ops) > 1 -> RunFlush(halved)
                [] OTHER -> IF seq \notin DOMAIN s.win.dirty \/ s.win.dirty[seq] = {}
                            THEN {Stop(s, "failed")} ELSE RunFlush(clipped)
    BY Zenon DEF ShrinkBatch
  <2>2. ops = <<>> => ~(Cardinality(DOMAIN ops) > 1)
    <3>1. ops = <<>> => DOMAIN ops = {}
      BY NoRows
    <3>2. Cardinality({}) = 0
      BY FS_EmptySet
    <3> QED BY <3>1, <3>2
  <2> HIDE DEF clipped, halved, seq
  <2>3. \/ r = Stop(s, "failed")
        \/ Cardinality(DOMAIN ops) > 1 /\ r \in RunFlush(halved)
        \/ seq \in DOMAIN s.win.dirty /\ r \in RunFlush(clipped)
    BY <2>1, <2>2
  <2> QED BY <2>3 DEF clipped, halved
<1> QED BY <1>1, <1>2, <1>3, <1>4

(* A gap that the batch itself explains settles it; any other ends the slot. *)
LEMMA ReconcileOK ==
    ASSUME store \in StoreSet, NEW s, SlotOK(s, store), HasWindow(s), s.call = NoCall,
           s.timer # "retry",
           NEW c \in CallSet, c.reply = "sequenceGap", AppendOK(s, c, store),
           DOMAIN c.ops \subseteq 1..(s.win.next - 1),
           NEW r \in ReconcileSequenceGap(s, c)
    PROVE  Good(s, r, store)
<1> DEFINE u == EventsOf(c.ops) \ EventsOf(store.rows)
           t == [s EXCEPT !.unsaid = @ \cup u]
<1>0. /\ s \in SlotSet /\ Alive(s) /\ s.call.reply # "held" /\ s.epoch # 0 /\ s.expected \in Nat
      /\ c.ops \in Rowses
  BY NotHeld, SlotFields, CallFields DEF SlotOK, LifeOK
<1>1. CASE r = Stop(s, "sequenceGap")
  BY <1>0, <1>1, StopOK DEF Good
<1>2. CASE Explains(s, c.ops, c.next) /\ r \in SettleFlush(t, c.ops, FALSE, c.next)
  <2>1. u \in SUBSET Pos
    BY <1>0, EventsOfIn
  <2>2. t = [s EXCEPT !.unsaid = @ \cup u]
    OBVIOUS
  <2>3. EventsOf(c.ops) \subseteq EventsOf(store.rows) \cup u
    OBVIOUS
  <2> HIDE DEF u, t
  <2>4. /\ SlotOK(t, store) /\ Step(s, t, store) /\ t.unsaid = s.unsaid \cup u
        /\ t.win = s.win /\ t.call = s.call /\ t.timer = s.timer
    BY <2>1, <2>2, UnsaidOK
  <2>5. c.next = store.next
    BY <1>0 DEF AppendOK, InForce
  <2>6. \A k \in DOMAIN c.ops : k < store.next
    <3> DEFINE D == DOMAIN c.ops
               E == {s.expected, Max(DOMAIN c.ops) + 1}
    <3>1. D \subseteq Nat /\ D # {}
      BY <1>0, <1>2, RowsesElim DEF Explains, Pos
    <3>2. Max(D) \in D /\ \A x \in D : x <= Max(D)
      <4>1. PICK n \in Nat : \A x \in D : x <= n
        <5>1. s.win.next \in Nat /\ \A x \in D : x <= s.win.next
          BY <1>0, SlotFields, WindowFields
        <5> HIDE DEF D
        <5> QED BY <5>1
      <4> HIDE DEF D
      <4> QED BY <3>1, <4>1, MaxIs
    <3>3. E \subseteq Nat /\ E # {} /\ Max(D) + 1 \in E
      BY <1>0, <3>1, <3>2
    <3>4. c.next = Max(E)
      BY <1>2 DEF Explains
    <3> HIDE DEF E
    <3>5. Max(D) + 1 <= Max(E)
      <4>1. \E n \in Nat : \A x \in E : x <= n
        <5>1. /\ s.expected \in Nat /\ Max(D) + 1 \in Nat
              /\ \A x \in E : x = s.expected \/ x = Max(D) + 1
          BY <1>0, <3>1, <3>2 DEF E
        <5>2. /\ s.expected + Max(D) + 1 \in Nat
              /\ \A x \in E : x <= s.expected + Max(D) + 1
          <6> HIDE DEF D
          <6> QED BY <3>1, <3>2, <5>1
        <5> QED BY <5>2
      <4> HIDE DEF D
      <4> QED BY <3>3, <4>1, MaxIs
    <3> HIDE DEF D
    <3>6. \A x \in D : x < store.next
      <4>1. store.next \in Nat
        BY StoreFields DEF Pos
      <4> DEFINE top == Max(D)
      <4>2. top \in D /\ top \in Nat /\ \A x \in D : x \in Nat /\ x <= top
        BY <3>1, <3>2
      <4>3. top + 1 <= store.next
        BY <2>5, <3>4, <3>5
      <4> HIDE DEF top
      <4> DEFINE n == store.next
      <4>4. top + 1 <= n /\ n \in Nat
        BY <4>1, <4>3
      <4> HIDE DEF n
      <4>5. \A x \in D : x < n
        BY ONLY <4>2, <4>4
      <4> QED BY <4>5 DEF n
    <3> QED BY <3>6 DEF D
  <2>7. Settles(t, c.ops, FALSE, c.next, store)
    <3>1. EventsOf(c.ops) \subseteq EventsOf(store.rows) \cup t.unsaid
      BY <2>3, <2>4
    <3>2. HasWindow(t) /\ t.call = NoCall /\ t.timer # "retry"
      BY <2>4 DEF HasWindow
    <3> QED BY <1>0, <2>5, <2>6, <3>1, <3>2, Zenon DEF Settles
  <2>8. Good(t, r, store)
    BY <1>2, <2>4, <2>7, SettleFlushOK
  <2> QED BY <2>4, <2>8, StepTransitive DEF Good
<1> QED BY <1>1, <1>2, Zenon DEF ReconcileSequenceGap

(* The reply to an append. *)
LEMMA AppendRepliedOK ==
    ASSUME StoreOK(store), NEW s, SlotOK(s, store), HasWindow(s), s.call = NoCall,
           s.timer # "retry",
           NEW c \in CallSet, AppendOK(s, c, store), DOMAIN c.ops \subseteq 1..(s.win.next - 1),
           c.seal => EventsOf(s.win.dirty) \subseteq EventsOf(c.ops),
           c.reply = "sealed" => Spared(s, store),
           NEW r \in AppendReplied(s, c)
    PROVE  Good(s, r, store)
<1> DEFINE t == [s EXCEPT !.maxBatch = MaxBatch]
<1>0. /\ s \in SlotSet /\ Alive(s) /\ s.call.reply # "held" /\ s.epoch # 0 /\ store \in StoreSet
      /\ c.ops \in Rowses /\ c.seal \in BOOLEAN
  BY NotHeld, SlotFields, CallFields DEF SlotOK, LifeOK, StoreOK
<1>1. CASE c.reply = "ok" /\ r \in SettleFlush(t, c.ops, c.seal, c.next)
  <2>1. /\ t \in SlotSet
        /\ t.state = s.state /\ t.win = s.win /\ t.buffered = s.buffered
        /\ t.epoch = s.epoch /\ t.expected = s.expected
        /\ t.timer = s.timer /\ t.loss = s.loss /\ t.call = s.call
        /\ t.note = s.note /\ t.skipped = s.skipped
        /\ t.sealRequested = s.sealRequested /\ t.unsaid = s.unsaid
    <3>1. MaxBatch \in 1..MaxBatch
      BY TurnLogAssumption
    <3> QED BY ONLY <1>0, <3>1 DEF SlotSet
  <2> HIDE DEF t
  <2>2. SlotOK(t, store) /\ Step(s, t, store)
    BY <2>1, SlotFrame
  <2>3. /\ c.next = store.next /\ (c.loss => store.loss)
        /\ \A k \in DOMAIN c.ops : k \in DOMAIN store.rows /\ store.rows[k] = c.ops[k]
    BY <1>0, <1>1 DEF AppendOK, InForce
  <2>4. \A k \in DOMAIN c.ops : k < store.next
    <3>1. store.next \in Nat
      BY <1>0, StoreFields DEF Pos
    <3> QED BY <2>3, <3>1 DEF StoreOK
  <2>5. c.seal => (s.skipped = {} \/ store.loss)
    BY <1>0, <2>3 DEF AppendOK, SlotOK, LifeOK
  <2>6. EventsOf(c.ops) \subseteq EventsOf(store.rows)
    BY <2>3 DEF EventsOf
  <2>7. Settles(t, c.ops, c.seal, c.next, store)
    <3>1. HasWindow(t) /\ t.call = NoCall /\ t.timer # "retry" /\ t.skipped = s.skipped
      BY <2>1 DEF HasWindow
    <3>2. EventsOf(c.ops) \subseteq EventsOf(store.rows) \cup t.unsaid
      BY <2>6
    <3>3. c.seal => EventsOf(t.win.dirty) \subseteq EventsOf(c.ops)
      BY <2>1
    <3> QED BY <1>0, <2>3, <2>4, <2>5, <3>1, <3>2, <3>3, Zenon DEF Settles
  <2>8. Good(t, r, store)
    BY <1>0, <1>1, <2>2, <2>7, SettleFlushOK
  <2> QED BY <2>2, <2>8, StepTransitive DEF Good
<1>2. CASE r \in ShrinkBatch(s, c.ops)
  BY <1>0, <1>2, ShrinkBatchOK DEF AppendOK
<1>3. CASE c.reply = "sequenceGap" /\ r \in ReconcileSequenceGap(s, c)
  BY <1>0, <1>3, ReconcileOK
<1>4. CASE r \in RetryLater(s, c.reply)
  BY <1>0, <1>4, RetryLaterOK
<1>5. CASE r = Stop(s, c.reply)
  BY <1>0, <1>5, StopOK DEF Good
<1>6. \/ c.reply = "ok" /\ r \in SettleFlush(t, c.ops, c.seal, c.next)
      \/ r \in ShrinkBatch(s, c.ops)
      \/ c.reply = "sequenceGap" /\ r \in ReconcileSequenceGap(s, c)
      \/ r \in RetryLater(s, c.reply)
      \/ r = Stop(s, c.reply)
  <2> HIDE DEF t
  <2>1. r \in CASE c.reply = "ok" -> SettleFlush(t, c.ops, c.seal, c.next)
                [] c.reply = "tooLarge" -> ShrinkBatch(s, c.ops)
                [] c.reply = "sequenceGap" -> ReconcileSequenceGap(s, c)
                [] c.reply \in {"busy", "unavailable"} -> RetryLater(s, c.reply)
                [] OTHER -> {Stop(s, c.reply)}
    BY Zenon DEF AppendReplied, t
  <2> QED BY <2>1
<1> QED BY <1>1, <1>2, <1>3, <1>4, <1>5, <1>6

----------------------------------------------------------------------------
(* A step of one slot, and the slots together. *)

(* Every slot keeps its epoch, and the leases granted are as before or new. *)
EpochsKept(sl, st, t, su) ==
    \A n \in Mounts :
        /\ t[n].epoch = sl[n].epoch
        /\ (Alive(t[n]) /\ t[n].epoch # 0) => Alive(sl[n])
        /\ Granted(t[n]) =>
             \/ Granted(sl[n]) /\ t[n].call = sl[n].call /\ su.next = st.next
             \/ /\ t[n].call.next = su.next
                /\ \A k \in Mounts : t[k].epoch < t[n].call.epoch

LEMMA EpochsSame ==
    ASSUME NEW st, NEW su, NEW sl, EpochsOK(sl, st), sl \in [Mounts -> SlotSet],
           NEW t, EpochsKept(sl, st, t, su)
    PROVE  EpochsOK(t, su)
<1> HIDE DEF Mounts
<1> USE DEF EpochsKept
<1>1. ASSUME NEW n \in Mounts, NEW k \in Mounts \ {n}
      PROVE  /\ t[n].epoch = t[k].epoch => t[n].epoch = 0
             /\ (Alive(t[n]) /\ t[n].epoch # 0) => t[k].epoch < t[n].epoch
  <2>1. /\ sl[n].epoch = sl[k].epoch => sl[n].epoch = 0
        /\ (Alive(sl[n]) /\ sl[n].epoch # 0) => sl[k].epoch < sl[n].epoch
    BY Zenon DEF EpochsOK
  <2>2. /\ t[n].epoch = sl[n].epoch /\ t[k].epoch = sl[k].epoch
        /\ (Alive(t[n]) /\ t[n].epoch # 0) => Alive(sl[n])
    OBVIOUS
  <2> QED BY <2>1, <2>2
<1>2. ASSUME NEW n \in Mounts, Granted(t[n])
      PROVE  /\ t[n].call.next = su.next
             /\ \A k \in Mounts : t[k].epoch < t[n].call.epoch
  <2>1. CASE Granted(sl[n]) /\ t[n].call = sl[n].call /\ su.next = st.next
    <3>1. /\ sl[n].call.next = st.next
          /\ \A k \in Mounts : sl[k].epoch < sl[n].call.epoch
      BY <2>1, Zenon DEF EpochsOK
    <3> QED BY <2>1, <3>1
  <2>2. CASE /\ t[n].call.next = su.next
             /\ \A k \in Mounts : t[k].epoch < t[n].call.epoch
    BY <2>2
  <2> QED BY <1>2, <2>1, <2>2, Zenon
<1> QED BY <1>1, <1>2, Zenon DEF EpochsOK

LEMMA EpochsStep ==
    ASSUME NEW st, NEW sl, EpochsOK(sl, st), NEW m \in Mounts, sl \in [Mounts -> SlotSet],
           NEW r, Move(sl[m], r, st), NEW t, t = [sl EXCEPT ![m] = r]
    PROVE  EpochsOK(t, st)
<1>1. t[m] = r /\ \A n \in Mounts \ {m} : t[n] = sl[n]
  OBVIOUS
<1>2. \A n \in Mounts : t[n].epoch = sl[n].epoch /\ (Alive(t[n]) => Alive(sl[n]))
  BY <1>1, Zenon DEF Move
<1>3. \A n \in Mounts : Granted(t[n]) => (Granted(sl[n]) /\ t[n].call = sl[n].call)
  <2>1. Granted(r) => (Granted(sl[m]) /\ r.call = sl[m].call)
    BY DEF Move, Granted
  <2> QED BY <1>1, <2>1, Zenon
<1> QED BY <1>2, <1>3, EpochsSame DEF EpochsKept

(* Of what is buffered, slots may only lose all. *)
LEMMA ArrivalsSame ==
    ASSUME NEW st, NEW su, NEW sl, NEW rec \in Nat, ArrivalsOK(sl, st, rec),
           sl \in [Mounts -> SlotSet], NEW t,
           \A n \in Mounts : t[n].buffered \in {sl[n].buffered, <<>>},
           \A e \in Pos : Newer(sl, st, e) => Newer(t, su, e)
    PROVE  ArrivalsOK(t, su, rec)
<1> HIDE DEF Mounts
<1>2. \A n \in Mounts : \A i \in DOMAIN t[n].buffered :
         i \in DOMAIN sl[n].buffered /\ t[n].buffered[i] = sl[n].buffered[i]
  <2>1. DOMAIN <<>> = {}
    OBVIOUS
  <2>2. \A n \in Mounts : t[n].buffered = sl[n].buffered \/ t[n].buffered = <<>>
    OBVIOUS
  <2> QED BY <2>1, <2>2, Zenon
<1>4. \A n \in Mounts : \A i \in DOMAIN sl[n].buffered : sl[n].buffered[i].e \in Pos
  <2>1. SUFFICES ASSUME NEW n \in Mounts, NEW i \in DOMAIN sl[n].buffered
                 PROVE  sl[n].buffered[i].e \in Pos
    BY Zenon
  <2>2. sl[n].buffered \in Seq(BufferedSet)
    BY SlotFields
  <2>3. sl[n].buffered[i] \in BufferedSet
    BY <2>2
  <2> QED BY <2>3 DEF BufferedSet
<1>5. rec + 1 \in Pos
  BY DEF Pos
<1>6. Newer(t, su, rec + 1)
  BY <1>5, Zenon DEF ArrivalsOK
<1>7. ASSUME NEW n \in Mounts, NEW i \in DOMAIN t[n].buffered
      PROVE  LET b == t[n].buffered[i].e
             IN /\ b <= rec /\ Newer(t, su, b)
                /\ \A j \in DOMAIN t[n].buffered : i < j => b < t[n].buffered[j].e
                /\ \A k \in Mounts : \A j \in DOMAIN t[k].buffered :
                      k < n => t[k].buffered[j].e < b
  <2> DEFINE b == sl[n].buffered[i].e
  <2>1. i \in DOMAIN sl[n].buffered /\ t[n].buffered[i].e = b /\ b \in Pos
    BY <1>2, <1>4, <1>7
  <2>2. /\ b <= rec /\ Newer(sl, st, b)
        /\ \A j \in DOMAIN sl[n].buffered : i < j => b < sl[n].buffered[j].e
        /\ \A k \in Mounts : \A j \in DOMAIN sl[k].buffered :
              k < n => sl[k].buffered[j].e < b
    BY <2>1, Zenon DEF ArrivalsOK
  <2> HIDE DEF b
  <2>3. Newer(t, su, b)
    BY <2>1, <2>2
  <2>4. \A j \in DOMAIN t[n].buffered : i < j => b < t[n].buffered[j].e
    BY <1>2, <2>2, Zenon
  <2>5. \A k \in Mounts : \A j \in DOMAIN t[k].buffered : k < n => t[k].buffered[j].e < b
    BY <1>2, <2>2, Zenon
  <2> QED BY <2>1, <2>2, <2>3, <2>4, <2>5
<1> QED BY <1>6, <1>7, Zenon DEF ArrivalsOK

LEMMA ArrivalsStep ==
    ASSUME NEW st, NEW sl, NEW rec \in Nat, ArrivalsOK(sl, st, rec), NEW m \in Mounts,
           sl \in [Mounts -> SlotSet],
           NEW r, Move(sl[m], r, st), NEW t, t = [sl EXCEPT ![m] = r]
    PROVE  ArrivalsOK(t, st, rec)
<1>1. t[m] = r /\ \A n \in Mounts \ {m} : t[n] = sl[n]
  OBVIOUS
<1> HIDE DEF Mounts
<1>2. \A e \in Pos : Newer(sl, st, e) => Newer(t, st, e)
  <2>1. \A e \in Pos : Below(sl[m], e) => Below(r, e)
    BY DEF Move
  <2> QED BY <1>1, <2>1, Zenon DEF Newer
<1>3. \A n \in Mounts : t[n].buffered \in {sl[n].buffered, <<>>}
  BY <1>1 DEF Move
<1> QED BY <1>2, <1>3, ArrivalsSame

(* The dropped and the pending events of one slot grow. *)
LEMMA AccountedSame ==
    ASSUME NEW st, NEW su, NEW sl, NEW rec, Accounted(sl, st, rec), NEW t,
           \/ su.loss
           \/ /\ ~st.loss /\ EventsOf(st.rows) \subseteq EventsOf(su.rows)
              /\ \A n \in Mounts : Kept(sl[n]) \subseteq EventsOf(su.rows) \cup Kept(t[n])
    PROVE  Accounted(t, su, rec)
<1> HIDE DEF Mounts
<1>1. SUFFICES ASSUME ~su.loss, NEW x \in 1..rec
               PROVE  x \in EventsOf(su.rows) \cup UNION {Kept(t[n]) : n \in Mounts}
  BY DEF Accounted
<1>2. x \in EventsOf(st.rows) \/ \E n \in Mounts : x \in Kept(sl[n])
  BY <1>1, Zenon DEF Accounted
<1>3. CASE x \in EventsOf(st.rows)
  BY <1>1, <1>3
<1>4. CASE \E n \in Mounts : x \in Kept(sl[n])
  <2>1. PICK n \in Mounts : x \in Kept(sl[n])
    BY <1>4
  <2>2. x \in EventsOf(su.rows) \/ x \in Kept(t[n])
    BY <1>1, <2>1
  <2> QED BY <2>2
<1> QED BY <1>2, <1>3, <1>4

LEMMA AccountedStep ==
    ASSUME NEW st, NEW sl, NEW rec, Accounted(sl, st, rec), NEW m \in Mounts,
           sl \in [Mounts -> SlotSet],
           NEW r, st.loss \/ Kept(sl[m]) \subseteq EventsOf(st.rows) \cup Kept(r),
           NEW t, t = [sl EXCEPT ![m] = r]
    PROVE  Accounted(t, st, rec)
<1>1. t[m] = r /\ \A n \in Mounts \ {m} : t[n] = sl[n]
  OBVIOUS
<1> HIDE DEF Mounts
<1>2. st.loss \/ \A n \in Mounts : Kept(sl[n]) \subseteq EventsOf(st.rows) \cup Kept(t[n])
  BY <1>1
<1> QED BY <1>2, AccountedSame

LEMMA MountsStep ==
    ASSUME NEW st, NEW sl, NEW lv, NEW rt, NEW mt, MountsOK(sl, lv, rt, mt),
           NEW m \in Mounts, sl \in [Mounts -> SlotSet], sl[m] # Unopened,
           NEW r, Move(sl[m], r, st), (sl[m].call.reply = "held" /\ Alive(r)) => r.call = sl[m].call,
           NEW t, t = [sl EXCEPT ![m] = r]
    PROVE  MountsOK(t, lv, rt, mt)
<1>1. t[m] = r /\ \A n \in Mounts \ {m} : t[n] = sl[n]
  OBVIOUS
<1>2. ~(m > mt)
  BY Zenon DEF MountsOK
<1>3. Alive(r) => Alive(sl[m])
  BY DEF Move
<1>4. r.call.reply = "held" => sl[m].call.reply = "held"
  BY DEF Move
<1>5. (sl[m].call.reply = "held" /\ Alive(r)) => r.call.reply = "held"
  BY DEF Move
<1> HIDE DEF Mounts
<1>6. ASSUME NEW n \in Mounts
      PROVE  /\ n > mt => t[n] = Unopened
             /\ Alive(t[n]) => n \in {lv, rt}
             /\ (n = lv /\ rt # 0 /\ Alive(t[n])) => t[n].call.reply = "held"
             /\ t[n].call.reply = "held" => n = lv /\ rt # 0
  <2>1. /\ n > mt => sl[n] = Unopened
        /\ Alive(sl[n]) => n \in {lv, rt}
        /\ (n = lv /\ rt # 0 /\ Alive(sl[n])) => sl[n].call.reply = "held"
        /\ sl[n].call.reply = "held" => n = lv /\ rt # 0
    BY Zenon DEF MountsOK
  <2>2. CASE n = m
    BY <1>1, <1>2, <1>3, <1>4, <1>5, <2>1, <2>2
  <2>3. CASE n # m
    BY <1>1, <2>1, <2>3
  <2> QED BY <2>2, <2>3
<1> QED BY <1>6, Zenon DEF MountsOK

LEMMA SealsStep ==
    ASSUME NEW st, NEW sl, NEW term, SealsOK(sl, st, term), NEW m \in Mounts, NEW r,
           SealOK(r, st), r.sealRequested = sl[m].sealRequested,
           r.buffered \in {sl[m].buffered, <<>>},
           \/ r.epoch = sl[m].epoch
           \/ \A n \in Mounts \ {m} : n < m => sl[n].buffered = <<>>,
           NEW t, t[m] = r, \A n \in Mounts \ {m} : t[n] = sl[n]
    PROVE  SealsOK(t, st, term)
<1> HIDE DEF Mounts
<1>1. ~term => ~st.sealed /\ \A k \in Mounts : ~t[k].sealRequested
  BY Zenon DEF SealsOK
<1>2. \A k \in Mounts : SealOK(t[k], st)
  BY Zenon DEF SealsOK
<1>3. ASSUME NEW k \in Mounts, NEW n \in Mounts \ {k}, t[k].sealRequested
      PROVE  t[n].buffered = <<>> \/ (n < k /\ t[k].epoch = 0)
  <2>1. sl[k].sealRequested
    BY <1>3
  <2>2. sl[n].buffered = <<>> \/ (n < k /\ sl[k].epoch = 0)
    BY <2>1, Zenon DEF SealsOK
  <2>3. CASE k = m
    BY <2>2, <2>3
  <2>4. CASE n = m
    BY <2>2, <2>4
  <2>5. CASE k # m /\ n # m
    BY <2>2, <2>5
  <2> QED BY <2>3, <2>4, <2>5
<1> QED BY <1>1, <1>2, <1>3 DEF SealsOK

LEMMA SharedStep ==
    ASSUME NEW st, NEW sl, NEW rec \in Nat, NEW lv, NEW rt, NEW mt, NEW term,
           Shared(sl, st, rec, lv, rt, mt, term),
           NEW m \in Mounts, sl[m] # Unopened,
           NEW r, SlotOK(r, st), Step(sl[m], r, st), NEW t, t = [sl EXCEPT ![m] = r]
    PROVE  Shared(t, st, rec, lv, rt, mt, term)
<1>1. sl \in [Mounts -> SlotSet] /\ r \in SlotSet
  BY DEF Shared, Global, SlotOK
<1>2. t[m] = r /\ \A n \in Mounts \ {m} : t[n] = sl[n]
  BY <1>1
<1>3. t \in [Mounts -> SlotSet]
  BY <1>1
<1> HIDE DEF Mounts
<1>4. \A n \in Mounts : SlotOK(t[n], st)
  BY <1>2, Zenon DEF Shared, Global
<1>5. EpochsOK(t, st)
  BY <1>1, EpochsStep DEF Shared, Global, Step
<1>6. ArrivalsOK(t, st, rec)
  BY <1>1, ArrivalsStep DEF Shared, Global, Step
<1>7. Accounted(t, st, rec)
  BY <1>1, AccountedStep DEF Shared, Global, Step, Move
<1>8. MountsOK(t, lv, rt, mt)
  BY <1>1, MountsStep DEF Shared, Step
<1>9. SealsOK(t, st, term)
  <2>1. SealsOK(sl, st, term)
    BY DEF Shared
  <2>2. SealOK(r, st) /\ r.sealRequested = sl[m].sealRequested /\ r.epoch = sl[m].epoch
        /\ r.buffered \in {sl[m].buffered, <<>>}
    <3>1. SealOK(sl[m], st)
      BY <2>1, Zenon DEF SealsOK
    <3> QED BY <3>1 DEF Step, Move
  <2>3. m \in Mounts
    OBVIOUS
  <2> QED BY ONLY <1>2, <2>1, <2>2, <2>3, SealsStep
<1> QED BY <1>3, <1>4, <1>5, <1>6, <1>7, <1>8, <1>9 DEF Shared, Global

(* A slot takes a new lease: it is the only one that has any. *)
Leased(s, r) ==
    /\ Alive(s) /\ Alive(r) /\ s.call = NoCall /\ r.call = NoCall /\ r.buffered = <<>>
    /\ r.sealRequested = s.sealRequested

Alone(sl, m) ==
    \A n \in Mounts \ {m} : Alive(sl[n]) => n > m /\ sl[n].epoch = 0 /\ ~Granted(sl[n])

LEMMA SharedLease ==
    ASSUME NEW st, NEW sl, NEW rec \in Nat, NEW lv, NEW rt, NEW mt, NEW term,
           Shared(sl, st, rec, lv, rt, mt, term),
           NEW m \in Mounts, Alone(sl, m),
           NEW r, SlotOK(r, st), Leased(sl[m], r),
           \A n \in Mounts : sl[n].epoch < r.epoch,
           \A e \in Pos : (Newer(sl, st, e) /\ \A i \in DOMAIN sl[m].buffered :
                                                  sl[m].buffered[i].e < e) => Below(r, e),
           st.loss \/ Kept(sl[m]) \subseteq EventsOf(st.rows) \cup Kept(r),
           SealOK(sl[m], st) => SealOK(r, st),
           NEW t, t = [sl EXCEPT ![m] = r]
    PROVE  Shared(t, st, rec, lv, rt, mt, term)
<1>1. sl \in [Mounts -> SlotSet] /\ r \in SlotSet
  BY DEF Shared, Global, SlotOK
<1>2. t[m] = r /\ \A n \in Mounts \ {m} : t[n] = sl[n]
  BY <1>1
<1>3. t \in [Mounts -> SlotSet]
  BY <1>1
<1>0. \A n \in Mounts : n \in Nat
  BY DEF Mounts
<1> HIDE DEF Mounts
<1>4. \A n \in Mounts : SlotOK(t[n], st)
  BY <1>2, Zenon DEF Shared, Global
<1>5. EpochsOK(t, st)
  <2>1. ASSUME NEW n \in Mounts, NEW k \in Mounts \ {n}
        PROVE  /\ t[n].epoch = t[k].epoch => t[n].epoch = 0
               /\ (Alive(t[n]) /\ t[n].epoch # 0) => t[k].epoch < t[n].epoch
    <3>1. /\ sl[n].epoch = sl[k].epoch => sl[n].epoch = 0
          /\ (Alive(sl[n]) /\ sl[n].epoch # 0) => sl[k].epoch < sl[n].epoch
      BY Zenon DEF EpochsOK, Shared, Global
    <3>2. sl[n].epoch \in Nat /\ sl[k].epoch \in Nat /\ r.epoch \in Nat
      BY <1>1, SlotFields
    <3>3. sl[n].epoch < r.epoch /\ sl[k].epoch < r.epoch
      OBVIOUS
    <3>4. CASE n = m
      <4>1. t[n] = r /\ t[k] = sl[k]
        BY <1>2, <3>4
      <4> QED BY <3>2, <3>3, <4>1
    <3>5. CASE k = m
      <4>1. t[k] = r /\ t[n] = sl[n]
        BY <1>2, <3>5
      <4>2. Alive(sl[n]) => sl[n].epoch = 0
        BY <3>5, Zenon DEF Alone
      <4> QED BY <3>2, <3>3, <4>1, <4>2
    <3>6. CASE n # m /\ k # m
      BY <1>2, <3>1, <3>6
    <3> QED BY <3>4, <3>5, <3>6
  <2>2. \A n \in Mounts : ~Granted(t[n])
    <3>1. ~Granted(r)
      BY NoCallFields DEF Granted, Leased
    <3>2. \A n \in Mounts \ {m} : ~Granted(sl[n])
      BY Zenon DEF Alone, Granted
    <3> QED BY <1>2, <3>1, <3>2, Zenon
  <2> QED BY <2>1, <2>2, Zenon DEF EpochsOK
<1>6. ArrivalsOK(t, st, rec)
  <2>1. ArrivalsOK(sl, st, rec)
    BY DEF Shared, Global
  <2>2. \A n \in Mounts : \A i \in DOMAIN sl[n].buffered : sl[n].buffered[i].e \in Pos
    <3>1. SUFFICES ASSUME NEW n \in Mounts, NEW i \in DOMAIN sl[n].buffered
                   PROVE  sl[n].buffered[i].e \in Pos
      BY Zenon
    <3>2. sl[n].buffered \in Seq(BufferedSet)
      BY <1>1, SlotFields
    <3>3. sl[n].buffered[i] \in BufferedSet
      BY <3>2
    <3> QED BY <3>3 DEF BufferedSet
  <2>3. ASSUME NEW e \in Pos, Newer(sl, st, e),
               \A i \in DOMAIN sl[m].buffered : sl[m].buffered[i].e < e
        PROVE  Newer(t, st, e)
    BY <1>2, <2>3, Zenon DEF Newer
  <2>4. Newer(t, st, rec + 1)
    <3>1. rec + 1 \in Pos /\ Newer(sl, st, rec + 1)
      BY <2>1 DEF Pos, ArrivalsOK
    <3>2. \A i \in DOMAIN sl[m].buffered : sl[m].buffered[i].e <= rec
      BY <2>1, Zenon DEF ArrivalsOK
    <3>3. \A i \in DOMAIN sl[m].buffered : sl[m].buffered[i].e < rec + 1
      BY <2>2, <3>2 DEF Pos
    <3> QED BY <2>3, <3>1, <3>3
  <2>5. \A n \in Mounts : \A i \in DOMAIN t[n].buffered :
           n # m /\ t[n] = sl[n] /\ n > m
    <3>1. SUFFICES ASSUME NEW n \in Mounts, NEW i \in DOMAIN t[n].buffered
                   PROVE  n # m /\ t[n] = sl[n] /\ n > m
      BY Zenon
    <3>2. n # m
      <4>1. DOMAIN <<>> = {} /\ r.buffered = <<>>
        BY DEF Leased
      <4> QED BY <1>2, <3>1, <4>1
    <3>3. t[n] = sl[n] /\ sl[n].buffered # <<>>
      <4>1. DOMAIN <<>> = {}
        OBVIOUS
      <4> QED BY <1>2, <3>1, <3>2, <4>1
    <3>4. Alive(sl[n])
      <4>1. LifeOK(sl[n])
        BY Zenon DEF Shared, Global, SlotOK
      <4> QED BY <3>3, <4>1 DEF LifeOK
    <3> QED BY <3>2, <3>3, <3>4, Zenon DEF Alone
  <2>6. ASSUME NEW n \in Mounts, NEW i \in DOMAIN t[n].buffered
        PROVE  LET b == t[n].buffered[i].e
               IN /\ b <= rec /\ Newer(t, st, b)
                  /\ \A j \in DOMAIN t[n].buffered : i < j => b < t[n].buffered[j].e
                  /\ \A k \in Mounts : \A j \in DOMAIN t[k].buffered :
                        k < n => t[k].buffered[j].e < b
    <3> DEFINE b == sl[n].buffered[i].e
    <3>0. n # m /\ t[n] = sl[n] /\ n > m
      BY <2>5, <2>6
    <3>1. i \in DOMAIN sl[n].buffered /\ t[n].buffered[i].e = b /\ b \in Pos
      BY <2>2, <2>6, <3>0
    <3>2. /\ b <= rec /\ Newer(sl, st, b)
          /\ \A j \in DOMAIN sl[n].buffered : i < j => b < sl[n].buffered[j].e
          /\ \A k \in Mounts : \A j \in DOMAIN sl[k].buffered :
                k < n => sl[k].buffered[j].e < b
      BY <2>1, <3>1, Zenon DEF ArrivalsOK
    <3> HIDE DEF b
    <3>3. Newer(t, st, b)
      <4>1. m < n
        BY <1>0, <3>0
      <4>2. \A j \in DOMAIN sl[m].buffered : sl[m].buffered[j].e < b
        BY <3>2, <4>1
      <4> QED BY <2>3, <3>1, <3>2, <4>2
    <3>4. \A k \in Mounts : \A j \in DOMAIN t[k].buffered : k < n => t[k].buffered[j].e < b
      BY <2>5, <3>2, Zenon
    <3> QED BY <3>0, <3>1, <3>2, <3>3, <3>4
  <2> QED BY <2>4, <2>6, Zenon DEF ArrivalsOK
<1>7. Accounted(t, st, rec)
  BY <1>1, AccountedStep DEF Shared, Global
<1>8. MountsOK(t, lv, rt, mt)
  <2>1. Alive(sl[m]) /\ Alive(r) /\ r.call = sl[m].call /\ r.call.reply # "held"
    BY NoCallFields DEF Leased
  <2>2. MountsOK(sl, lv, rt, mt)
    BY DEF Shared
  <2>3. ASSUME NEW n \in Mounts
        PROVE  /\ n > mt => t[n] = Unopened
               /\ Alive(t[n]) => n \in {lv, rt}
               /\ (n = lv /\ rt # 0 /\ Alive(t[n])) => t[n].call.reply = "held"
               /\ t[n].call.reply = "held" => n = lv /\ rt # 0
    <3>1. /\ n > mt => sl[n] = Unopened
          /\ Alive(sl[n]) => n \in {lv, rt}
          /\ (n = lv /\ rt # 0 /\ Alive(sl[n])) => sl[n].call.reply = "held"
          /\ sl[n].call.reply = "held" => n = lv /\ rt # 0
      BY <2>2, Zenon DEF MountsOK
    <3>2. ~Alive(Unopened)
      BY DEF Alive, Unopened
    <3>3. CASE n = m
      BY <1>2, <2>1, <3>1, <3>2, <3>3
    <3>4. CASE n # m
      BY <1>2, <3>1, <3>4
    <3> QED BY <3>3, <3>4
  <2> QED BY <2>2, <2>3, Zenon DEF MountsOK
<1>9. SealsOK(t, st, term)
  <2>1. SealsOK(sl, st, term)
    BY DEF Shared
  <2>2. SealOK(r, st) /\ r.sealRequested = sl[m].sealRequested /\ r.buffered = <<>>
    <3>1. SealOK(sl[m], st)
      BY <2>1, Zenon DEF SealsOK
    <3> QED BY <3>1 DEF Leased
  <2>3. \A n \in Mounts \ {m} : n < m => sl[n].buffered = <<>>
    <3>1. ASSUME NEW n \in Mounts \ {m}, n < m PROVE ~Alive(sl[n])
      <4>1. Alive(sl[n]) => n > m
        BY Zenon DEF Alone
      <4> QED BY <1>0, <3>1, <4>1
    <3>2. \A n \in Mounts : ~Alive(sl[n]) => sl[n].buffered = <<>>
      BY Zenon DEF Shared, Global, SlotOK, LifeOK
    <3> QED BY <3>1, <3>2
  <2>4. m \in Mounts
    OBVIOUS
  <2> QED BY ONLY <1>2, <2>1, <2>2, <2>3, <2>4, SealsStep
<1> QED BY <1>3, <1>4, <1>5, <1>6, <1>7, <1>8, <1>9 DEF Shared, Global

(* Slot m becomes r in a step that changes nothing else. *)
Everything(sl) == Shared(sl, store, recorded, live, retiring, mounts, terminal)
Outcome(sl, m, r) ==
    SlotOK(r, store) /\ Settled(r, store) /\ Everything([sl EXCEPT ![m] = r])

LEMMA AliveIsOpened ==
    ASSUME NEW s, Alive(s)
    PROVE  s # Unopened
<1>1. ~Alive(Unopened)
  BY DEF Alive, Unopened
<1> QED BY <1>1

LEMMA GoodOutcome ==
    ASSUME recorded \in Nat, NEW sl, Everything(sl), NEW m \in Mounts, sl[m] # Unopened,
           NEW r, Good(sl[m], r, store)
    PROVE  Outcome(sl, m, r)
<1>1. SlotOK(r, store) /\ Settled(r, store) /\ Step(sl[m], r, store)
  BY DEF Good
<1> DEFINE t == [sl EXCEPT ![m] = r]
<1>2. t = [sl EXCEPT ![m] = r]
  OBVIOUS
<1> HIDE DEF t
<1>3. Everything(t)
  BY <1>1, <1>2, SharedStep DEF Everything
<1> QED BY <1>1, <1>2, <1>3 DEF Outcome

LEMMA GoodAfter ==
    ASSUME recorded \in Nat, NEW sl, NEW m \in Mounts, sl \in [Mounts -> SlotSet],
           NEW t, Everything([sl EXCEPT ![m] = t]), t # Unopened,
           NEW r, Good(t, r, store)
    PROVE  Outcome(sl, m, r)
<1> DEFINE u == [sl EXCEPT ![m] = t]
<1>1. u[m] = t /\ [u EXCEPT ![m] = r] = [sl EXCEPT ![m] = r]
  OBVIOUS
<1>2. Everything(u)
  OBVIOUS
<1> HIDE DEF u
<1>3. Outcome(u, m, r)
  BY <1>1, <1>2, GoodOutcome
<1> QED BY <1>1, <1>3 DEF Outcome

(* What the grant of a lease says. *)
Grant(sl, c) ==
    /\ c.next = store.next /\ c.epoch <= store.epoch
    /\ \A n \in Mounts : sl[n].epoch < c.epoch

(* The slot has taken the lease that its reopening asked for. *)
LEMMA ReopenRepliedOK ==
    ASSUME recorded \in Nat, NEW sl, Everything(sl), NEW m \in Mounts, Alone(sl, m),
           NEW s, s = sl[m], HasWindow(s), s.call = NoCall, s.timer # "retry",
           NEW c \in CallSet, c.reply = "ok" => Grant(sl, c),
           NEW r \in ReopenReplied(s, c)
    PROVE  Outcome(sl, m, r)
<1> DEFINE t == [s EXCEPT !.epoch = c.epoch, !.attempts = 0, !.reopenPending = FALSE]
<1>0. /\ s \in SlotSet /\ store \in StoreSet /\ SlotOK(s, store) /\ c.epoch \in Nat
      /\ sl \in [Mounts -> SlotSet]
  BY CallFields, Zenon DEF Everything, Shared, Global, StoreOK, SlotOK
<1>1. Alive(s) /\ s.call.reply # "held" /\ s # Unopened
  BY <1>0, NotHeld, AliveIsOpened
<1>2. CASE r \in RetryLater(s, c.reply)
  <2>1. Good(s, r, store)
    BY <1>0, <1>1, <1>2, RetryLaterOK
  <2> QED BY <1>1, <2>1, GoodOutcome
<1>3. CASE r = Stop(s, "sequenceGap")
  <2>1. Good(s, r, store)
    BY <1>0, <1>1, <1>3, StopOK
  <2> QED BY <1>1, <2>1, GoodOutcome
<1>4. CASE c.reply = "ok" /\ c.next = s.expected /\ r \in RunFlush(t)
  <2>1. /\ t \in SlotSet /\ t.epoch = c.epoch
        /\ t.state = s.state /\ t.win = s.win /\ t.buffered = s.buffered
        /\ t.expected = s.expected
        /\ t.timer = s.timer /\ t.loss = s.loss /\ t.call = s.call
        /\ t.note = s.note /\ t.skipped = s.skipped
        /\ t.sealRequested = s.sealRequested /\ t.unsaid = s.unsaid
    BY <1>0 DEF SlotSet
  <2> HIDE DEF t
  <2>2. /\ c.epoch <= store.epoch /\ c.epoch # 0 /\ \A n \in Mounts : sl[n].epoch < c.epoch
    <3>1. sl[m].epoch \in Nat /\ sl[m].epoch < c.epoch
      BY <1>0, <1>4, SlotFields DEF Grant
    <3> QED BY <1>0, <1>4, <3>1 DEF Grant
  <2>3. /\ Alive(t) /\ HasWindow(t) /\ t.call.kind = "none" /\ s.call.kind = "none"
        /\ s.epoch # 0
    BY <1>0, <1>1, <2>1, NoCallFields DEF Alive, HasWindow, SlotOK, LifeOK
  <2>4. LifeOK(t)
    BY <1>0, <1>1, <2>1, <2>2, <2>3 DEF SlotOK, LifeOK
  <2>5. CallOK(t, store)
    BY <1>0, <1>1, <2>1, <2>2, <2>3 DEF SlotOK, CallOK
  <2>6. WindowOK(t, t.call.ops, store)
    BY <1>0, <1>1, <2>1 DEF SlotOK, WindowOK
  <2>7. InOrder(SlotVersions(t, t.call.ops, store))
    BY <1>0, <1>1, <2>1, <2>3 DEF SlotOK, InForce, SlotVersions
  <2>8. SlotOK(t, store)
    BY <2>1, <2>3, <2>4, <2>5, <2>6, <2>7 DEF SlotOK
  <2>9. Everything([sl EXCEPT ![m] = t])
    <3>1. t.buffered = <<>>
      BY <1>0, <2>1 DEF SlotOK, LifeOK
    <3>2. Leased(s, t)
      BY <1>1, <2>1, <2>3, <3>1 DEF Leased
    <3>3. \A e \in Pos : Newer(sl, store, e) => Below(t, e)
      <4>1. \A e \in Pos : Below(s, e) => Below(t, e)
        BY <2>1 DEF Below
      <4> QED BY <4>1, Zenon DEF Newer
    <3>4. Kept(t) = Kept(s)
      BY <2>1, KeptSame
    <3>5. \A n \in Mounts : sl[n].epoch < t.epoch
      BY <2>1, <2>2
    <3>8. SealOK(s, store) => SealOK(t, store)
      BY <1>1, <2>1, SealSame
    <3> DEFINE u == [sl EXCEPT ![m] = t]
    <3>6. u = [sl EXCEPT ![m] = t]
      OBVIOUS
    <3> HIDE DEF u
    <3>7. Everything(u)
      BY <2>8, <3>2, <3>3, <3>4, <3>5, <3>6, <3>8, SharedLease DEF Everything
    <3> QED BY <3>6, <3>7
  <2>10. Good(t, r, store)
    BY <1>0, <1>4, <2>1, <2>3, <2>8, RunFlushOK
  <2>11. t # Unopened
    BY <2>3, AliveIsOpened
  <2> QED BY <1>0, <2>9, <2>10, <2>11, GoodAfter
<1>5. \/ r \in RetryLater(s, c.reply)
      \/ r = Stop(s, "sequenceGap")
      \/ c.reply = "ok" /\ c.next = s.expected /\ r \in RunFlush(t)
  BY Zenon DEF ReopenReplied
<1> QED BY <1>2, <1>3, <1>4, <1>5

Opened(s, c, win) ==
    [s EXCEPT !.epoch = c.epoch, !.expected = c.next, !.attempts = 0, !.state = "writing",
              !.win = win, !.buffered = <<>>, !.skipped = Oversized(s.buffered),
              !.loss = @ \/ Oversized(s.buffered) # {}]

(* The slot has taken its first lease, and its window the buffered events.  *)
LEMMA OpenedOK ==
    ASSUME recorded \in Nat, NEW sl, Everything(sl), NEW m \in Mounts, Alone(sl, m),
           NEW s, s = sl[m], Alive(s), ~HasWindow(s), s.call = NoCall, s.timer # "retry",
           NEW c \in CallSet, Grant(sl, c),
           NEW t, t = Opened(s, c, Replay(c.next, s.buffered))
    PROVE  /\ SlotOK(t, store) /\ Settled(t, store) /\ Everything([sl EXCEPT ![m] = t])
           /\ t # Unopened
<1> DEFINE win == Replay(c.next, s.buffered)
           b == s.buffered
           skipped == Oversized(s.buffered)
           loss == s.loss \/ skipped # {}
<1>0. /\ s \in SlotSet /\ store \in StoreSet /\ SlotOK(s, store) /\ c.epoch \in Nat
      /\ sl \in [Mounts -> SlotSet] /\ StoreOK(store) /\ b \in Seq(BufferedSet)
      /\ c.next = store.next /\ store.next \in Pos /\ store.rows \in Rowses /\ c.next \in Nat
      /\ ArrivalsOK(sl, store, recorded)
  <2>1. /\ SlotOK(s, store) /\ sl \in [Mounts -> SlotSet] /\ StoreOK(store)
        /\ ArrivalsOK(sl, store, recorded)
    BY Zenon DEF Everything, Shared, Global
  <2>2. s \in SlotSet /\ store \in StoreSet
    BY <2>1 DEF SlotOK, StoreOK
  <2> QED BY <2>1, <2>2, SlotFields, CallFields, StoreFields DEF Grant
<1>1. \A i \in DOMAIN b : b[i] \in BufferedSet /\ b[i].e \in Pos /\ b[i].kind \in EventKinds
  <2>1. \A i \in DOMAIN b : b[i] \in BufferedSet
    <3> HIDE DEF b
    <3> QED BY <1>0
  <2> QED BY <2>1 DEF BufferedSet
<1>2. DOMAIN b = 1..Len(b) /\ Len(b) \in Nat
  <2> HIDE DEF b
  <2> QED BY <1>0
<1>3. \A i \in DOMAIN b : /\ b[i].e <= recorded /\ Newer(sl, store, b[i].e)
                          /\ \A j \in DOMAIN b : i < j => b[i].e < b[j].e
  BY <1>0, Zenon DEF ArrivalsOK
<1>4. ReplayedOK(win, Len(b), c.next, b, store.rows)
  <2>1. DOMAIN store.rows \subseteq 1..(c.next - 1) /\ InOrder(Rows(store.rows))
    BY <1>0 DEF StoreOK
  <2>2. \A i \in 1..Len(b) : c.next <= b[i].e /\ RowsBelow(store.rows, b[i].e)
    BY <1>0, <1>2, <1>3, Zenon DEF Newer, StoreBelow
  <2>3. \A i, j \in 1..Len(b) : i < j => b[i].e < b[j].e
    BY <1>2, <1>3, Zenon
  <2> HIDE DEF b
  <2>4. win = Replay(c.next, b)
    BY DEF b
  <2> HIDE DEF win
  <2> QED BY <1>0, <2>1, <2>2, <2>3, <2>4, ReplayOK
<1>5. \A x : x \in skipped <=> \E i \in DOMAIN b : x = b[i].e /\ b[i].kind = "oversized"
  BY DEF Oversized
<1>6. skipped \in SUBSET Pos /\ loss \in BOOLEAN
  <2> HIDE DEF skipped, b
  <2>1. s.loss \in BOOLEAN
    BY <1>0, SlotFields
  <2> QED BY <1>1, <1>5, <2>1
<1>7. WindowShape(win) /\ win \in WindowSet /\ win.next \in Nat /\ c.next <= win.next
  <2> HIDE DEF win
  <2>1. WindowShape(win) /\ c.next <= win.next
    BY <1>4 DEF ReplayedOK
  <2> QED BY <2>1, WindowFields DEF WindowShape
<1>8. /\ t \in SlotSet /\ t.epoch = c.epoch /\ t.expected = c.next /\ t.state = "writing"
      /\ t.win = win /\ t.buffered = <<>> /\ t.skipped = skipped /\ t.loss = loss
      /\ t.timer = s.timer /\ t.call = s.call /\ t.note = s.note
      /\ t.sealRequested = s.sealRequested /\ t.unsaid = s.unsaid
  <2>1. t = [s EXCEPT !.epoch = c.epoch, !.expected = c.next, !.attempts = 0,
                      !.state = "writing", !.win = win, !.buffered = <<>>,
                      !.skipped = skipped, !.loss = loss]
    BY Zenon DEF Opened
  <2>2. <<>> \in Seq(BufferedSet)
    OBVIOUS
  <2> HIDE DEF win, skipped, loss
  <2> QED BY ONLY <1>0, <1>6, <1>7, <2>1, <2>2 DEF SlotSet
<1> HIDE DEF win, skipped, b
<1>9. c.epoch # 0 /\ c.epoch <= store.epoch /\ \A n \in Mounts : sl[n].epoch < c.epoch
  <2>1. sl[m].epoch \in Nat /\ sl[m].epoch < c.epoch
    BY <1>0, SlotFields DEF Grant
  <2> QED BY <1>0, <2>1 DEF Grant
<1>10. /\ Alive(t) /\ HasWindow(t) /\ t.call = NoCall /\ t.call.kind = "none"
       /\ t.call.ops = <<>> /\ t.call.reply = "none" /\ s.call.kind = "none"
  <2>1. win.next # 0
    BY <1>7 DEF WindowShape
  <2> QED BY <1>8, <2>1, NoCallFields DEF Alive, HasWindow
<1>11. /\ s.win = NoWindow /\ s.epoch = 0 /\ s.skipped = {} /\ s.timer = "none"
  BY <1>0, SlotFields DEF SlotOK, LifeOK
<1>12. LifeOK(t)
  BY <1>8, <1>9, <1>10, <1>11 DEF LifeOK
<1>13. CallOK(t, store)
  BY <1>0, <1>8, <1>9, <1>10 DEF SlotOK, CallOK
<1>14. WindowOK(t, t.call.ops, store)
  <2>1. /\ c.next..(win.next - 1) \subseteq DOMAIN win.dirty
        /\ Held(store.rows, win) /\ Covers(win.dirty, store.rows)
    BY <1>4 DEF ReplayedOK
  <2>2. DOMAIN <<>> = {}
    OBVIOUS
  <2>3. Held(<<>>, win) /\ Covers(win.dirty, <<>>)
    BY <2>2, Zenon DEF Held, Covers
  <2>4. t.expected \in 1..store.next /\ store.next <= win.next
    BY <1>0, <1>7, <1>8 DEF Pos
  <2>5. DOMAIN t.call.ops \subseteq 1..(win.next - 1)
    BY <1>10, <2>2
  <2> QED BY <1>0, <1>7, <1>8, <1>10, <2>1, <2>3, <2>4, <2>5 DEF WindowOK
<1>15. InOrder(SlotVersions(t, t.call.ops, store))
  <2>1. InOrder(Rows(store.rows) \cup WindowRows(win))
    BY <1>4 DEF ReplayedOK
  <2>2. SlotVersions(t, t.call.ops, store) = Rows(store.rows) \cup WindowRows(win)
    BY <1>8, <1>10, NoRows DEF SlotVersions
  <2> QED BY <2>1, <2>2
<1>16. SlotOK(t, store)
  BY <1>8, <1>10, <1>12, <1>13, <1>14, <1>15 DEF SlotOK
<1>17. Settled(t, store)
  BY <1>0, <1>8 DEF Settled
<1>18. ASSUME NEW e \in Pos, Newer(sl, store, e), \A i \in DOMAIN b : b[i].e < e
       PROVE  Below(t, e)
  <2>1. c.next <= e
    BY <1>0, <1>18 DEF Newer, StoreBelow
  <2>2. \A j \in 1..Len(b) : b[j].e < e
    BY <1>2, <1>18
  <2>3. WindowBelow(win, e)
    BY <1>4, <2>1, <2>2, Zenon DEF ReplayedOK
  <2>4. RowsBelow(<<>>, e)
    BY NoWindowBelow
  <2> QED BY <1>8, <1>10, <2>3, <2>4 DEF Below
<1>19. Kept(s) \subseteq Kept(t)
  <2>1. \A x : x \in Kept(s) => x \in s.unsaid \/ \E i \in DOMAIN b : x = b[i].e
    BY <1>11, NoWindowIsEmpty, NoRows DEF Kept, Pending, b
  <2>2. \A i \in DOMAIN b : b[i].e \in EventsOf(win.dirty) \cup skipped
    <3>1. \A j \in 1..Len(b) : b[j].kind # "oversized" => b[j].e \in EventsOf(win.dirty)
      BY <1>4, Zenon DEF ReplayedOK
    <3> QED BY <1>2, <1>5, <3>1
  <2>3. EventsOf(win.dirty) \cup skipped \cup s.unsaid \subseteq Kept(t)
    BY <1>8 DEF Kept, Pending
  <2> QED BY <2>1, <2>2, <2>3
<1>20. Everything([sl EXCEPT ![m] = t])
  <2>1. Leased(s, t)
    BY <1>8, <1>10 DEF Leased
  <2>2. \A n \in Mounts : sl[n].epoch < t.epoch
    BY <1>8, <1>9
  <2>3. \A e \in Pos : (Newer(sl, store, e) /\ \A i \in DOMAIN s.buffered :
                                                 s.buffered[i].e < e) => Below(t, e)
    BY <1>18 DEF b
  <2>6. SealOK(s, store) => SealOK(t, store)
    <3>1. SUFFICES ASSUME store.sealed, b = <<>> PROVE Spared(t, store)
      BY <1>8, <1>10, Zenon DEF SealOK, b
    <3>2. win = createAgentTurnWindow(c.next)
      <4>1. win = Replay(c.next, <<>>)
        BY <3>1 DEF win, b
      <4> QED BY <4>1, <1>0, ReplayNothing
    <3>3. EventsOf(win.dirty) = {}
      BY <3>2, NoRows DEF createAgentTurnWindow, NoWindow
    <3>4. skipped = {}
      BY <1>5, <3>1
    <3>5. Pending(t) = {}
      BY <1>8, <3>3 DEF Pending
    <3> QED BY <1>8, <3>4, <3>5 DEF Spared
  <2> DEFINE u == [sl EXCEPT ![m] = t]
  <2>4. u = [sl EXCEPT ![m] = t]
    OBVIOUS
  <2> HIDE DEF u
  <2>5. Everything(u)
    BY <1>16, <1>19, <2>1, <2>2, <2>3, <2>4, <2>6, SharedLease DEF Everything
  <2> QED BY <2>4, <2>5
<1>21. t # Unopened
  BY <1>10, AliveIsOpened
<1> QED BY <1>16, <1>17, <1>20, <1>21

LEMMA OpenRepliedOK ==
    ASSUME recorded \in Nat, gen \in Nat, NEW sl, Everything(sl), NEW m \in Mounts, Alone(sl, m),
           NEW s, s = sl[m], Alive(s), ~HasWindow(s), s.call = NoCall, s.timer # "retry",
           NEW c \in CallSet, c.reply = "ok" => Grant(sl, c),
           NEW r \in OpenReplied(s, c)
    PROVE  Outcome(sl, m, r)
<1> DEFINE t == Opened(s, c, Replay(c.next, s.buffered))
<1>0. /\ store \in StoreSet /\ SlotOK(s, store) /\ sl \in [Mounts -> SlotSet]
  BY Zenon DEF Everything, Shared, Global, StoreOK
<1>1. CASE r \in RetryLater(s, c.reply)
  <2>1. Good(s, r, store)
    BY <1>0, <1>1, RetryLaterOK
  <2>2. s # Unopened
    BY AliveIsOpened
  <2> QED BY <2>1, <2>2, GoodOutcome
<1>2. ASSUME c.reply = "ok", NEW urgent \in BOOLEAN, r \in ScheduleFlush(t, urgent)
      PROVE  Outcome(sl, m, r)
  <2>1. t = Opened(s, c, Replay(c.next, s.buffered))
    OBVIOUS
  <2> HIDE DEF t
  <2>2. /\ SlotOK(t, store) /\ Settled(t, store) /\ Everything([sl EXCEPT ![m] = t])
        /\ t # Unopened
    BY <1>2, <2>1, OpenedOK
  <2>3. Good(t, r, store)
    BY <1>0, <1>2, <2>2, ScheduleFlushOK
  <2> QED BY <1>0, <2>2, <2>3, GoodAfter
<1>3. \/ r \in RetryLater(s, c.reply)
      \/ c.reply = "ok" /\ \E urgent \in BOOLEAN : r \in ScheduleFlush(t, urgent)
  <2>1. CASE c.reply # "ok"
    BY <2>1 DEF OpenReplied
  <2>2. CASE c.reply = "ok"
    <3>1. r \in UNION {ScheduleFlush(t, urgent) :
                         urgent \in IF s.sealRequested THEN {TRUE}
                                    ELSE IF s.buffered = <<>> THEN {FALSE} ELSE BOOLEAN}
      BY <2>2, Zenon DEF OpenReplied, Opened
    <3> HIDE DEF t
    <3> QED BY <2>2, <3>1
  <2> QED BY <2>1, <2>2
<1> QED BY <1>1, <1>2, <1>3

----------------------------------------------------------------------------
(* The renderer takes the reply to a call. *)

(* A slot whose call is not held back is the only one that has a lease.     *)
LEMMA AloneOK ==
    ASSUME NEW sl, Everything(sl), NEW m \in Mounts, Alive(sl[m]), sl[m].call.reply # "held"
    PROVE  Alone(sl, m)
<1>1. MountsOK(sl, live, retiring, mounts)
  BY DEF Everything, Shared
<1>2. ASSUME NEW n \in Mounts \ {m}, Alive(sl[n])
      PROVE  n > m /\ sl[n].epoch = 0 /\ ~Granted(sl[n])
  <2>1. /\ m \in {live, retiring} /\ n \in {live, retiring}
        /\ m = live => retiring = 0
    BY <1>1, <1>2, Zenon DEF MountsOK
  <2>2. m \in Nat \ {0} /\ n \in Nat \ {0} /\ m # n
    BY DEF Mounts
  <2>3. m = retiring /\ n = live /\ retiring # 0
    BY <2>1, <2>2
  <2>4. n > m
    BY <1>1, <2>2, <2>3 DEF MountsOK, Mounts
  <2>5. sl[n].call.reply = "held"
    BY <1>1, <1>2, <2>3, Zenon DEF MountsOK
  <2>6. sl[n].epoch = 0 /\ ~Granted(sl[n])
    <3>1. SlotOK(sl[n], store)
      BY Zenon DEF Everything, Shared, Global
    <3> QED BY <1>2, <2>5, <3>1 DEF SlotOK, LifeOK, CallOK, Granted
  <2> QED BY <2>4, <2>6
<1> QED BY <1>2 DEF Alone

Forgotten(s, r, st) ==
    /\ SlotOK(r, st) /\ Step(s, r, st) /\ r.call = NoCall /\ r.timer # "retry"
    /\ Alive(r) = Alive(s) /\ HasWindow(r) = HasWindow(s) /\ r.win = s.win
    /\ r.epoch = s.epoch /\ r.expected = s.expected
    /\ s.call.kind = "append" => AppendOK(r, s.call, st)
    /\ r.buffered = s.buffered /\ r.skipped = s.skipped /\ r.unsaid = s.unsaid

(* A slot that is told to forget its call. *)
LEMMA ForgetOK ==
    ASSUME NEW st \in StoreSet, NEW s, SlotOK(s, st), s.call # NoCall, s.call.reply # "held",
           NEW r, r = [s EXCEPT !.call = NoCall]
    PROVE  Forgotten(s, r, st)
<1>0. s \in SlotSet /\ LifeOK(s) /\ CallOK(s, st)
  BY DEF SlotOK
<1>1. /\ r \in SlotSet /\ r.call = NoCall
      /\ r.state = s.state /\ r.win = s.win /\ r.buffered = s.buffered
      /\ r.epoch = s.epoch /\ r.expected = s.expected
      /\ r.timer = s.timer /\ r.loss = s.loss
      /\ r.note = s.note /\ r.skipped = s.skipped
      /\ r.sealRequested = s.sealRequested /\ r.unsaid = s.unsaid
  <2>1. NoCall \in CallSet
    BY NoCallFields
  <2> QED BY ONLY <1>0, <2>1, r = [s EXCEPT !.call = NoCall] DEF SlotSet
<1>2. /\ Alive(r) = Alive(s) /\ HasWindow(r) = HasWindow(s) /\ InForce(r, st) = InForce(s, st)
  BY <1>1, Zenon DEF Alive, HasWindow, InForce
<1>3. LifeOK(r) /\ r.timer # "retry"
  BY <1>0, <1>1, <1>2 DEF LifeOK
<1>4. CallOK(r, st)
  BY <1>0, <1>1, <1>2, NoCallFields, StoreFields DEF CallOK
<1>5. r.call.kind = "none" /\ r.call.ops = <<>> /\ DOMAIN <<>> = {}
  BY <1>1, NoCallFields
<1>6. (Alive(r) /\ HasWindow(r)) => WindowOK(r, r.call.ops, st)
  <2>1. Held(<<>>, s.win) /\ Covers(s.win.dirty, <<>>)
    BY <1>5, Zenon DEF Held, Covers
  <2> QED BY <1>1, <1>2, <1>5, <2>1 DEF SlotOK, WindowOK
<1>7. InForce(r, st) => InOrder(SlotVersions(r, r.call.ops, st))
  <2>1. SlotVersions(r, r.call.ops, st) \subseteq SlotVersions(s, s.call.ops, st)
    BY <1>1, <1>5, NoRows DEF SlotVersions
  <2> QED BY <1>2, <2>1, InOrderSubset DEF SlotOK
<1>8. SlotOK(r, st)
  BY <1>1, <1>3, <1>4, <1>5, <1>6, <1>7 DEF SlotOK
<1>9. Step(s, r, st)
  <2>1. Kept(r) = Kept(s)
    BY <1>1, KeptSame
  <2>2. \A e \in Pos : Below(s, e) => Below(r, e)
    <3>1. \A e \in Pos : RowsBelow(<<>>, e)
      BY NoWindowBelow
    <3> QED BY <1>1, <1>5, <3>1 DEF Below
  <2>3. SealOK(s, st) => SealOK(r, st)
    BY <1>1, <1>2, <1>5, SealSame
  <2> QED BY <1>1, <1>2, <2>1, <2>2, <2>3, NoCallFields DEF Step, Move
<1>10. s.call.kind = "append" => AppendOK(r, s.call, st)
  BY <1>1, <1>2, Zenon DEF SlotOK, AppendOK
<1> QED BY <1>1, <1>2, <1>3, <1>8, <1>9, <1>10 DEF Forgotten

LEMMA TakeReplyOK ==
    ASSUME recorded \in Nat, gen \in Nat, Everything(slot), NEW m \in Mounts,
           Answered(slot[m].call),
           NEW s, s = [slot[m] EXCEPT !.call = NoCall],
           NEW r \in IF ~Alive(s) THEN {s}
                     ELSE IF Alive(Checked(s)) THEN Replied(Checked(s), slot[m].call)
                          ELSE {Checked(s)}
    PROVE  Outcome(slot, m, r)
<1> DEFINE c == slot[m].call
           k == Checked(s)
           u == [slot EXCEPT ![m] = k]
<1>0. /\ SlotOK(slot[m], store) /\ StoreOK(store) /\ store \in StoreSet
      /\ slot \in [Mounts -> SlotSet] /\ slot[m] \in SlotSet /\ c \in CallSet
  <2>1. SlotOK(slot[m], store) /\ StoreOK(store) /\ slot \in [Mounts -> SlotSet]
    BY Zenon DEF Everything, Shared, Global
  <2> QED BY <2>1, SlotFields DEF SlotOK, StoreOK
<1>1. c # NoCall /\ c.reply # "held" /\ c.reply # "none"
  BY NoCallFields DEF Answered
<1>2. /\ SlotOK(s, store) /\ Step(slot[m], s, store) /\ s.call = NoCall /\ s.timer # "retry"
      /\ Alive(s) = Alive(slot[m]) /\ HasWindow(s) = HasWindow(slot[m]) /\ s.win = slot[m].win
      /\ s.epoch = slot[m].epoch /\ s.expected = slot[m].expected
      /\ c.kind = "append" => AppendOK(s, c, store)
      /\ s.buffered = slot[m].buffered /\ s.skipped = slot[m].skipped
      /\ s.unsaid = slot[m].unsaid
  <2>1. Forgotten(slot[m], s, store)
    BY <1>0, <1>1, ForgetOK
  <2> QED BY <2>1 DEF Forgotten
<1>3. slot[m] # Unopened
  <2>1. Unopened.call = NoCall
    BY DEF Unopened
  <2> QED BY <1>1, <2>1
<1>4. CASE r = s /\ ~Alive(s)
  <2>1. Settled(s, store)
    BY <1>4 DEF Settled, Alive
  <2> QED BY <1>2, <1>3, <1>4, <2>1, GoodOutcome DEF Good
<1>5. CASE Alive(s)
  <2>1. s.call.reply # "held"
    BY <1>2, NoCallFields
  <2>2. k = Checked(s)
    OBVIOUS
  <2> HIDE DEF k
  <2>3. /\ SlotOK(k, store) /\ Step(s, k, store) /\ (~Alive(k) => Settled(k, store))
        /\ Alive(k) => /\ k.state = s.state /\ k.win = s.win /\ k.buffered = s.buffered
                       /\ k.epoch = s.epoch /\ k.expected = s.expected
                       /\ k.timer = s.timer /\ k.loss = s.loss /\ k.call = s.call
                       /\ k.note = s.note /\ k.skipped = s.skipped
                       /\ k.sealRequested = s.sealRequested /\ k.unsaid = s.unsaid
    <3>1. Alive(k) => Same(s, k)
      BY <1>0, <1>2, <1>5, <2>1, <2>2, CheckedOK
    <3> QED BY <1>0, <1>2, <1>5, <2>1, <2>2, <3>1, CheckedOK DEF Same
  <2>4. Step(slot[m], k, store)
    BY <1>2, <2>3, StepTransitive
  <2>5. CASE ~Alive(k) /\ r = k
    BY <1>3, <2>3, <2>4, <2>5, GoodOutcome DEF Good
  <2>6. CASE Alive(k) /\ r \in Replied(k, c)
    <3>1. u[m] = k /\ [u EXCEPT ![m] = r] = [slot EXCEPT ![m] = r]
      BY <1>0
    <3>2. Everything(u)
      <4>1. u = [slot EXCEPT ![m] = k]
        OBVIOUS
      <4> HIDE DEF u
      <4> QED BY <1>3, <2>3, <2>4, <4>1, SharedStep DEF Everything
    <3>3. Alone(u, m)
      <4> HIDE DEF u
      <4> QED BY <1>2, <2>1, <2>3, <2>6, <3>1, <3>2, AloneOK
    <3>4. c.kind \in {"open", "reopen"} /\ c.reply = "ok" => Grant(u, c)
      <4>1. SUFFICES ASSUME c.kind \in {"open", "reopen"}, c.reply = "ok" PROVE Grant(u, c)
        OBVIOUS
      <4>2. Granted(slot[m])
        BY <1>2, <1>5, <4>1 DEF Granted
      <4>3. c.next = store.next /\ \A n \in Mounts : slot[n].epoch < c.epoch
        BY <4>2, Zenon DEF Everything, Shared, Global, EpochsOK
      <4>4. c.epoch <= store.epoch
        BY <1>0 DEF SlotOK, CallOK
      <4>5. \A n \in Mounts : u[n].epoch = slot[n].epoch
        BY <1>0, <1>2, <2>3, <2>6
      <4> QED BY <4>3, <4>4, <4>5 DEF Grant
    <3> HIDE DEF u
    <3>5. /\ k.call = NoCall /\ k.timer # "retry" /\ HasWindow(k) = HasWindow(slot[m])
      BY <1>2, <2>3, <2>6 DEF HasWindow
    <3>6. CASE c.kind = "open"
      <4>1. r \in OpenReplied(k, c)
        BY <2>6, <3>6 DEF Replied
      <4>2. ~HasWindow(k)
        BY <1>0, <1>2, <1>5, <3>5, <3>6 DEF SlotOK, CallOK
      <4>3. c.reply = "ok" => Grant(u, c)
        BY <3>4, <3>6
      <4>4. Outcome(u, m, r)
        BY <1>0, <2>6, <3>1, <3>2, <3>3, <3>5, <4>1, <4>2, <4>3, OpenRepliedOK
      <4> QED BY <3>1, <4>4 DEF Outcome
    <3>7. CASE c.kind = "reopen"
      <4>1. r \in ReopenReplied(k, c)
        BY <2>6, <3>7 DEF Replied
      <4>2. HasWindow(k)
        BY <1>0, <1>2, <1>5, <3>5, <3>7 DEF SlotOK, CallOK
      <4>3. c.reply = "ok" => Grant(u, c)
        BY <3>4, <3>7
      <4>4. Outcome(u, m, r)
        BY <1>0, <3>1, <3>2, <3>3, <3>5, <4>1, <4>2, <4>3, ReopenRepliedOK
      <4> QED BY <3>1, <4>4 DEF Outcome
    <3>8. CASE c.kind = "append"
      <4>1. r \in AppendReplied(k, c)
        BY <2>6, <3>8 DEF Replied
      <4>2. HasWindow(k)
        BY <1>0, <1>2, <1>5, <3>5, <3>8 DEF SlotOK, CallOK
      <4>3. AppendOK(k, c, store)
        <5>1. AppendOK(s, c, store)
          BY <1>2, <3>8
        <5>2. InForce(k, store) = InForce(s, store)
          BY <2>3, <2>6, <1>5, Zenon DEF InForce
        <5> QED BY <1>5, <2>3, <2>6, <5>1, <5>2, Zenon DEF AppendOK
      <4>4. DOMAIN c.ops \subseteq 1..(k.win.next - 1)
        <5>1. WindowOK(slot[m], c.ops, store)
          BY <1>0, <1>2, <1>5, <3>5, <4>2 DEF SlotOK
        <5> QED BY <1>2, <2>3, <2>6, <5>1 DEF WindowOK
      <4>8. SealOK(slot[m], store) /\ Alive(slot[m])
        BY <1>2, <1>5, Zenon DEF Everything, Shared, SealsOK
      <4>9. c.seal => EventsOf(k.win.dirty) \subseteq EventsOf(c.ops)
        BY <1>2, <2>3, <2>6, <3>8, <4>8 DEF SealOK
      <4>10. c.reply = "sealed" => Spared(k, store)
        <5>1. k.win = slot[m].win /\ k.buffered = slot[m].buffered
              /\ k.skipped = slot[m].skipped /\ k.unsaid = slot[m].unsaid
          BY <1>2, <2>3, <2>6
        <5>2. Pending(k) = Pending(slot[m])
          BY <5>1, PendingSame
        <5> QED BY <3>8, <4>8, <5>1, <5>2 DEF SealOK, Spared
      <4>5. Good(k, r, store)
        BY <1>0, <2>3, <3>5, <4>1, <4>2, <4>3, <4>4, <4>9, <4>10, AppendRepliedOK
      <4>6. k # Unopened
        BY <2>6, AliveIsOpened
      <4>7. Outcome(u, m, r)
        BY <3>1, <3>2, <4>5, <4>6, GoodOutcome
      <4> QED BY <3>1, <4>7 DEF Outcome
    <3> QED
      <4>1. c.kind \in {"open", "reopen", "append"}
        BY <1>0, <1>1 DEF SlotOK, CallOK
      <4> QED BY <3>6, <3>7, <3>8, <4>1
  <2>7. r \in IF Alive(k) THEN Replied(k, c) ELSE {k}
    BY <1>5, <2>2
  <2> QED BY <2>5, <2>6, <2>7
<1> QED BY <1>4, <1>5

----------------------------------------------------------------------------
(* The steps of the renderer. *)

(* What a handler on slot m leaves. *)
LEMMA BecomesInv ==
    ASSUME Inv, NEW m \in Mounts, NEW r, SlotBecomes(m, r),
           SlotOK(r, store), Settled(r, store),
           Shared([slot EXCEPT ![m] = r], store, recorded', live, retiring, mounts, terminal'),
           UNCHANGED <<store, Surroundings>>,
           recorded' \in 0..MaxEvents, terminal' \in BOOLEAN, disturbed' \in 0..MaxDisturbances
    PROVE  Inv'
<1>1. slot' = [slot EXCEPT ![m] = r] /\ openRequest' \in BOOLEAN
  BY Zenon DEF SlotBecomes, Inv, Scalars
<1>2. /\ store' = store /\ live' = live /\ retiring' = retiring /\ mounts' = mounts
      /\ gen' = gen
  BY DEF Surroundings
<1>3. Shared(slot', store', recorded', live', retiring', mounts', terminal')
  BY <1>1, <1>2
<1>4. \A n \in Mounts : Settled(slot'[n], store')
  <2>1. slot'[m] = r /\ \A n \in Mounts \ {m} : slot'[n] = slot[n]
    BY <1>1 DEF Inv, Shared, Global
  <2>2. \A n \in Mounts : Settled(slot[n], store)
    BY DEF Inv
  <2> QED BY <1>2, <2>1, <2>2, Zenon
<1>5. Scalars'
  BY <1>1, <1>2 DEF Inv, Scalars
<1> QED BY <1>3, <1>4, <1>5 DEF Inv

LEMMA InvParts ==
    ASSUME Inv
    PROVE  /\ gen \in Nat /\ recorded \in Nat /\ recorded \in 0..MaxEvents /\ terminal \in BOOLEAN
           /\ disturbed \in 0..MaxDisturbances /\ openRequest \in BOOLEAN
           /\ MaxEvents \in Nat /\ MaxDisturbances \in Nat
           /\ Everything(slot) /\ StoreOK(store) /\ store \in StoreSet
           /\ slot \in [Mounts -> SlotSet]
           /\ \A m \in Mounts : SlotOK(slot[m], store) /\ Settled(slot[m], store)
           /\ MountsOK(slot, live, retiring, mounts)
<1>1. MaxEvents \in Nat /\ MaxDisturbances \in Nat
  BY TurnLogAssumption
<1>2. /\ gen \in Nat /\ recorded \in 0..MaxEvents /\ terminal \in BOOLEAN
      /\ disturbed \in 0..MaxDisturbances /\ openRequest \in BOOLEAN
  BY DEF Inv, Scalars
<1>3. recorded \in Nat
  BY <1>1, <1>2
<1>4. /\ Everything(slot) /\ StoreOK(store) /\ slot \in [Mounts -> SlotSet]
      /\ \A m \in Mounts : SlotOK(slot[m], store) /\ Settled(slot[m], store)
      /\ MountsOK(slot, live, retiring, mounts)
  BY Zenon DEF Inv, Everything, Shared, Global
<1>5. store \in StoreSet
  BY <1>4 DEF StoreOK
<1> QED BY <1>1, <1>2, <1>3, <1>4, <1>5

(* Before the turn has ended, nothing asks for the seal. *)
LEMMA InvSeals ==
    ASSUME Inv
    PROVE  /\ SealsOK(slot, store, terminal)
           /\ ~terminal => ~store.sealed /\ \A m \in Mounts : ~slot[m].sealRequested
           /\ \A m \in Mounts : SealOK(slot[m], store)
<1>1. SealsOK(slot, store, terminal)
  BY DEF Inv, Shared
<1> QED BY <1>1, Zenon DEF SealsOK

(* ... and an event that arrives then changes nothing of that.             *)
LEMMA SealsYoung ==
    ASSUME NEW sl, NEW st, NEW term, SealsOK(sl, st, term), ~term,
           NEW m \in Mounts, NEW r, r.call = sl[m].call, r.sealRequested = sl[m].sealRequested,
           NEW t, t[m] = r, \A n \in Mounts \ {m} : t[n] = sl[n]
    PROVE  SealsOK(t, st, term)
<1> HIDE DEF Mounts
<1>1. ~st.sealed /\ \A n \in Mounts : ~sl[n].sealRequested /\ SealOK(sl[n], st)
  BY Zenon DEF SealsOK
<1>2. SealOK(r, st)
  BY <1>1, SealYoung
<1>3. \A n \in Mounts : ~t[n].sealRequested /\ SealOK(t[n], st)
  BY <1>1, <1>2, Zenon
<1> QED BY <1>1, <1>3, Zenon DEF SealsOK

(* A disturbance is counted, or there is none. *)
LEMMA DisturbOK ==
    ASSUME disturbed \in 0..MaxDisturbances, MaxDisturbances \in Nat, NEW kind, Disturb(kind)
    PROVE  disturbed' \in 0..MaxDisturbances
BY DEF Disturb

(* A handler that only steps from its slot. *)
LEMMA GoodInv ==
    ASSUME Inv, NEW m \in Mounts, slot[m] # Unopened, NEW r, SlotBecomes(m, r),
           Good(slot[m], r, store), UNCHANGED <<store, Surroundings, recorded, terminal>>,
           disturbed' \in 0..MaxDisturbances
    PROVE  Inv'
<1>1. Outcome(slot, m, r)
  BY InvParts, GoodOutcome
<1>2. recorded' = recorded /\ terminal' = terminal /\ UNCHANGED <<store, Surroundings>>
  OBVIOUS
<1>3. Shared([slot EXCEPT ![m] = r], store, recorded', live, retiring, mounts, terminal')
  BY <1>1, <1>2 DEF Outcome, Everything
<1>4. recorded' \in 0..MaxEvents /\ terminal' \in BOOLEAN
  BY <1>2, InvParts
<1> QED BY <1>1, <1>2, <1>3, <1>4, BecomesInv DEF Outcome

LEMMA UnopenedFields ==
    /\ Unopened.state = "none" /\ Unopened.timer = "none" /\ Unopened.call = NoCall
    /\ Unopened.note = NoCall /\ Unopened.epoch = 0 /\ Unopened.expected = 0
    /\ Unopened.buffered = <<>> /\ Unopened.win = NoWindow /\ Unopened.loss = FALSE
    /\ Unopened.skipped = {} /\ Unopened.unsaid = {} /\ Unopened.sealRequested = FALSE
    /\ Unopened.flushRequested = FALSE /\ Unopened.reopenPending = FALSE
    /\ Unopened.attempts = 0 /\ Unopened.gen = 0 /\ Unopened.maxBatch = MaxBatch
    /\ Unopened \in SlotSet
<1>1. MaxBatch \in 1..MaxBatch
  BY TurnLogAssumption
<1>2. NoCall \in CallSet /\ NoWindow \in WindowSet /\ <<>> \in Seq(BufferedSet)
  BY NoCallFields, NoWindowIsEmpty
<1> QED BY <1>1, <1>2 DEF Unopened, SlotSet

LEMMA FlushTimerInv ==
    ASSUME Inv, NEW m \in Mounts, FlushTimer(m)
    PROVE  Inv'
<1> DEFINE s == slot[m]
           t == [s EXCEPT !.timer = "none"]
<1>1. PICK r \in CheckedFlush(t) : SlotBecomes(m, r)
  BY DEF FlushTimer
<1>2. /\ SlotOK(s, store) /\ store \in StoreSet /\ gen \in Nat /\ s.timer = "flush"
      /\ disturbed \in 0..MaxDisturbances
  BY InvParts, Zenon DEF FlushTimer
<1>3. HasWindow(s) /\ (s.state = "retrying" => s.win.dirty # <<>>) /\ s # Unopened
  BY <1>2, UnopenedFields DEF SlotOK, LifeOK
<1>4. t = [s EXCEPT !.timer = "none"]
  OBVIOUS
<1> HIDE DEF t, s
<1>5. /\ SlotOK(t, store) /\ Step(s, t, store)
      /\ t.timer = "none" /\ t.win = s.win
  BY <1>2, <1>3, <1>4, TimerOK
<1>6. Good(t, r, store)
  BY <1>1, <1>2, <1>3, <1>5, CheckedFlushOK DEF HasWindow
<1>7. Good(s, r, store)
  BY <1>5, <1>6, StepTransitive DEF Good
<1>8. UNCHANGED <<store, Surroundings, recorded, terminal>> /\ disturbed' = disturbed
  BY DEF FlushTimer
<1> QED BY <1>1, <1>2, <1>3, <1>7, <1>8, GoodInv DEF s

LEMMA DrainSlotInv ==
    ASSUME Inv, NEW m \in Mounts, DrainSlot(m)
    PROVE  Inv'
<1> DEFINE s == slot[m]
           t == [s EXCEPT !.timer = "none"]
<1>1. PICK r \in CheckedFlush(t) : SlotBecomes(m, r)
  BY DEF DrainSlot
<1>2. /\ SlotOK(s, store) /\ store \in StoreSet /\ gen \in Nat
      /\ disturbed \in 0..MaxDisturbances
      /\ HasWindow(s) /\ s.win.dirty # <<>> /\ Alive(s)
  BY InvParts, Zenon DEF DrainSlot
<1>3. s # Unopened
  BY <1>2, AliveIsOpened
<1>4. t = [s EXCEPT !.timer = "none"]
  OBVIOUS
<1> HIDE DEF t, s
<1>5. /\ SlotOK(t, store) /\ Step(s, t, store)
      /\ t.timer = "none" /\ t.win = s.win
  BY <1>2, <1>4, TimerOK
<1>6. Good(t, r, store)
  BY <1>1, <1>2, <1>5, CheckedFlushOK DEF HasWindow
<1>7. Good(s, r, store)
  BY <1>5, <1>6, StepTransitive DEF Good
<1>8. UNCHANGED <<store, Surroundings, recorded, terminal>> /\ disturbed' = disturbed
  BY DEF DrainSlot
<1> QED BY <1>1, <1>2, <1>3, <1>7, <1>8, GoodInv DEF s

LEMMA TakeReplyInv ==
    ASSUME Inv, NEW m \in Mounts, TakeReply(m)
    PROVE  Inv'
<1> DEFINE s == [slot[m] EXCEPT !.call = NoCall]
           results == IF ~Alive(s) THEN {s}
                      ELSE IF Alive(Checked(s)) THEN Replied(Checked(s), slot[m].call)
                           ELSE {Checked(s)}
<1>1. PICK r \in results : SlotBecomes(m, r)
  BY Zenon DEF TakeReply
<1>2. s = [slot[m] EXCEPT !.call = NoCall] /\ Answered(slot[m].call)
  BY DEF TakeReply
<1> HIDE DEF s
<1>3. Outcome(slot, m, r)
  BY <1>1, <1>2, InvParts, TakeReplyOK
<1>4. /\ UNCHANGED <<store, Surroundings>> /\ recorded' = recorded /\ terminal' = terminal
      /\ disturbed' = disturbed
  BY DEF TakeReply
<1>5. Shared([slot EXCEPT ![m] = r], store, recorded', live, retiring, mounts, terminal')
  BY <1>3, <1>4 DEF Outcome, Everything
<1>6. /\ recorded' \in 0..MaxEvents /\ terminal' \in BOOLEAN
      /\ disturbed' \in 0..MaxDisturbances
  BY <1>4, InvParts
<1> QED BY <1>1, <1>3, <1>4, <1>5, <1>6, BecomesInv DEF Outcome

LEMMA TakeNoteInv ==
    ASSUME Inv, NEW m \in Mounts, TakeNote(m)
    PROVE  Inv'
<1> DEFINE s == slot[m]
           u == IF s.note.reply = "ok" THEN {} ELSE s.unsaid
           r == [s EXCEPT !.state = "gone", !.note = NoCall, !.unsaid = u]
<1>1. SlotBecomes(m, r)
  BY Zenon DEF TakeNote
<1>2. /\ SlotOK(s, store) /\ s \in SlotSet /\ CallOK(s, store) /\ LifeOK(s)
      /\ disturbed \in 0..MaxDisturbances
  BY InvParts, Zenon DEF SlotOK
<1>3. s.note # NoCall /\ s # Unopened /\ ~Alive(s)
  <2>1. s.note # NoCall
    BY NoCallFields DEF TakeNote, Answered
  <2> QED BY <1>2, <2>1, UnopenedFields DEF CallOK
<1>4. /\ r \in SlotSet /\ r.state = "gone" /\ r.note = NoCall /\ r.unsaid = u
      /\ r.win = s.win /\ r.buffered = s.buffered
      /\ r.epoch = s.epoch /\ r.expected = s.expected
      /\ r.timer = s.timer /\ r.loss = s.loss /\ r.call = s.call
      /\ r.skipped = s.skipped
      /\ r.sealRequested = s.sealRequested
  <2>1. NoCall \in CallSet /\ u \in SUBSET Pos
    BY <1>2, NoCallFields, SlotFields
  <2>2. r = [s EXCEPT !.state = "gone", !.note = NoCall, !.unsaid = u]
    OBVIOUS
  <2> HIDE DEF u, r
  <2> QED BY ONLY <1>2, <2>1, <2>2 DEF SlotSet
<1> HIDE DEF r
<1>5. ~Alive(r) /\ HasWindow(r) = HasWindow(s) /\ (InForce(r, store) = InForce(s, store))
  <2>1. ~Alive(r)
    BY <1>4 DEF Alive
  <2> QED BY <1>3, <1>4, <2>1, Zenon DEF HasWindow, InForce
<1>6. LifeOK(r)
  BY <1>2, <1>3, <1>4, <1>5 DEF LifeOK
<1>7. CallOK(r, store)
  <2>1. s.call.reply # "held"
    BY <1>2, <1>3 DEF CallOK, Alive
  <2> QED BY <1>2, <1>4, <1>5, <2>1, NoCallFields, InvParts, StoreFields DEF CallOK
<1>8. /\ r.call.kind = "append" => AppendOK(r, r.call, store)
      /\ (Alive(r) /\ HasWindow(r)) => WindowOK(r, r.call.ops, store)
      /\ InForce(r, store) => InOrder(SlotVersions(r, r.call.ops, store))
  BY <1>2, <1>3, <1>4, <1>5 DEF SlotOK, AppendOK, SlotVersions
<1>9. SlotOK(r, store)
  BY <1>4, <1>6, <1>7, <1>8 DEF SlotOK
<1>10. Step(s, r, store)
  <2>1. store.loss \/ u = s.unsaid
    BY <1>2 DEF CallOK
  <2>2. store.loss \/ Kept(r) = Kept(s)
    BY <1>4, <2>1, Zenon DEF Kept, Pending
  <2>3. \A e \in Pos : Below(s, e) => Below(r, e)
    BY <1>4 DEF Below
  <2>4. SealOK(s, store) => SealOK(r, store)
    BY <1>4, <1>5, SealDead
  <2> QED BY <1>4, <1>5, <2>2, <2>3, <2>4 DEF Step, Move
<1>11. Settled(r, store)
  BY <1>4 DEF Settled
<1>12. UNCHANGED <<store, Surroundings, recorded, terminal>> /\ disturbed' = disturbed
  BY DEF TakeNote
<1> HIDE DEF u
<1> QED BY <1>1, <1>2, <1>3, <1>9, <1>10, <1>11, <1>12, GoodInv DEF Good

LEMMA StopTimer ==
    ASSUME NEW s \in SlotSet, NEW reason
    PROVE  Stop([s EXCEPT !.timer = "none"], reason) = Stop(s, reason)
<1> DEFINE t == [s EXCEPT !.timer = "none"]
           silent == reason = "sealed" \/ s.epoch = 0
           state == IF silent THEN "gone" ELSE "stopped"
           note == IF silent THEN NoCall ELSE IncompleteNote(s)
           u == Dropped(s, reason)
<1>1. /\ t.epoch = s.epoch /\ t.expected = s.expected /\ t.unsaid = s.unsaid
      /\ t.win = s.win /\ t.buffered = s.buffered /\ t.skipped = s.skipped
  BY DEF SlotSet
<1>2. IncompleteNote(t) = IncompleteNote(s) /\ Dropped(t, reason) = u
  <2>1. IncompleteNote(t) = IncompleteNote(s) /\ Pending(t) = Pending(s)
    BY <1>1, Zenon DEF IncompleteNote, Pending
  <2> HIDE DEF t
  <2> QED BY <1>1, <2>1 DEF Dropped
<1>3. Stop(s, reason) = [s EXCEPT !.state = state, !.win = NoWindow, !.buffered = <<>>,
                                  !.timer = "none", !.loss = FALSE, !.note = note,
                                  !.unsaid = u, !.skipped = {}]
  BY DEF Stop, Dropped
<1>4. Stop(t, reason) = [t EXCEPT !.state = state, !.win = NoWindow, !.buffered = <<>>,
                                  !.timer = "none", !.loss = FALSE, !.note = note,
                                  !.unsaid = u, !.skipped = {}]
  <2> HIDE DEF t
  <2> QED BY <1>1, <1>2 DEF Stop, Dropped
<1>5. t = [s EXCEPT !.timer = "none"]
  OBVIOUS
<1> HIDE DEF t, state, note, u, silent
<1>6. Stop(t, reason) = Stop(s, reason)
  BY ONLY <1>3, <1>4, <1>5, s \in SlotSet, ZenonT(40) DEF SlotSet
<1> QED BY <1>5, <1>6

(* A slot without a window asks for its lease again. *)
LEMMA OpenAgainOK ==
    ASSUME NEW st \in StoreSet, NEW s, SlotOK(s, st), s.timer = "retry", ~HasWindow(s),
           NEW r \in SlotSet, r.state = "opening", r.timer = "none", r.call = OpenCall("open"),
           r.win = s.win, r.buffered = s.buffered, r.epoch = s.epoch, r.expected = s.expected,
           r.loss = s.loss, r.note = s.note, r.skipped = s.skipped,
           r.sealRequested = s.sealRequested, r.unsaid = s.unsaid
    PROVE  Good(s, r, st)
<1>0. /\ s \in SlotSet /\ LifeOK(s) /\ CallOK(s, st) /\ s.state = "retrying" /\ Alive(s)
      /\ s.call = NoCall /\ s.epoch = 0
  BY DEF SlotOK, LifeOK, Alive
<1>1. r.call.kind = "open" /\ r.call.reply = "sent" /\ r.call.epoch = 0 /\ r.call.ops = <<>>
  BY OpenCallFields
<1>2. Alive(r) /\ ~HasWindow(r) /\ ~InForce(r, st)
  BY <1>0 DEF Alive, HasWindow, InForce
<1>3. LifeOK(r)
  BY <1>0, <1>2 DEF LifeOK
<1>4. CallOK(r, st)
  BY <1>0, <1>1, <1>2, StoreFields DEF CallOK
<1>5. SlotOK(r, st)
  BY <1>1, <1>2, <1>3, <1>4 DEF SlotOK
<1>6. Settled(r, st)
  BY DEF Settled
<1>7. Step(s, r, st)
  <2>1. Kept(r) = Kept(s)
    BY Zenon DEF Kept, Pending
  <2>2. \A e \in Pos : Below(s, e) => Below(r, e)
    <3>1. \A e \in Pos : RowsBelow(<<>>, e)
      BY NoWindowBelow
    <3> QED BY <1>1, <3>1 DEF Below
  <2>3. SealOK(s, st) => SealOK(r, st)
    BY <1>0, <1>1, SealSame
  <2> QED BY <1>0, <1>1, <1>2, <2>1, <2>2, <2>3, NoCallFields DEF Step, Move
<1> QED BY <1>5, <1>6, <1>7 DEF Good

(* A slot that retried writes again. *)
LEMMA WriteAgainOK ==
    ASSUME NEW st \in StoreSet, NEW s, SlotOK(s, st), s.timer = "retry", HasWindow(s),
           NEW r \in SlotSet, r.state = "writing", r.timer = "none", r.call = s.call,
           r.win = s.win, r.buffered = s.buffered, r.epoch = s.epoch, r.expected = s.expected,
           r.loss = s.loss, r.note = s.note, r.skipped = s.skipped,
           r.sealRequested = s.sealRequested, r.unsaid = s.unsaid
    PROVE  SlotOK(r, st) /\ Step(s, r, st) /\ HasWindow(r)
<1>0. /\ s \in SlotSet /\ LifeOK(s) /\ CallOK(s, st) /\ s.state = "retrying" /\ Alive(s)
      /\ s.call = NoCall
  BY DEF SlotOK, LifeOK, Alive
<1>1. r.call.kind = "none" /\ r.call.reply = "none"
  BY <1>0, NoCallFields
<1>2. Alive(r) /\ HasWindow(r) /\ (InForce(r, st) = InForce(s, st))
  <2>1. Alive(r) /\ HasWindow(r)
    BY DEF Alive, HasWindow
  <2> QED BY <1>0, <2>1 DEF InForce
<1>3. LifeOK(r)
  BY <1>0, <1>2 DEF LifeOK
<1>4. CallOK(r, st)
  BY <1>0, <1>1, <1>2 DEF CallOK
<1>5. WindowOK(r, r.call.ops, st)
  BY <1>0 DEF SlotOK, WindowOK
<1>6. InForce(r, st) => InOrder(SlotVersions(r, r.call.ops, st))
  BY <1>2 DEF SlotOK, SlotVersions
<1>7. SlotOK(r, st)
  BY <1>1, <1>3, <1>4, <1>5, <1>6 DEF SlotOK
<1>8. Step(s, r, st)
  <2>1. Kept(r) = Kept(s)
    BY Zenon DEF Kept, Pending
  <2>2. \A e \in Pos : Below(s, e) => Below(r, e)
    BY DEF Below
  <2>3. SealOK(s, st) => SealOK(r, st)
    BY <1>0, SealSame
  <2> QED BY <1>0, <1>2, <2>1, <2>2, <2>3 DEF Step, Move
<1> QED BY <1>2, <1>7, <1>8

LEMMA RetryTimerInv ==
    ASSUME Inv, NEW m \in Mounts, RetryTimer(m)
    PROVE  Inv'
<1> DEFINE s == slot[m]
           t == [s EXCEPT !.timer = "none"]
           c == Checked(t)
<1>1. PICK r \in IF Alive(c) THEN Retried(c) ELSE {c} : SlotBecomes(m, r)
  BY Zenon DEF RetryTimer
<1>2. /\ SlotOK(s, store) /\ store \in StoreSet /\ gen \in Nat /\ s.timer = "retry"
      /\ disturbed \in 0..MaxDisturbances /\ s \in SlotSet
  BY InvParts, Zenon DEF RetryTimer, SlotOK
<1>3. s # Unopened /\ Alive(s) /\ s.call = NoCall /\ s.state = "retrying"
  BY <1>2, UnopenedFields DEF SlotOK, LifeOK, Alive
<1>4. Good(s, r, store)
  <2>1. CASE gen = 0
    <3>1. c = Stop(t, "ownerMismatch")
      BY <2>1 DEF Checked
    <3>2. c = Stop(s, "ownerMismatch")
      BY <1>2, <3>1, StopTimer
    <3> HIDE DEF c
    <3>3. Good(s, c, store) /\ ~Alive(c)
      BY <1>2, <1>3, <3>2, NoCallFields, StopOK
    <3> QED BY <1>1, <3>3
  <2>2. CASE gen # 0
    <3>1. c = t \/ c = [t EXCEPT !.gen = gen, !.reopenPending = TRUE]
      BY <2>2 DEF Checked
    <3>2. /\ t \in SlotSet /\ t.timer = "none"
          /\ t.state = s.state /\ t.win = s.win /\ t.buffered = s.buffered
          /\ t.epoch = s.epoch /\ t.expected = s.expected
          /\ t.loss = s.loss /\ t.call = s.call
          /\ t.note = s.note /\ t.skipped = s.skipped
          /\ t.sealRequested = s.sealRequested /\ t.unsaid = s.unsaid
      BY <1>2 DEF SlotSet
    <3> HIDE DEF c, t
    <3>3. /\ c \in SlotSet /\ c.timer = "none"
          /\ c.state = s.state /\ c.win = s.win /\ c.buffered = s.buffered
          /\ c.epoch = s.epoch /\ c.expected = s.expected
          /\ c.loss = s.loss /\ c.call = s.call
          /\ c.note = s.note /\ c.skipped = s.skipped
          /\ c.sealRequested = s.sealRequested /\ c.unsaid = s.unsaid
      <4>1. CASE c = t
        BY <3>2, <4>1
      <4>2. CASE c = [t EXCEPT !.gen = gen, !.reopenPending = TRUE]
        BY ONLY <1>2, <3>2, <4>2 DEF SlotSet
      <4> QED BY ONLY <3>1, <4>1, <4>2
    <3>4. Alive(c) /\ HasWindow(c) = HasWindow(s)
      BY <1>3, <3>3 DEF Alive, HasWindow
    <3>5. CASE HasWindow(s)
      <4> DEFINE w == [c EXCEPT !.state = "writing"]
      <4>1. r \in RunFlush(w)
        BY <1>1, <3>4, <3>5 DEF Retried
      <4>2. /\ w \in SlotSet /\ w.state = "writing" /\ w.timer = "none"
            /\ w.win = s.win /\ w.buffered = s.buffered
            /\ w.epoch = s.epoch /\ w.expected = s.expected
            /\ w.loss = s.loss /\ w.call = s.call
            /\ w.note = s.note /\ w.skipped = s.skipped
            /\ w.sealRequested = s.sealRequested /\ w.unsaid = s.unsaid
        BY <3>3 DEF SlotSet
      <4> HIDE DEF w, s
      <4>3. SlotOK(w, store) /\ Step(s, w, store) /\ HasWindow(w)
        BY <1>2, <3>5, <4>2, WriteAgainOK
      <4>4. Good(w, r, store)
        BY <1>2, <4>1, <4>2, <4>3, RunFlushOK
      <4> QED BY <4>3, <4>4, StepTransitive DEF Good
    <3>6. CASE ~HasWindow(s)
      <4> DEFINE call == OpenCall("open")
      <4>1. r = [c EXCEPT !.state = "opening", !.call = call]
        BY <1>1, <3>4, <3>6 DEF Retried
      <4>2. call \in CallSet
        BY OpenCallFields
      <4> HIDE DEF call
      <4>3. /\ r \in SlotSet /\ r.state = "opening" /\ r.timer = "none" /\ r.call = call
            /\ r.win = s.win /\ r.buffered = s.buffered
            /\ r.epoch = s.epoch /\ r.expected = s.expected
            /\ r.loss = s.loss
            /\ r.note = s.note /\ r.skipped = s.skipped
            /\ r.sealRequested = s.sealRequested /\ r.unsaid = s.unsaid
        BY <3>3, <4>1, <4>2 DEF SlotSet
      <4>4. call = OpenCall("open")
        BY DEF call
      <4> HIDE DEF s
      <4> QED BY <1>2, <3>6, <4>3, <4>4, OpenAgainOK
    <3> QED BY <3>5, <3>6
  <2> QED BY <2>1, <2>2
<1>5. UNCHANGED <<store, Surroundings, recorded, terminal>> /\ disturbed' = disturbed
  BY DEF RetryTimer
<1> HIDE DEF s
<1> QED BY <1>1, <1>2, <1>3, <1>4, <1>5, GoodInv DEF s

LossRaised(s, u, r, st) ==
    /\ SlotOK(r, st) /\ Step(s, r, st) /\ (Settled(s, st) => Settled(r, st))
    /\ Alive(r) /\ HasWindow(r) = HasWindow(s) /\ r.skipped = s.skipped \cup u
    /\ r.win = s.win /\ r.call = s.call /\ r.buffered = s.buffered

(* A loss is noticed, while no append seals the log. *)
LEMMA LossRaisedOK ==
    ASSUME NEW st, NEW s, SlotOK(s, st), Alive(s), ~s.sealRequested, ~st.sealed,
           NEW u \in SUBSET Pos, HasWindow(s) \/ u = {},
           NEW r, r = [s EXCEPT !.loss = TRUE, !.skipped = s.skipped \cup u]
    PROVE  LossRaised(s, u, r, st)
<1>0. s \in SlotSet /\ LifeOK(s) /\ CallOK(s, st)
  BY DEF SlotOK
<1>1. /\ r \in SlotSet /\ r.loss = TRUE /\ r.skipped = s.skipped \cup u
      /\ r.state = s.state /\ r.win = s.win /\ r.buffered = s.buffered
      /\ r.epoch = s.epoch /\ r.expected = s.expected
      /\ r.timer = s.timer /\ r.call = s.call /\ r.note = s.note
      /\ r.sealRequested = s.sealRequested /\ r.unsaid = s.unsaid
  <2>1. s.skipped \cup u \in SUBSET Pos
    BY <1>0, SlotFields
  <2> QED BY ONLY <1>0, <2>1, r = [s EXCEPT !.loss = TRUE, !.skipped = s.skipped \cup u]
             DEF SlotSet
<1>2. Alive(r) /\ HasWindow(r) = HasWindow(s) /\ (InForce(r, st) = InForce(s, st))
  <2>1. Alive(r)
    BY <1>1 DEF Alive
  <2> QED BY <1>1, <2>1, Zenon DEF HasWindow, InForce
<1>3. LifeOK(r)
  BY <1>0, <1>1, <1>2 DEF LifeOK
<1>4. CallOK(r, st)
  BY <1>0, <1>1, <1>2 DEF CallOK
<1>5. r.call.kind = "append" => AppendOK(r, r.call, st)
  BY <1>1, <1>2 DEF SlotOK, AppendOK
<1>6. (Alive(r) /\ HasWindow(r)) => WindowOK(r, r.call.ops, st)
  BY <1>1, <1>2 DEF SlotOK, WindowOK
<1>7. InForce(r, st) => InOrder(SlotVersions(r, r.call.ops, st))
  BY <1>1, <1>2 DEF SlotOK, SlotVersions
<1>8. Step(s, r, st)
  <2>1. Kept(s) \subseteq Kept(r)
    <3>1. Pending(r) = Pending(s)
      BY <1>1, Zenon DEF Pending
    <3> QED BY <1>1, <3>1 DEF Kept
  <2>2. \A e \in Pos : Below(s, e) => Below(r, e)
    BY <1>1 DEF Below
  <2>3. SealOK(s, st) => SealOK(r, st)
    BY <1>1, SealYoung
  <2> QED BY <1>1, <1>2, <2>1, <2>2, <2>3 DEF Step, Move
<1> QED BY <1>1, <1>2, <1>3, <1>4, <1>5, <1>6, <1>7, <1>8 DEF SlotOK, Settled, LossRaised

LEMMA ReportLossInv ==
    ASSUME Inv, ReportLoss
    PROVE  Inv'
<1> DEFINE s == slot[live]
           t == [s EXCEPT !.loss = TRUE]
<1>1. PICK r \in ScheduleFlush(t, FALSE) : SlotBecomes(live, r)
  BY Zenon DEF ReportLoss
<1>2. live \in Mounts
  BY InvParts, Zenon DEF ReportLoss, MountsOK
<1>3. /\ SlotOK(s, store) /\ Settled(s, store) /\ store \in StoreSet /\ gen \in Nat
      /\ Alive(s) /\ s \in SlotSet
  BY <1>2, InvParts, Zenon DEF ReportLoss, SlotOK
<1>4. ~s.sealRequested /\ ~store.sealed
  BY <1>2, InvSeals, Zenon DEF ReportLoss
<1>5. t = [s EXCEPT !.loss = TRUE, !.skipped = s.skipped \cup {}]
  <2> DEFINE k == s.skipped \cup {}
  <2>1. k = s.skipped
    OBVIOUS
  <2> HIDE DEF k
  <2>2. t = [s EXCEPT !.loss = TRUE, !.skipped = k]
    BY ONLY <1>3, <2>1 DEF SlotSet
  <2> QED BY <2>2 DEF k
<1>6. s # Unopened
  BY <1>3, AliveIsOpened
<1> HIDE DEF t, s
<1>7. SlotOK(t, store) /\ Step(s, t, store) /\ Settled(t, store)
  <2> DEFINE none == {}
  <2>1. none \in SUBSET Pos
    OBVIOUS
  <2>2. LossRaised(s, none, t, store)
    BY <1>3, <1>4, <1>5, <2>1, LossRaisedOK
  <2> QED BY <1>3, <2>2 DEF LossRaised
<1>8. Good(t, r, store)
  BY <1>1, <1>3, <1>7, ScheduleFlushOK
<1>9. Good(s, r, store)
  BY <1>7, <1>8, StepTransitive DEF Good
<1>10. UNCHANGED <<store, Surroundings, recorded, terminal>>
  BY DEF ReportLoss
<1>11. disturbed' \in 0..MaxDisturbances
  BY InvParts, DisturbOK DEF ReportLoss
<1> QED BY <1>1, <1>2, <1>6, <1>9, <1>10, <1>11, GoodInv DEF s

(* The turn ends, and its slot is asked to seal the log. *)
LEMMA SealRequestedOK ==
    ASSUME NEW st, NEW s, SlotOK(s, st), Settled(s, st), SealOK(s, st), ~st.sealed,
           ~s.sealRequested, NEW r, r = [s EXCEPT !.sealRequested = TRUE]
    PROVE  /\ SlotOK(r, st) /\ Move(s, r, st) /\ Settled(r, st) /\ SealOK(r, st)
           /\ Alive(r) = Alive(s) /\ r.call = s.call
           /\ r.epoch = s.epoch /\ r.buffered = s.buffered
<1>0. s \in SlotSet /\ LifeOK(s) /\ CallOK(s, st)
  BY DEF SlotOK
<1>1. /\ r \in SlotSet /\ r.sealRequested = TRUE
      /\ r.state = s.state /\ r.win = s.win /\ r.buffered = s.buffered
      /\ r.epoch = s.epoch /\ r.expected = s.expected
      /\ r.timer = s.timer /\ r.loss = s.loss /\ r.call = s.call
      /\ r.note = s.note /\ r.skipped = s.skipped
      /\ r.unsaid = s.unsaid
  BY <1>0 DEF SlotSet
<1>2. Alive(r) = Alive(s) /\ HasWindow(r) = HasWindow(s) /\ InForce(r, st) = InForce(s, st)
  BY <1>1, Zenon DEF Alive, HasWindow, InForce
<1>3. LifeOK(r) /\ CallOK(r, st)
  BY <1>0, <1>1, <1>2 DEF LifeOK, CallOK
<1>4. r.call.kind = "append" => AppendOK(r, r.call, st)
  BY <1>1, <1>2 DEF SlotOK, AppendOK
<1>5. (Alive(r) /\ HasWindow(r)) => WindowOK(r, r.call.ops, st)
  BY <1>1, <1>2 DEF SlotOK, WindowOK
<1>6. InForce(r, st) => InOrder(SlotVersions(r, r.call.ops, st))
  BY <1>1, <1>2 DEF SlotOK, SlotVersions
<1>7. Move(s, r, st)
  <2>1. Kept(r) = Kept(s)
    <3>1. r.win = s.win /\ r.buffered = s.buffered
      BY <1>1
    <3>2. Pending(r) = Pending(s)
      BY <3>1, Zenon DEF Pending
    <3> QED BY <1>1, <3>2 DEF Kept
  <2>2. \A e \in Pos : Below(s, e) => Below(r, e)
    BY <1>1 DEF Below
  <2> QED BY <1>1, <1>2, <2>1, <2>2 DEF Move
<1>8. SealOK(r, st)
  BY <1>1, SealYoung
<1> QED BY <1>1, <1>2, <1>3, <1>4, <1>5, <1>6, <1>7, <1>8 DEF SlotOK, Settled

(* The slot that is asked for the seal is the only one that may hold events *)
(* back, unless it waits itself for a writer that is retiring.              *)
LEMMA SealTurnSeals ==
    ASSUME Inv, ~terminal, live \in Mounts, Alive(slot[live]),
           NEW u, SealOK(u[live], store), u[live].epoch = slot[live].epoch,
           \A n \in Mounts \ {live} : u[n] = slot[n]
    PROVE  SealsOK(u, store, TRUE)
<1> HIDE DEF Mounts
<1>1. \A m \in Mounts : SealOK(u[m], store)
  BY InvSeals, Zenon
<1>2. \A m \in Mounts \ {live} : ~u[m].sealRequested
  BY InvSeals, Zenon
<1>3. ASSUME NEW n \in Mounts \ {live}
      PROVE  u[n].buffered = <<>> \/ (n < live /\ u[live].epoch = 0)
  <2>1. u[n] = slot[n] /\ SlotOK(slot[n], store) /\ SlotOK(slot[live], store)
    BY <1>3, InvParts, Zenon
  <2>2. CASE ~Alive(slot[n])
    BY <2>1, <2>2 DEF SlotOK, LifeOK
  <2>3. CASE Alive(slot[n])
    <3>1. MountsOK(slot, live, retiring, mounts)
      BY InvParts
    <3>2. n = retiring /\ retiring # 0 /\ retiring <= mounts /\ live = mounts /\ mounts \in Nat
      <4>1. n \in {live, retiring} /\ retiring \in 0..mounts /\ mounts \in Mounts
            /\ live \in {0, mounts}
        BY <2>3, <3>1, Zenon DEF MountsOK
      <4>2. n # live /\ n # 0 /\ live # 0
        BY DEF Mounts
      <4> QED BY <4>1, <4>2 DEF Mounts
    <3>3. slot[live].call.reply = "held"
      BY <3>1, <3>2, Zenon DEF MountsOK
    <3>4. slot[live].epoch = 0
      BY <2>1, <3>3 DEF SlotOK, CallOK, LifeOK
    <3>5. n < live
      BY <3>2 DEF Mounts
    <3> QED BY <3>4, <3>5
  <2> QED BY <2>2, <2>3
<1>4. ASSUME NEW m \in Mounts, NEW n \in Mounts \ {m}, u[m].sealRequested
      PROVE  u[n].buffered = <<>> \/ (n < m /\ u[m].epoch = 0)
  <2>1. m = live
    BY <1>2, <1>4
  <2> QED BY <1>3, <2>1
<1> QED BY <1>1, <1>4, Zenon DEF SealsOK

LEMMA SealTurnInv ==
    ASSUME Inv, SealTurn
    PROVE  Inv'
<1>1. /\ terminal' = TRUE /\ UNCHANGED <<store, Surroundings>> /\ recorded' = recorded
      /\ disturbed' = disturbed
  BY DEF SealTurn
<1>2. store' = store /\ live' = live /\ retiring' = retiring /\ mounts' = mounts /\ gen' = gen
  BY <1>1 DEF Surroundings
<1>3. Global(slot, store, recorded) /\ MountsOK(slot, live, retiring, mounts)
  BY DEF Inv, Shared
<1>4. CASE live = 0 \/ ~Alive(slot[live])
  <2>1. slot' = slot /\ openRequest' = openRequest
    BY <1>4 DEF SealTurn
  <2>2. Scalars'
    BY <1>1, <1>2, <2>1 DEF Inv, Scalars
  <2>3. SealsOK(slot, store, TRUE)
    BY InvSeals, Zenon DEF SealsOK
  <2> QED BY <1>1, <1>2, <1>3, <2>1, <2>2, <2>3, Zenon DEF Inv, Shared
<1>5. CASE ~(live = 0 \/ ~Alive(slot[live]))
  <2> DEFINE s == slot[live]
             t == [s EXCEPT !.sealRequested = TRUE]
             u == [slot EXCEPT ![live] = t]
  <2>1. PICK r \in ScheduleFlush(t, TRUE) : SlotBecomes(live, r)
    BY <1>5, Zenon DEF SealTurn
  <2>2. live \in Mounts
    BY <1>3, <1>5, Zenon DEF MountsOK
  <2>3. /\ SlotOK(s, store) /\ Settled(s, store) /\ store \in StoreSet /\ gen \in Nat
        /\ Alive(s) /\ recorded \in Nat /\ recorded \in 0..MaxEvents
        /\ disturbed \in 0..MaxDisturbances /\ slot \in [Mounts -> SlotSet]
        /\ ~terminal /\ ~store.sealed /\ ~s.sealRequested /\ SealOK(s, store)
    BY <1>5, <2>2, InvParts, InvSeals, Zenon DEF SealTurn
  <2>4. t = [s EXCEPT !.sealRequested = TRUE]
    OBVIOUS
  <2>5. u = [slot EXCEPT ![live] = t]
    OBVIOUS
  <2>6. u[live] = t /\ (\A n \in Mounts \ {live} : u[n] = slot[n])
        /\ [u EXCEPT ![live] = r] = [slot EXCEPT ![live] = r]
    BY <2>2, <2>3
  <2>7. s # Unopened
    BY <2>3, AliveIsOpened
  <2> HIDE DEF t
  <2>8. /\ SlotOK(t, store) /\ Move(s, t, store) /\ Settled(t, store) /\ SealOK(t, store)
        /\ Alive(t) /\ t.call = s.call /\ t.epoch = s.epoch
    BY <2>3, <2>4, SealRequestedOK
  <2> HIDE DEF u
  <2>9. t \in SlotSet /\ u \in [Mounts -> SlotSet]
    BY <2>3, <2>5, <2>8 DEF SlotOK
  <2>10. Shared(u, store, recorded, live, retiring, mounts, TRUE)
    <3>1. EpochsOK(u, store)
      BY <1>3, <2>2, <2>3, <2>5, <2>8, EpochsStep DEF Global
    <3>2. ArrivalsOK(u, store, recorded)
      BY <1>3, <2>2, <2>3, <2>5, <2>8, ArrivalsStep DEF Global
    <3>3. Accounted(u, store, recorded)
      BY <1>3, <2>2, <2>3, <2>5, <2>8, AccountedStep DEF Global, Move
    <3>4. MountsOK(u, live, retiring, mounts)
      <4> HIDE DEF Mounts
      <4> QED BY <1>3, <2>2, <2>3, <2>5, <2>7, <2>8, MountsStep
    <3>5. \A n \in Mounts : SlotOK(u[n], store)
      BY <1>3, <2>6, <2>8, Zenon DEF Global
    <3>6. SealsOK(u, store, TRUE)
      BY <2>2, <2>3, <2>6, <2>8, SealTurnSeals, Zenon
    <3> QED BY <1>3, <2>9, <3>1, <3>2, <3>3, <3>4, <3>5, <3>6, Zenon DEF Shared, Global
  <2>11. Good(t, r, store)
    BY <2>1, <2>3, <2>8, ScheduleFlushOK
  <2>12. Shared([slot EXCEPT ![live] = r], store, recorded, live, retiring, mounts, TRUE)
    <3> DEFINE v == [u EXCEPT ![live] = r]
    <3>1. v = [u EXCEPT ![live] = r]
      OBVIOUS
    <3> HIDE DEF v
    <3>2. t # Unopened
      BY <2>8, AliveIsOpened
    <3>3. Shared(v, store, recorded, live, retiring, mounts, TRUE)
      BY <2>2, <2>3, <2>6, <2>10, <2>11, <3>1, <3>2, SharedStep DEF Good
    <3> QED BY <2>6, <3>1, <3>3
  <2>13. Shared([slot EXCEPT ![live] = r], store, recorded', live, retiring, mounts, terminal')
    BY <1>1, <2>12
  <2>14. /\ recorded' \in 0..MaxEvents /\ terminal' \in BOOLEAN
         /\ disturbed' \in 0..MaxDisturbances
    BY <1>1, <2>3
  <2> QED BY <1>1, <2>1, <2>2, <2>11, <2>13, <2>14, BecomesInv DEF Good
<1> QED BY <1>4, <1>5

----------------------------------------------------------------------------
(* An event arrives. *)

LEMMA RowsBelowGrow ==
    ASSUME NEW f \in Rowses, NEW e \in Nat, NEW g \in Nat, e <= g, RowsBelow(f, e)
    PROVE  RowsBelow(f, g)
<1>1. DOMAIN f \subseteq Nat /\ \A k \in DOMAIN f : f[k] \subseteq Nat
  BY RowsesElim DEF Pos
<1>2. SUFFICES ASSUME NEW k \in DOMAIN f PROVE k < g /\ \A x \in f[k] : x < g
  BY DEF RowsBelow
<1>3. k < e /\ \A x \in f[k] : x < e
  BY DEF RowsBelow
<1> QED BY <1>1, <1>3

LEMMA RowBelowGrow ==
    ASSUME NEW row \in RowSet, NEW e \in Nat, NEW g \in Nat, e <= g, RowBelow(row, e)
    PROVE  RowBelow(row, g)
<1>1. row.seq \in Nat /\ \A x \in row.events : x \in Nat
  BY DEF RowSet, Pos
<1> QED BY <1>1 DEF RowBelow

LEMMA BelowGrow ==
    ASSUME NEW s \in SlotSet, NEW e \in Nat, NEW g \in Nat, e <= g, Below(s, e)
    PROVE  Below(s, g)
<1>1. s.win \in WindowSet /\ s.call \in CallSet
  BY SlotFields
<1>2. /\ s.win.next \in Nat /\ s.win.dirty \in Rowses /\ s.win.tail \in RowSet
      /\ s.win.snapshot \in RowSet /\ s.call.ops \in Rowses
  BY <1>1, WindowFields, CallFields
<1>3. RowsBelow(s.win.dirty, g) /\ RowsBelow(s.call.ops, g)
  BY <1>2, RowsBelowGrow DEF Below, WindowBelow
<1>4. RowBelow(s.win.tail, g) /\ RowBelow(s.win.snapshot, g)
  BY <1>2, RowBelowGrow DEF Below, WindowBelow
<1>5. s.win.next <= g
  BY <1>2 DEF Below, WindowBelow
<1> QED BY <1>3, <1>4, <1>5 DEF Below, WindowBelow

LEMMA NewerGrow ==
    ASSUME NEW st \in StoreSet, NEW sl \in [Mounts -> SlotSet],
           NEW e \in Nat, NEW g \in Nat, e <= g, Newer(sl, st, e)
    PROVE  Newer(sl, st, g)
<1>1. StoreBelow(st, g)
  <2>1. st.next \in Nat /\ st.rows \in Rowses
    BY StoreFields DEF Pos
  <2>2. RowsBelow(st.rows, g)
    BY <2>1, RowsBelowGrow DEF Newer, StoreBelow
  <2> QED BY <2>1, <2>2 DEF Newer, StoreBelow
<1>2. \A m \in Mounts : Below(sl[m], g)
  <2> HIDE DEF Mounts
  <2>1. SUFFICES ASSUME NEW m \in Mounts PROVE Below(sl[m], g)
    OBVIOUS
  <2>2. sl[m] \in SlotSet /\ Below(sl[m], e)
    BY DEF Newer
  <2> QED BY <2>2, BelowGrow
<1> QED BY <1>1, <1>2 DEF Newer

(* A slot that has taken event e into its window, or given it up.           *)
Arrived(s, r, e, st) ==
    /\ SlotOK(r, st) /\ Settled(r, st) /\ Alive(r) /\ HasWindow(r)
    /\ r.epoch = s.epoch /\ r.call = s.call /\ r.buffered = <<>>
    /\ r.sealRequested = s.sealRequested
    /\ \A g \in Pos : e < g => Below(r, g)
    /\ Kept(s) \cup {e} \subseteq Kept(r)

LEMMA AcceptedOK ==
    ASSUME NEW st, StoreOK(st), NEW s, SlotOK(s, st), Settled(s, st), HasWindow(s),
           NEW kind \in EventKinds, kind # "oversized",
           NEW e \in Pos, Below(s, e), StoreBelow(st, e),
           NEW r, r = [s EXCEPT !.win = AcceptEvent(s.win, kind, e)]
    PROVE  Arrived(s, r, e, st)
<1> DEFINE w == AcceptEvent(s.win, kind, e)
           ops == s.call.ops
<1>0. /\ s \in SlotSet /\ LifeOK(s) /\ CallOK(s, st) /\ Alive(s) /\ WindowOK(s, ops, st)
      /\ WindowShape(s.win) /\ s.win \in WindowSet /\ s.win.next \in Nat /\ ops \in Rowses
      /\ st \in StoreSet /\ st.rows \in Rowses /\ st.next \in Nat /\ s.expected \in Nat
  <2>1. s \in SlotSet /\ LifeOK(s) /\ CallOK(s, st) /\ Alive(s) /\ st \in StoreSet
    BY NotHeld DEF SlotOK, StoreOK
  <2>2. WindowOK(s, ops, st) /\ WindowShape(s.win)
    BY <2>1 DEF SlotOK, WindowOK
  <2> QED BY <2>1, <2>2, SlotFields, WindowFields, CallFields, StoreFields DEF Pos
<1>1. /\ WindowShape(w) /\ s.win.next <= w.next
      /\ DOMAIN s.win.dirty \subseteq DOMAIN w.dirty
      /\ s.win.next..(w.next - 1) \subseteq DOMAIN w.dirty
      /\ EventsOf(s.win.dirty) \subseteq EventsOf(w.dirty)
      /\ e \in EventsOf(w.dirty)
  BY <1>0, AcceptShape DEF Accepts
<1>2. w \in WindowSet /\ w.next \in Nat /\ w.next # 0 /\ w.dirty \in Rowses
  <2> HIDE DEF w
  <2>1. w \in WindowSet /\ w.next # 0
    BY <1>1 DEF WindowShape
  <2> QED BY <2>1, WindowFields
<1>3. /\ r \in SlotSet /\ r.win = w
      /\ r.state = s.state /\ r.buffered = s.buffered
      /\ r.epoch = s.epoch /\ r.expected = s.expected
      /\ r.timer = s.timer /\ r.loss = s.loss /\ r.call = s.call
      /\ r.note = s.note /\ r.skipped = s.skipped
      /\ r.sealRequested = s.sealRequested /\ r.unsaid = s.unsaid
  <2>1. r = [s EXCEPT !.win = w]
    OBVIOUS
  <2> HIDE DEF w
  <2> QED BY ONLY <1>0, <1>2, <2>1 DEF SlotSet
<1>4. Alive(r) /\ HasWindow(r) /\ (InForce(r, st) = InForce(s, st))
  <2>1. Alive(r) /\ HasWindow(r)
    BY <1>0, <1>2, <1>3 DEF Alive, HasWindow
  <2> QED BY <1>0, <1>3, <2>1 DEF InForce
<1>5. LifeOK(r)
  <2>1. s.win.dirty # <<>> => w.dirty # <<>>
    <3>1. s.win.dirty \in Rowses
      BY <1>0, WindowFields
    <3> HIDE DEF w
    <3>2. s.win.dirty # <<>> => DOMAIN w.dirty # {}
      BY <1>1, <3>1, RowsesElim
    <3> QED BY <1>2, <3>2, RowsesElim
  <2> HIDE DEF w
  <2> QED BY <1>0, <1>3, <1>4, <2>1 DEF LifeOK
<1>6. CallOK(r, st)
  BY <1>0, <1>3, <1>4 DEF CallOK
<1>7. r.call.kind = "append" => AppendOK(r, r.call, st)
  BY <1>3, <1>4, <1>0 DEF SlotOK, AppendOK
<1>8. WindowOK(r, ops, st)
  <2>1. /\ DOMAIN st.rows \subseteq 1..(s.win.next - 1) /\ Held(st.rows, s.win)
        /\ DOMAIN ops \subseteq 1..(s.win.next - 1) /\ Held(ops, s.win)
    <3>1. \A k \in 1..(st.next - 1) : k \in 1..(s.win.next - 1)
      BY <1>0 DEF WindowOK
    <3> QED BY <1>0, <3>1 DEF WindowOK, StoreOK
  <2>2. /\ Held(st.rows, w) /\ (Covers(s.win.dirty, st.rows) => Covers(w.dirty, st.rows))
    BY <1>0, <2>1, AcceptRows
  <2>3. /\ Held(ops, w) /\ (Covers(s.win.dirty, ops) => Covers(w.dirty, ops))
    BY <1>0, <2>1, AcceptRows
  <2> HIDE DEF w, ops
  <2>4. \A k \in s.expected..(w.next - 1) : k \in DOMAIN w.dirty
    <3>1. SUFFICES ASSUME NEW k \in s.expected..(w.next - 1) PROVE k \in DOMAIN w.dirty
      OBVIOUS
    <3>2. k \in s.expected..(s.win.next - 1) \/ k \in s.win.next..(w.next - 1)
      BY <1>0, <1>2, <3>1
    <3>3. k \in s.expected..(s.win.next - 1) => k \in DOMAIN s.win.dirty
      BY <1>0 DEF WindowOK
    <3> QED BY <1>1, <3>2, <3>3
  <2>5. DOMAIN ops \subseteq 1..(w.next - 1)
    BY <1>0, <1>1, <1>2, <2>1
  <2>6. s.expected \in 1..st.next /\ st.next <= w.next
    BY <1>0, <1>1, <1>2 DEF WindowOK
  <2>7. s.loss \/ (Covers(s.win.dirty, st.rows) /\ Covers(s.win.dirty, ops))
    BY <1>0 DEF WindowOK
  <2> QED BY <1>1, <1>3, <2>2, <2>3, <2>4, <2>5, <2>6, <2>7 DEF WindowOK
<1>9. InForce(r, st) => InOrder(SlotVersions(r, ops, st))
  <2> DEFINE B == Rows(st.rows) \cup Rows(ops)
  <2>1. SlotVersions(r, ops, st) = B \cup WindowRows(w)
    BY <1>3 DEF SlotVersions
  <2>2. InForce(s, st) => InOrder(B \cup WindowRows(s.win))
    BY DEF SlotOK, SlotVersions
  <2>3. B \subseteq Nat \X SUBSET Nat
    BY <1>0, RowsIn DEF Pos
  <2>4. \A v \in B : v[1] < s.win.next /\ \A x \in v[2] : x < e
    <3>1. SUFFICES ASSUME NEW v \in B PROVE v[1] < s.win.next /\ \A x \in v[2] : x < e
      OBVIOUS
    <3>2. (\E k \in DOMAIN st.rows : v = <<k, st.rows[k]>>) \/ (\E k \in DOMAIN ops : v = <<k, ops[k]>>)
      BY <1>0, RowsIn
    <3>3. CASE \E k \in DOMAIN st.rows : v = <<k, st.rows[k]>>
      <4>1. PICK k \in DOMAIN st.rows : v = <<k, st.rows[k]>>
        BY <3>3
      <4>2. k < s.win.next
        BY <1>0 DEF StoreOK, WindowOK
      <4>3. \A x \in st.rows[k] : x < e
        BY DEF StoreBelow, RowsBelow
      <4> QED BY <4>1, <4>2, <4>3
    <3>4. CASE \E k \in DOMAIN ops : v = <<k, ops[k]>>
      <4>1. PICK k \in DOMAIN ops : v = <<k, ops[k]>>
        BY <3>4
      <4>2. k < s.win.next
        BY <1>0 DEF WindowOK
      <4>3. \A x \in ops[k] : x < e
        BY DEF Below, RowsBelow
      <4> QED BY <4>1, <4>2, <4>3
    <3> QED BY <3>2, <3>3, <3>4
  <2>5. w = AcceptEvent(s.win, kind, e)
    OBVIOUS
  <2> HIDE DEF B, w
  <2>6. InForce(s, st) => InOrder(B \cup WindowRows(w))
    BY <1>0, <2>2, <2>3, <2>4, <2>5, AcceptOrder DEF Below
  <2> QED BY <1>4, <2>1, <2>6
<1>10. \A g \in Pos : e < g => Below(r, g)
  <2>1. SUFFICES ASSUME NEW g \in Pos, e < g PROVE Below(r, g)
    OBVIOUS
  <2>2. e \in Nat /\ g \in Nat /\ e <= g
    BY <2>1 DEF Pos
  <2>3. WindowBelow(s.win, e) /\ RowsBelow(ops, e)
    BY DEF Below
  <2>4. WindowBelow(w, g)
    BY <1>0, <2>1, <2>2, <2>3, AcceptBelow
  <2>5. RowsBelow(ops, g)
    BY <1>0, <2>2, <2>3, RowsBelowGrow
  <2> QED BY <1>3, <2>4, <2>5 DEF Below
<1>11. Kept(s) \cup {e} \subseteq Kept(r)
  <2> DEFINE b == {s.buffered[i].e : i \in DOMAIN s.buffered}
  <2>1. Kept(s) = EventsOf(s.win.dirty) \cup b \cup s.unsaid \cup s.skipped
    BY Zenon DEF Kept, Pending
  <2>2. Kept(r) = EventsOf(w.dirty) \cup b \cup s.unsaid \cup s.skipped
    BY <1>3 DEF Kept, Pending
  <2> HIDE DEF b, w
  <2> QED BY <1>1, <2>1, <2>2
<1>12. SlotOK(r, st)
  BY <1>3, <1>4, <1>5, <1>6, <1>7, <1>8, <1>9 DEF SlotOK
<1>13. Settled(r, st)
  BY <1>3 DEF Settled
<1>14. r.buffered = <<>>
  BY <1>0, <1>3 DEF LifeOK
<1> QED BY <1>3, <1>4, <1>10, <1>11, <1>12, <1>13, <1>14 DEF Arrived

LEMMA SkippedOK ==
    ASSUME NEW st, NEW s, SlotOK(s, st), Settled(s, st), HasWindow(s), ~s.sealRequested,
           ~st.sealed, NEW e \in Pos, Below(s, e),
           NEW r, r = [s EXCEPT !.loss = TRUE, !.skipped = s.skipped \cup {e}]
    PROVE  Arrived(s, r, e, st)
<1>0. s \in SlotSet /\ LifeOK(s) /\ Alive(s)
  BY NotHeld DEF SlotOK
<1> DEFINE u == {e}
<1>1. u \in SUBSET Pos /\ r = [s EXCEPT !.loss = TRUE, !.skipped = s.skipped \cup u]
  OBVIOUS
<1> HIDE DEF u
<1>2. LossRaised(s, u, r, st)
  BY <1>0, <1>1, LossRaisedOK
<1>3. /\ SlotOK(r, st) /\ Settled(r, st) /\ Alive(r) /\ HasWindow(r)
      /\ r.epoch = s.epoch /\ r.call = s.call /\ r.buffered = <<>>
      /\ r.sealRequested = s.sealRequested /\ r.win = s.win /\ r.skipped = s.skipped \cup u
      /\ r.unsaid = s.unsaid
  <2>1. Step(s, r, st) /\ r.buffered = s.buffered
    BY <1>2 DEF LossRaised
  <2>2. r.unsaid = s.unsaid
    BY <1>0, <1>1 DEF SlotSet
  <2> QED BY <1>0, <1>2, <2>1, <2>2 DEF LossRaised, Step, Move, LifeOK
<1>4. \A g \in Pos : e < g => Below(r, g)
  <2>1. SUFFICES ASSUME NEW g \in Pos, e < g PROVE Below(r, g)
    OBVIOUS
  <2>2. Below(s, g)
    BY <1>0, <2>1, BelowGrow DEF Pos
  <2> QED BY <1>3, <2>2 DEF Below
<1>5. Kept(s) \cup {e} \subseteq Kept(r)
  <2>1. Pending(r) = Pending(s)
    <3>1. r.win = s.win /\ r.buffered = s.buffered
      BY <1>0, <1>3 DEF LifeOK
    <3> QED BY <3>1, Zenon DEF Pending
  <2> QED BY <1>3, <2>1 DEF Kept, u
<1> QED BY <1>3, <1>4, <1>5 DEF Arrived

(* The live slot that has a window is the only one alive.                   *)
LEMMA LiveAlone ==
    ASSUME Everything(slot), live \in Mounts, Alive(slot[live]), slot[live].call.reply # "held"
    PROVE  \A n \in Mounts \ {live} : ~Alive(slot[n]) /\ slot[n].buffered = <<>>
<1>1. SUFFICES ASSUME NEW n \in Mounts \ {live} PROVE ~Alive(slot[n]) /\ slot[n].buffered = <<>>
  OBVIOUS
<1>2. Alone(slot, live)
  BY AloneOK
<1>3. ~Alive(slot[n])
  <2>1. Alive(slot[n]) => n > live
    BY <1>2, Zenon DEF Alone
  <2>2. live = mounts /\ (n > mounts => slot[n] = Unopened)
    <3>1. live # 0
      BY DEF Mounts
    <3> QED BY <3>1, Zenon DEF Everything, Shared, MountsOK
  <2>3. Alive(slot[n]) => slot[n] # Unopened
    BY AliveIsOpened
  <2> QED BY <2>1, <2>2, <2>3
<1>4. LifeOK(slot[n])
  BY Zenon DEF Everything, Shared, Global, SlotOK
<1> QED BY <1>3, <1>4 DEF LifeOK

LEMMA ArrivedShared ==
    ASSUME Everything(slot), recorded \in Nat, ~terminal, live \in Mounts, Alive(slot[live]),
           HasWindow(slot[live]), NEW r, Arrived(slot[live], r, recorded + 1, store),
           NEW t, t = [slot EXCEPT ![live] = r]
    PROVE  Shared(t, store, recorded + 1, live, retiring, mounts, terminal)
<1>0. /\ slot \in [Mounts -> SlotSet] /\ StoreOK(store) /\ EpochsOK(slot, store)
      /\ ArrivalsOK(slot, store, recorded) /\ Accounted(slot, store, recorded)
      /\ MountsOK(slot, live, retiring, mounts) /\ \A n \in Mounts : SlotOK(slot[n], store)
      /\ store \in StoreSet
  <2>1. StoreOK(store) => store \in StoreSet
    BY DEF StoreOK
  <2> QED BY <2>1, Zenon DEF Everything, Shared, Global
<1>1. r \in SlotSet /\ t \in [Mounts -> SlotSet]
  BY <1>0 DEF Arrived, SlotOK
<1>2. t[live] = r /\ \A n \in Mounts \ {live} : t[n] = slot[n]
  BY <1>0
<1> DEFINE e == recorded + 1
<1>e. e \in Pos /\ e \in Nat /\ e + 1 \in Pos /\ e + 1 \in Nat /\ e < e + 1 /\ e <= e + 1
  BY DEF Pos
<1>r. /\ SlotOK(r, store) /\ Alive(r) /\ r.epoch = slot[live].epoch
      /\ r.call = slot[live].call /\ r.buffered = <<>>
      /\ r.sealRequested = slot[live].sealRequested
      /\ \A g \in Pos : e < g => Below(r, g)
      /\ Kept(slot[live]) \cup {e} \subseteq Kept(r)
  BY Zenon DEF Arrived
<1> HIDE DEF Mounts, e
<1>3. \A n \in Mounts : SlotOK(t[n], store)
  BY <1>0, <1>2, <1>r, Zenon
<1>4. EpochsOK(t, store)
  <2>1. \A n \in Mounts : /\ t[n].epoch = slot[n].epoch /\ (Alive(t[n]) => Alive(slot[n]))
                          /\ t[n].call = slot[n].call
    BY <1>2, <1>r, Zenon
  <2>2. \A n \in Mounts : Granted(t[n]) => Granted(slot[n])
    BY <2>1, Zenon DEF Granted
  <2> QED BY <1>0, <2>1, <2>2, EpochsSame DEF EpochsKept
<1>5. ArrivalsOK(t, store, e)
  <2>1. Newer(t, store, e + 1)
    <3>1. Newer(slot, store, e)
      BY <1>0 DEF ArrivalsOK, e
    <3>2. Newer(slot, store, e + 1)
      BY <1>0, <1>e, <3>1, NewerGrow
    <3>3. Below(r, e + 1)
      BY <1>e, <1>r
    <3> QED BY <1>2, <3>2, <3>3, Zenon DEF Newer
  <2>2. \A n \in Mounts : DOMAIN t[n].buffered = {}
    <3>1. slot[live].call.reply # "held"
      BY <1>0, NotHeld
    <3>2. \A n \in Mounts \ {live} : slot[n].buffered = <<>>
      BY <3>1, LiveAlone
    <3>3. DOMAIN <<>> = {}
      OBVIOUS
    <3> QED BY <1>2, <1>r, <3>2, <3>3, Zenon
  <2> QED BY <2>1, <2>2, Zenon DEF ArrivalsOK
<1>6. Accounted(t, store, e)
  <2>1. SUFFICES ASSUME ~store.loss, NEW x \in 1..e
                 PROVE  x \in EventsOf(store.rows) \cup UNION {Kept(t[n]) : n \in Mounts}
    BY Zenon DEF Accounted
  <2>2. x = e \/ x \in 1..recorded
    BY DEF e
  <2>3. CASE x = e
    BY <1>2, <1>r, <2>3
  <2>4. CASE x \in 1..recorded
    <3>1. x \in EventsOf(store.rows) \/ \E n \in Mounts : x \in Kept(slot[n])
      BY <1>0, <2>1, <2>4 DEF Accounted
    <3> QED BY <1>2, <1>r, <3>1
  <2> QED BY <2>2, <2>3, <2>4
<1>7. MountsOK(t, live, retiring, mounts)
  <2>1. ASSUME NEW n \in Mounts
        PROVE  /\ n > mounts => t[n] = Unopened
               /\ Alive(t[n]) => n \in {live, retiring}
               /\ (n = live /\ retiring # 0 /\ Alive(t[n])) => t[n].call.reply = "held"
               /\ t[n].call.reply = "held" => n = live /\ retiring # 0
    <3>1. /\ n > mounts => slot[n] = Unopened
          /\ Alive(slot[n]) => n \in {live, retiring}
          /\ (n = live /\ retiring # 0 /\ Alive(slot[n])) => slot[n].call.reply = "held"
          /\ slot[n].call.reply = "held" => n = live /\ retiring # 0
      BY <1>0, Zenon DEF MountsOK
    <3>2. slot[live] # Unopened
      BY AliveIsOpened
    <3>3. CASE n = live
      BY <1>2, <1>r, <3>1, <3>2, <3>3
    <3>4. CASE n # live
      BY <1>2, <3>1, <3>4
    <3> QED BY <3>3, <3>4
  <2> QED BY <1>0, <2>1, Zenon DEF MountsOK
<1>8. SealsOK(t, store, terminal)
  <2>1. SealsOK(slot, store, terminal)
    BY DEF Everything, Shared
  <2>2. live \in Mounts /\ ~terminal
    OBVIOUS
  <2>3. r.call = slot[live].call /\ r.sealRequested = slot[live].sealRequested
    BY <1>r
  <2> QED BY ONLY <1>2, <2>1, <2>2, <2>3, SealsYoung
<1> QED BY <1>0, <1>1, <1>3, <1>4, <1>5, <1>6, <1>7, <1>8 DEF Shared, Global, e

LEMMA BufferedFields ==
    ASSUME NEW b \in Seq(BufferedSet), NEW x \in BufferedSet, NEW c, c = Append(b, x)
    PROVE  /\ c \in Seq(BufferedSet) /\ Len(b) \in Nat /\ DOMAIN b = 1..Len(b)
           /\ DOMAIN c = 1..(Len(b) + 1) /\ c[Len(b) + 1] = x
           /\ \A i \in DOMAIN b : c[i] = b[i]
           /\ \A i \in DOMAIN c : (i \in DOMAIN b /\ c[i] = b[i]) \/ (i = Len(b) + 1 /\ c[i] = x)
OBVIOUS

(* A slot without a window buffers an event. *)
LEMMA BufferedOK ==
    ASSUME NEW st, NEW s, SlotOK(s, st), Settled(s, st), Alive(s), ~HasWindow(s),
           NEW x \in BufferedSet, NEW r, r = [s EXCEPT !.buffered = Append(@, x)]
    PROVE  /\ SlotOK(r, st) /\ Settled(r, st) /\ Alive(r)
           /\ r.epoch = s.epoch /\ r.call = s.call /\ r.win = s.win
           /\ r.sealRequested = s.sealRequested /\ r.buffered = Append(s.buffered, x)
           /\ Kept(s) \cup {x.e} \subseteq Kept(r)
<1> DEFINE c == Append(s.buffered, x)
<1>0. s \in SlotSet /\ LifeOK(s) /\ CallOK(s, st) /\ s.buffered \in Seq(BufferedSet)
  BY SlotFields DEF SlotOK
<1>1. /\ c \in Seq(BufferedSet) /\ Len(s.buffered) \in Nat
      /\ DOMAIN s.buffered = 1..Len(s.buffered)
      /\ DOMAIN c = 1..(Len(s.buffered) + 1) /\ c[Len(s.buffered) + 1] = x
      /\ \A i \in DOMAIN s.buffered : c[i] = s.buffered[i]
  BY <1>0, BufferedFields
<1>2. r = [s EXCEPT !.buffered = c]
  OBVIOUS
<1> HIDE DEF c
<1>3. /\ r \in SlotSet /\ r.buffered = c
      /\ r.state = s.state /\ r.win = s.win
      /\ r.epoch = s.epoch /\ r.expected = s.expected
      /\ r.timer = s.timer /\ r.loss = s.loss /\ r.call = s.call
      /\ r.note = s.note /\ r.skipped = s.skipped
      /\ r.sealRequested = s.sealRequested /\ r.unsaid = s.unsaid
  BY ONLY <1>0, <1>1, <1>2 DEF SlotSet
<1>4. Alive(r) /\ ~HasWindow(r) /\ ~InForce(r, st)
  BY <1>0, <1>3 DEF Alive, HasWindow, InForce, LifeOK
<1>5. LifeOK(r)
  BY <1>0, <1>3, <1>4 DEF LifeOK
<1>6. CallOK(r, st)
  BY <1>0, <1>3, <1>4 DEF CallOK
<1>7. r.call.kind # "append"
  BY <1>0, <1>3, <1>4 DEF CallOK
<1>8. SlotOK(r, st)
  BY <1>3, <1>4, <1>5, <1>6, <1>7 DEF SlotOK
<1>9. Settled(r, st)
  BY <1>3 DEF Settled
<1>10. Kept(s) \cup {x.e} \subseteq Kept(r)
  <2> DEFINE b == {s.buffered[i].e : i \in DOMAIN s.buffered}
             d == {c[i].e : i \in DOMAIN c}
  <2>1. Kept(s) = EventsOf(s.win.dirty) \cup b \cup s.unsaid \cup s.skipped
    BY Zenon DEF Kept, Pending
  <2>2. Kept(r) = EventsOf(s.win.dirty) \cup d \cup s.unsaid \cup s.skipped
    BY <1>3 DEF Kept, Pending
  <2>3. b \subseteq d /\ x.e \in d
    <3>1. \A i \in DOMAIN s.buffered : i \in DOMAIN c /\ c[i] = s.buffered[i]
      BY <1>1
    <3>2. Len(s.buffered) + 1 \in DOMAIN c /\ c[Len(s.buffered) + 1] = x
      BY <1>1
    <3>3. b \subseteq d
      BY <3>1
    <3>4. x.e \in d
      BY <3>2
    <3> QED BY <3>3, <3>4
  <2> HIDE DEF b, d
  <2> QED BY <2>1, <2>2, <2>3
<1> QED BY <1>3, <1>4, <1>8, <1>9, <1>10 DEF c

LEMMA BufferedShared ==
    ASSUME Everything(slot), recorded \in Nat, ~terminal, live \in Mounts, Alive(slot[live]),
           ~HasWindow(slot[live]),
           NEW x \in BufferedSet, x.e = recorded + 1,
           NEW r, r = [slot[live] EXCEPT !.buffered = Append(@, x)],
           SlotOK(r, store), Alive(r), r.epoch = slot[live].epoch, r.call = slot[live].call,
           r.win = slot[live].win, r.sealRequested = slot[live].sealRequested,
           r.buffered = Append(slot[live].buffered, x), Kept(slot[live]) \cup {x.e} \subseteq Kept(r),
           NEW t, t = [slot EXCEPT ![live] = r]
    PROVE  Shared(t, store, recorded + 1, live, retiring, mounts, terminal)
<1>0. /\ slot \in [Mounts -> SlotSet] /\ StoreOK(store) /\ EpochsOK(slot, store)
      /\ ArrivalsOK(slot, store, recorded) /\ Accounted(slot, store, recorded)
      /\ MountsOK(slot, live, retiring, mounts) /\ \A n \in Mounts : SlotOK(slot[n], store)
      /\ store \in StoreSet
  <2>1. StoreOK(store) => store \in StoreSet
    BY DEF StoreOK
  <2> QED BY <2>1, Zenon DEF Everything, Shared, Global
<1>1. r \in SlotSet /\ t \in [Mounts -> SlotSet]
  BY <1>0 DEF SlotOK
<1>2. t[live] = r /\ \A n \in Mounts \ {live} : t[n] = slot[n]
  BY <1>0
<1> DEFINE e == recorded + 1
           b == slot[live].buffered
           last == Len(slot[live].buffered) + 1
<1>e. /\ e \in Pos /\ e \in Nat /\ e + 1 \in Nat /\ e <= e + 1 /\ e <= recorded + 1
      /\ recorded < e /\ recorded <= e
  BY DEF Pos
<1>n. live = mounts /\ \A n \in Mounts : n \in Nat
  <2>1. live # 0 /\ \A n \in Mounts : n \in Nat
    BY DEF Mounts
  <2> QED BY <1>0, <2>1, Zenon DEF MountsOK
<1>b. /\ b \in Seq(BufferedSet) /\ Len(b) \in Nat /\ DOMAIN b = 1..Len(b)
      /\ DOMAIN r.buffered = 1..last /\ r.buffered[last] = x
      /\ \A i \in DOMAIN r.buffered : (i \in DOMAIN b /\ r.buffered[i] = b[i])
                                      \/ (i = last /\ r.buffered[i] = x)
  <2>1. b \in Seq(BufferedSet)
    BY <1>0, SlotFields
  <2> DEFINE c == Append(b, x)
  <2>2. /\ Len(b) \in Nat /\ DOMAIN b = 1..Len(b)
        /\ DOMAIN c = 1..(Len(b) + 1) /\ c[Len(b) + 1] = x
        /\ \A i \in DOMAIN c :
              (i \in DOMAIN b /\ c[i] = b[i]) \/ (i = Len(b) + 1 /\ c[i] = x)
    <3>1. c = Append(b, x) /\ x \in BufferedSet
      OBVIOUS
    <3> HIDE DEF b, c
    <3> QED BY <2>1, <3>1, BufferedFields
  <2>3. r.buffered = c /\ last = Len(b) + 1
    BY DEF last
  <2> HIDE DEF b, c, last
  <2> QED BY <2>1, <2>2, <2>3, Zenon
<1>x. x.e = e
  OBVIOUS
<1> HIDE DEF Mounts, e, b
<1>3. \A n \in Mounts : SlotOK(t[n], store)
  BY <1>0, <1>2, Zenon
<1>4. EpochsOK(t, store)
  <2>1. \A n \in Mounts : /\ t[n].epoch = slot[n].epoch /\ (Alive(t[n]) => Alive(slot[n]))
                          /\ t[n].call = slot[n].call
    BY <1>2, Zenon
  <2>2. \A n \in Mounts : Granted(t[n]) => Granted(slot[n])
    BY <2>1, Zenon DEF Granted
  <2> QED BY <1>0, <2>1, <2>2, EpochsSame DEF EpochsKept
<1>5. ArrivalsOK(t, store, e)
  <2>1. \A g : Newer(slot, store, g) => Newer(t, store, g)
    <3>1. \A g : Below(slot[live], g) => Below(r, g)
      BY DEF Below
    <3> QED BY <1>2, <3>1, Zenon DEF Newer
  <2>2. Newer(slot, store, e)
    BY <1>0 DEF ArrivalsOK, e
  <2>3. Newer(t, store, e + 1)
    BY <1>0, <1>e, <2>1, <2>2, NewerGrow
  <2>4. \A n \in Mounts : \A i \in DOMAIN t[n].buffered :
           \/ i \in DOMAIN slot[n].buffered /\ t[n].buffered[i] = slot[n].buffered[i]
           \/ n = live /\ i = last /\ t[n].buffered[i] = x
    BY <1>2, <1>b, Zenon DEF b
  <2>5. \A n \in Mounts : \A i \in DOMAIN slot[n].buffered :
           /\ n <= live
           /\ slot[n].buffered[i].e <= recorded /\ slot[n].buffered[i].e \in Nat
    <3>1. SUFFICES ASSUME NEW n \in Mounts, NEW i \in DOMAIN slot[n].buffered
                   PROVE  /\ n <= live
                          /\ slot[n].buffered[i].e <= recorded /\ slot[n].buffered[i].e \in Nat
      BY Zenon
    <3>2. slot[n].buffered[i].e <= recorded
      BY <1>0, Zenon DEF ArrivalsOK
    <3>3. slot[n].buffered[i].e \in Nat
      <4>1. slot[n].buffered \in Seq(BufferedSet)
        BY <1>0, SlotFields
      <4>2. slot[n].buffered[i] \in BufferedSet
        BY <4>1
      <4> QED BY <4>2 DEF BufferedSet, Pos
    <3>4. n <= live
      <4>1. n > mounts => slot[n] = Unopened
        BY <1>0, Zenon DEF MountsOK
      <4>2. Unopened.buffered = <<>> /\ DOMAIN <<>> = {}
        BY UnopenedFields
      <4>3. ~(n > mounts)
        BY <4>1, <4>2
      <4> QED BY <1>n, <4>3
    <3> QED BY <3>2, <3>3, <3>4
  <2>6. ASSUME NEW n \in Mounts, NEW i \in DOMAIN t[n].buffered
        PROVE  LET c == t[n].buffered[i].e
               IN /\ c <= e /\ Newer(t, store, c)
                  /\ \A j \in DOMAIN t[n].buffered : i < j => c < t[n].buffered[j].e
                  /\ \A k \in Mounts : \A j \in DOMAIN t[k].buffered :
                        k < n => t[k].buffered[j].e < c
    <3>1. CASE i \in DOMAIN slot[n].buffered /\ t[n].buffered[i] = slot[n].buffered[i]
      <4> DEFINE c == slot[n].buffered[i].e
      <4>1. /\ c <= recorded /\ c \in Nat /\ Newer(slot, store, c) /\ n <= live
            /\ \A j \in DOMAIN slot[n].buffered : i < j => c < slot[n].buffered[j].e
            /\ \A k \in Mounts : \A j \in DOMAIN slot[k].buffered :
                  k < n => slot[k].buffered[j].e < c
        BY <1>0, <2>5, <3>1, Zenon DEF ArrivalsOK
      <4>2. t[n].buffered[i].e = c
        BY <3>1
      <4> HIDE DEF c
      <4>3. c <= e /\ c < e /\ Newer(t, store, c)
        <5>1. Newer(t, store, c)
          BY <2>1, <4>1, Zenon
        <5>2. c <= e /\ c < e
          <6>1. c <= recorded /\ c \in Nat
            BY <4>1, Zenon
          <6> QED BY <1>e, <6>1
        <5> QED BY <5>1, <5>2
      <4>4. \A j \in DOMAIN t[n].buffered : i < j => c < t[n].buffered[j].e
        BY <1>x, <2>4, <4>1, <4>3, Zenon
      <4>5. \A k \in Mounts : \A j \in DOMAIN t[k].buffered : k < n => t[k].buffered[j].e < c
        <5>1. ~(live < n)
          BY <1>n, <4>1
        <5> QED BY <2>4, <4>1, <5>1, Zenon
      <4> QED BY <4>2, <4>3, <4>4, <4>5
    <3>2. CASE n = live /\ i = last /\ t[n].buffered[i] = x
      <4>1. t[n].buffered[i].e = e /\ e <= e /\ Newer(t, store, e)
        BY <1>e, <1>x, <2>1, <2>2, <3>2
      <4>2. \A j \in DOMAIN t[n].buffered : ~(i < j)
        BY <1>2, <1>b, <3>2
      <4>3. \A k \in Mounts : \A j \in DOMAIN t[k].buffered : k < n => t[k].buffered[j].e < e
        <5>1. SUFFICES ASSUME NEW k \in Mounts, NEW j \in DOMAIN t[k].buffered, k < n
                       PROVE  t[k].buffered[j].e < e
          BY Zenon
        <5>2. k # live
          BY <1>n, <3>2, <5>1
        <5>3. j \in DOMAIN slot[k].buffered /\ t[k].buffered[j] = slot[k].buffered[j]
          BY <2>4, <5>2, Zenon
        <5>4. slot[k].buffered[j].e <= recorded /\ slot[k].buffered[j].e \in Nat
          BY <2>5, <5>3
        <5> QED BY <1>e, <5>3, <5>4
      <4> QED BY <4>1, <4>2, <4>3
    <3> QED BY <2>4, <2>6, <3>1, <3>2, Zenon
  <2> QED BY <2>3, <2>6, Zenon DEF ArrivalsOK
<1>6. Accounted(t, store, e)
  <2>1. SUFFICES ASSUME ~store.loss, NEW y \in 1..e
                 PROVE  y \in EventsOf(store.rows) \cup UNION {Kept(t[n]) : n \in Mounts}
    BY Zenon DEF Accounted
  <2>2. y = e \/ y \in 1..recorded
    BY DEF e
  <2>3. CASE y = e
    BY <1>2, <1>x, <2>3
  <2>4. CASE y \in 1..recorded
    <3>1. y \in EventsOf(store.rows) \/ \E n \in Mounts : y \in Kept(slot[n])
      BY <1>0, <2>1, <2>4 DEF Accounted
    <3> QED BY <1>2, <3>1
  <2> QED BY <2>2, <2>3, <2>4
<1>7. MountsOK(t, live, retiring, mounts)
  <2>1. ASSUME NEW n \in Mounts
        PROVE  /\ n > mounts => t[n] = Unopened
               /\ Alive(t[n]) => n \in {live, retiring}
               /\ (n = live /\ retiring # 0 /\ Alive(t[n])) => t[n].call.reply = "held"
               /\ t[n].call.reply = "held" => n = live /\ retiring # 0
    <3>1. /\ n > mounts => slot[n] = Unopened
          /\ Alive(slot[n]) => n \in {live, retiring}
          /\ (n = live /\ retiring # 0 /\ Alive(slot[n])) => slot[n].call.reply = "held"
          /\ slot[n].call.reply = "held" => n = live /\ retiring # 0
      BY <1>0, Zenon DEF MountsOK
    <3>2. slot[live] # Unopened
      BY AliveIsOpened
    <3>3. CASE n = live
      BY <1>2, <3>1, <3>2, <3>3
    <3>4. CASE n # live
      BY <1>2, <3>1, <3>4
    <3> QED BY <3>3, <3>4
  <2> QED BY <1>0, <2>1, Zenon DEF MountsOK
<1>8. SealsOK(t, store, terminal)
  <2>1. SealsOK(slot, store, terminal)
    BY DEF Everything, Shared
  <2>2. /\ r.call = slot[live].call /\ r.sealRequested = slot[live].sealRequested
        /\ ~terminal /\ live \in Mounts
    OBVIOUS
  <2> QED BY ONLY <1>2, <2>1, <2>2, SealsYoung
<1>9. Global(t, store, e)
  BY <1>0, <1>1, <1>3, <1>4, <1>5, <1>6 DEF Global
<1> QED BY <1>7, <1>8, <1>9 DEF Shared, e

LEMMA RecordBuffered ==
    ASSUME Inv, NEW kind \in EventKinds, ~terminal, live \in Mounts, Alive(slot[live]),
           ~HasWindow(slot[live]), recorded < MaxEvents, recorded' = recorded + 1,
           SlotBecomes(live, [slot[live] EXCEPT !.buffered =
                                 Append(@, [kind |-> kind, e |-> recorded + 1])]),
           UNCHANGED <<store, Surroundings, terminal, disturbed>>
    PROVE  Inv'
<1> DEFINE s == slot[live]
           x == [kind |-> kind, e |-> recorded + 1]
           r == [s EXCEPT !.buffered = Append(@, x)]
           t == [slot EXCEPT ![live] = r]
<1>1. /\ Everything(slot) /\ recorded \in Nat /\ terminal \in BOOLEAN /\ MaxEvents \in Nat
      /\ disturbed \in 0..MaxDisturbances /\ SlotOK(s, store) /\ Settled(s, store)
  BY InvParts, Zenon
<1>2. x \in BufferedSet /\ x.e = recorded + 1
  BY <1>1 DEF BufferedSet, Pos
<1>3. SlotBecomes(live, r) /\ r = [s EXCEPT !.buffered = Append(@, x)] /\ t = [slot EXCEPT ![live] = r]
  OBVIOUS
<1> HIDE DEF x, r, t
<1>4. /\ SlotOK(r, store) /\ Settled(r, store) /\ Alive(r)
      /\ r.epoch = s.epoch /\ r.call = s.call /\ r.win = s.win
      /\ r.sealRequested = s.sealRequested /\ r.buffered = Append(s.buffered, x)
      /\ Kept(s) \cup {x.e} \subseteq Kept(r)
  <2>1. SlotOK(s, store) /\ Settled(s, store) /\ Alive(s) /\ ~HasWindow(s)
    BY <1>1
  <2> HIDE DEF s
  <2> QED BY ONLY <1>2, <1>3, <2>1, BufferedOK
<1>5. Shared(t, store, recorded + 1, live, retiring, mounts, terminal)
  BY <1>1, <1>2, <1>3, <1>4, BufferedShared
<1>6. /\ UNCHANGED <<store, Surroundings>> /\ recorded' \in 0..MaxEvents
      /\ terminal' \in BOOLEAN /\ disturbed' \in 0..MaxDisturbances
  BY <1>1
<1>7. Shared([slot EXCEPT ![live] = r], store, recorded', live, retiring, mounts, terminal')
  BY <1>3, <1>5
<1> QED BY <1>3, <1>4, <1>6, <1>7, BecomesInv

LEMMA RecordArrived ==
    ASSUME Inv, ~terminal, live \in Mounts, Alive(slot[live]), HasWindow(slot[live]),
           NEW t, Arrived(slot[live], t, recorded + 1, store),
           NEW urgent \in BOOLEAN, NEW r \in ScheduleFlush(t, urgent), SlotBecomes(live, r),
           recorded < MaxEvents, recorded' = recorded + 1,
           UNCHANGED <<store, Surroundings, terminal, disturbed>>
    PROVE  Inv'
<1> DEFINE u == [slot EXCEPT ![live] = t]
           v == [u EXCEPT ![live] = r]
<1>1. /\ Everything(slot) /\ recorded \in Nat /\ terminal \in BOOLEAN /\ MaxEvents \in Nat
      /\ disturbed \in 0..MaxDisturbances /\ store \in StoreSet /\ gen \in Nat
      /\ slot \in [Mounts -> SlotSet]
  BY InvParts, Zenon
<1>2. /\ u = [slot EXCEPT ![live] = t] /\ v = [u EXCEPT ![live] = r]
      /\ u[live] = t /\ v = [slot EXCEPT ![live] = r]
  BY <1>1
<1> HIDE DEF u, v
<1>3. Shared(u, store, recorded + 1, live, retiring, mounts, terminal)
  BY <1>1, <1>2, ArrivedShared
<1>4. SlotOK(t, store) /\ Settled(t, store) /\ t # Unopened
  BY AliveIsOpened DEF Arrived
<1>5. Good(t, r, store)
  BY <1>1, <1>4, ScheduleFlushOK
<1>7. Shared(v, store, recorded + 1, live, retiring, mounts, terminal)
  <2> DEFINE e == recorded + 1
  <2>1. Shared(u, store, e, live, retiring, mounts, terminal) /\ e \in Nat
    BY <1>1, <1>3
  <2> HIDE DEF e
  <2>2. u[live] # Unopened /\ SlotOK(r, store) /\ Step(u[live], r, store)
    BY <1>2, <1>4, <1>5 DEF Good
  <2>3. v = [u EXCEPT ![live] = r]
    BY <1>2
  <2>4. Shared(v, store, e, live, retiring, mounts, terminal)
    BY <2>1, <2>2, <2>3, SharedStep
  <2> QED BY <2>4 DEF e
<1>8. Shared([slot EXCEPT ![live] = r], store, recorded', live, retiring, mounts, terminal')
  BY <1>2, <1>7
<1>9. /\ UNCHANGED <<store, Surroundings>> /\ recorded' \in 0..MaxEvents
      /\ terminal' \in BOOLEAN /\ disturbed' \in 0..MaxDisturbances
  BY <1>1
<1> QED BY <1>5, <1>8, <1>9, BecomesInv DEF Good

LEMMA RecordEventsInv ==
    ASSUME Inv, NEW kind \in Kinds, RecordEvents(kind)
    PROVE  Inv'
<1> DEFINE s == slot[live]
           e == recorded + 1
           accepted == [s EXCEPT !.win = AcceptEvent(s.win, kind, e)]
           skipped == [s EXCEPT !.loss = TRUE, !.skipped = s.skipped \cup {e}]
<1>1. /\ kind \in EventKinds /\ Alive(s) /\ recorded < MaxEvents /\ recorded' = recorded + 1
      /\ UNCHANGED <<store, Surroundings, terminal, disturbed>> /\ ~terminal /\ live # 0
  BY TurnLogAssumption DEF RecordEvents
<1>2. live \in Mounts
  BY <1>1, InvParts, Zenon DEF MountsOK
<1>3. /\ SlotOK(s, store) /\ Settled(s, store) /\ StoreOK(store) /\ recorded \in Nat
      /\ ~s.sealRequested /\ ~store.sealed
  <2>1. ~s.sealRequested /\ ~store.sealed
    BY <1>1, <1>2, InvSeals, Zenon
  <2> QED BY <1>2, <2>1, InvParts, Zenon
<1>4. e \in Pos /\ Below(s, e) /\ StoreBelow(store, e)
  <2>1. Newer(slot, store, recorded + 1)
    BY Zenon DEF Inv, Shared, Global, ArrivalsOK
  <2> HIDE DEF Mounts
  <2> QED BY <1>2, <1>3, <2>1 DEF Newer, Pos
<1>5. CASE ~HasWindow(s)
  <2>1. SlotBecomes(live, [s EXCEPT !.buffered = Append(@, [kind |-> kind, e |-> recorded + 1])])
    BY <1>5 DEF RecordEvents
  <2> QED BY <1>1, <1>2, <1>5, <2>1, RecordBuffered
<1>6. CASE HasWindow(s)
  <2>1. PICK urgent \in BOOLEAN :
           \E r \in ScheduleFlush(IF kind = "oversized" THEN skipped ELSE accepted, urgent) :
               SlotBecomes(live, r)
    BY <1>6, Zenon DEF RecordEvents
  <2>2. /\ accepted = [s EXCEPT !.win = AcceptEvent(s.win, kind, e)]
        /\ skipped = [s EXCEPT !.loss = TRUE, !.skipped = s.skipped \cup {e}]
    OBVIOUS
  <2> DEFINE t == IF kind = "oversized" THEN skipped ELSE accepted
  <2>3. PICK r \in ScheduleFlush(t, urgent) : SlotBecomes(live, r)
    BY <2>1
  <2> HIDE DEF accepted, skipped, s
  <2>4. Arrived(s, t, e, store)
    <3>1. CASE kind = "oversized"
      <4>1. Arrived(s, skipped, e, store)
        BY <1>3, <1>4, <1>6, <2>2, SkippedOK
      <4> QED BY <3>1, <4>1
    <3>2. CASE kind # "oversized"
      <4> HIDE DEF e
      <4>1. Arrived(s, accepted, e, store)
        BY <1>1, <1>3, <1>4, <1>6, <2>2, <3>2, AcceptedOK
      <4> QED BY <3>2, <4>1
    <3> QED BY <3>1, <3>2
  <2> HIDE DEF t
  <2> QED BY <1>1, <1>2, <1>6, <2>3, <2>4, RecordArrived DEF s
<1> QED BY <1>5, <1>6

----------------------------------------------------------------------------
(* The store executes a call, which it answers. *)

LEMMA MountsSame ==
    ASSUME NEW sl, NEW t, NEW lv, NEW rt, NEW mt, MountsOK(sl, lv, rt, mt),
           \A n \in Mounts : /\ sl[n] = Unopened => t[n] = Unopened
                             /\ Alive(t[n]) => Alive(sl[n])
                             /\ t[n].call.reply = "held" => sl[n].call.reply = "held"
                             /\ (sl[n].call.reply = "held" /\ Alive(t[n])) => t[n].call.reply = "held"
    PROVE  MountsOK(t, lv, rt, mt)
<1> HIDE DEF Mounts
<1>1. ASSUME NEW n \in Mounts
      PROVE  /\ n > mt => t[n] = Unopened
             /\ Alive(t[n]) => n \in {lv, rt}
             /\ (n = lv /\ rt # 0 /\ Alive(t[n])) => t[n].call.reply = "held"
             /\ t[n].call.reply = "held" => n = lv /\ rt # 0
  <2>1. /\ n > mt => sl[n] = Unopened
        /\ Alive(sl[n]) => n \in {lv, rt}
        /\ (n = lv /\ rt # 0 /\ Alive(sl[n])) => sl[n].call.reply = "held"
        /\ sl[n].call.reply = "held" => n = lv /\ rt # 0
    BY Zenon DEF MountsOK
  <2> QED BY <2>1
<1> QED BY <1>1, Zenon DEF MountsOK

(* A slot gets an answer, and takes no notice of it yet.                    *)
Answers(s, r) ==
    /\ Alive(r) = Alive(s) /\ r.epoch = s.epoch /\ r.win = s.win /\ r.buffered = s.buffered
    /\ r.skipped = s.skipped /\ r.unsaid = s.unsaid
    /\ r.sealRequested = s.sealRequested
    /\ r.call.ops = s.call.ops
    /\ r.call.reply = "held" <=> s.call.reply = "held"

(* The log grows, by rows that were under way.                              *)
Grows(st, su, sl) ==
    /\ \A e \in Pos : Newer(sl, st, e) => StoreBelow(su, e)
    /\ su.loss \/ (~st.loss /\ EventsOf(st.rows) \subseteq EventsOf(su.rows))

LEMMA ExecuteInv ==
    ASSUME Inv, NEW m \in Mounts, slot[m] # Unopened, NEW r, Answers(slot[m], r),
           NEW t, t = [slot EXCEPT ![m] = r], NEW su, StoreOK(su), Grows(store, su, slot),
           \A n \in Mounts : SlotOK(t[n], su) /\ Settled(t[n], su), EpochsOK(t, su),
           SealsOK(t, su, terminal), slot' = t, store' = su, UNCHANGED <<Surroundings, openRequest, recorded, terminal>>,
           disturbed' \in 0..MaxDisturbances
    PROVE  Inv'
<1>0. /\ slot \in [Mounts -> SlotSet] /\ recorded \in Nat /\ ArrivalsOK(slot, store, recorded)
      /\ Accounted(slot, store, recorded) /\ MountsOK(slot, live, retiring, mounts)
  BY InvParts, Zenon DEF Inv, Shared, Global
<1>1. t[m] = r /\ \A n \in Mounts \ {m} : t[n] = slot[n]
  BY <1>0
<1>2. t \in [Mounts -> SlotSet]
  <2>1. SlotOK(r, su)
    BY <1>1
  <2> QED BY <1>0, <2>1 DEF SlotOK
<1> HIDE DEF Mounts
<1>3. ArrivalsOK(t, su, recorded)
  <2>1. \A n \in Mounts : t[n].buffered \in {slot[n].buffered, <<>>}
    BY <1>1 DEF Answers
  <2>2. \A e \in Pos : Newer(slot, store, e) => Newer(t, su, e)
    <3>1. \A e : Below(slot[m], e) => Below(r, e)
      BY DEF Answers, Below
    <3> QED BY <1>1, <3>1, Zenon DEF Newer, Grows
  <2> QED BY <1>0, <2>1, <2>2, ArrivalsSame
<1>4. Accounted(t, su, recorded)
  <2>1. Kept(r) = Kept(slot[m])
    <3>1. Pending(r) = Pending(slot[m])
      BY Zenon DEF Answers, Pending
    <3> QED BY <3>1 DEF Answers, Kept
  <2>2. \A n \in Mounts : Kept(slot[n]) \subseteq EventsOf(su.rows) \cup Kept(t[n])
    BY <1>1, <2>1
  <2> QED BY <1>0, <2>2, AccountedSame DEF Grows
<1>5. MountsOK(t, live, retiring, mounts)
  <2>1. \A n \in Mounts : /\ slot[n] = Unopened => t[n] = Unopened
                          /\ Alive(t[n]) => Alive(slot[n])
                          /\ t[n].call.reply = "held" => slot[n].call.reply = "held"
                          /\ (slot[n].call.reply = "held" /\ Alive(t[n])) => t[n].call.reply = "held"
    BY <1>1, Zenon DEF Answers
  <2> QED BY <1>0, <2>1, MountsSame
<1>7. Shared(t, su, recorded, live, retiring, mounts, terminal)
  BY <1>2, <1>3, <1>4, <1>5, Zenon DEF Shared, Global
<1>8. /\ live' = live /\ retiring' = retiring /\ mounts' = mounts /\ gen' = gen
      /\ openRequest' = openRequest /\ recorded' = recorded /\ terminal' = terminal
  BY DEF Surroundings
<1>9. Scalars'
  BY <1>8 DEF Inv, Scalars
<1> QED BY <1>7, <1>8, <1>9, Zenon DEF Inv

(* The answer says no more of the seal than the store does.                 *)
AnswersSeal(s, r, st) ==
    r.call.kind = "append" => /\ s.call.kind = "append" /\ (r.call.seal => s.call.seal)
                              /\ r.call.reply = "sealed" => st.sealed

LEMMA SameRowsSeals ==
    ASSUME NEW st, NEW sl, NEW term, SealsOK(sl, st, term), NEW m \in Mounts,
           NEW r, Answers(sl[m], r), AnswersSeal(sl[m], r, st),
           NEW t, t[m] = r, \A n \in Mounts \ {m} : t[n] = sl[n],
           NEW su, su.rows = st.rows, su.sealed = st.sealed, st.loss => su.loss
    PROVE  SealsOK(t, su, term)
<1> HIDE DEF Mounts
<1>1. \A n \in Mounts : SealOK(sl[n], st)
  BY Zenon DEF SealsOK
<1>2. \A n \in Mounts : t[n].sealRequested = sl[n].sealRequested
                          /\ t[n].buffered = sl[n].buffered /\ t[n].epoch = sl[n].epoch
  BY Zenon DEF Answers
<1>3. ASSUME NEW n \in Mounts PROVE SealOK(t[n], su)
  <2>1. /\ Alive(t[n]) => Alive(sl[n])
        /\ Spared(sl[n], st) => Spared(t[n], su)
        /\ t[n].win = sl[n].win
    <3>1. /\ Alive(t[n]) => Alive(sl[n])
          /\ t[n].win = sl[n].win /\ t[n].skipped = sl[n].skipped
          /\ t[n].unsaid = sl[n].unsaid
      BY Zenon DEF Answers
    <3>2. Pending(t[n]) = Pending(sl[n])
      BY <1>2, <3>1, PendingSame
    <3> QED BY <3>1, <3>2 DEF Spared
  <2>2. t[n].call.kind = "append" =>
          /\ sl[n].call.kind = "append" /\ (t[n].call.seal => sl[n].call.seal)
          /\ t[n].call.ops = sl[n].call.ops
          /\ t[n].call.reply = "sealed" => st.sealed
    <3>1. CASE n = m
      BY <3>1 DEF Answers, AnswersSeal
    <3>2. CASE n # m
      <4>1. t[n] = sl[n] /\ SealOK(sl[n], st)
        BY <1>1, <3>2
      <4> QED BY <4>1 DEF SealOK
    <3> QED BY <3>1, <3>2
  <2>3. SealOK(sl[n], st)
    BY <1>1
  <2> QED BY <1>2, <2>1, <2>2, <2>3 DEF SealOK
<1>4. ~term => ~su.sealed /\ \A n \in Mounts : ~t[n].sealRequested
  BY <1>2, Zenon DEF SealsOK
<1>5. \A k \in Mounts : \A n \in Mounts \ {k} :
        t[k].sealRequested => t[n].buffered = <<>> \/ (n < k /\ t[k].epoch = 0)
  <2>1. \A k \in Mounts : \A n \in Mounts \ {k} :
          sl[k].sealRequested => sl[n].buffered = <<>> \/ (n < k /\ sl[k].epoch = 0)
    BY DEF SealsOK
  <2> QED BY <1>2, <2>1
<1> QED BY <1>3, <1>4, <1>5, Zenon DEF SealsOK

LEMMA SlotStore ==
    ASSUME NEW st \in StoreSet, NEW su \in StoreSet, NEW s, SlotOK(s, st),
           st.epoch <= su.epoch, st.loss => su.loss,
           ~InForce(s, su) \/ (su.rows = st.rows /\ su.next = st.next)
    PROVE  SlotOK(s, su) /\ (InForce(s, su) => InForce(s, st))
<1>0. /\ s \in SlotSet /\ LifeOK(s) /\ CallOK(s, st) /\ s.epoch \in Nat
      /\ st.epoch \in Nat /\ su.epoch \in Nat /\ s.call \in CallSet /\ s.note \in CallSet
      /\ s.call.epoch \in Nat /\ s.note.epoch \in Nat /\ s.epoch <= st.epoch
  <2>1. s \in SlotSet /\ LifeOK(s) /\ CallOK(s, st)
    BY DEF SlotOK
  <2>2. s.epoch \in Nat /\ s.call \in CallSet /\ s.note \in CallSet
    BY <2>1, SlotFields
  <2>3. s.call.epoch \in Nat /\ s.note.epoch \in Nat
    BY <2>2, CallFields
  <2> QED BY <2>1, <2>2, <2>3, StoreFields DEF CallOK
<1>1. InForce(s, su) => InForce(s, st)
  BY <1>0 DEF InForce
<1>2. CallOK(s, su)
  <2>1. s.epoch <= su.epoch /\ s.call.epoch <= su.epoch /\ s.note.epoch <= su.epoch
    BY <1>0 DEF CallOK
  <2> QED BY <1>0, <2>1 DEF CallOK
<1>3. s.call.kind = "append" => AppendOK(s, s.call, su)
  BY <1>1 DEF SlotOK, AppendOK
<1>4. (Alive(s) /\ HasWindow(s)) => WindowOK(s, s.call.ops, su)
  <2>1. SUFFICES ASSUME Alive(s), HasWindow(s) PROVE WindowOK(s, s.call.ops, su)
    OBVIOUS
  <2>2. InForce(s, su)
    BY <1>0, <2>1 DEF InForce, LifeOK
  <2>3. WindowOK(s, s.call.ops, st)
    BY <2>1 DEF SlotOK
  <2> QED BY <2>2, <2>3 DEF WindowOK
<1>5. InForce(s, su) => InOrder(SlotVersions(s, s.call.ops, su))
  BY <1>1 DEF SlotOK, SlotVersions
<1> QED BY <1>0, <1>1, <1>2, <1>3, <1>4, <1>5 DEF SlotOK

(* The call of a slot gets the answer c.                                    *)
LEMMA AnswerOK ==
    ASSUME NEW st, NEW s, SlotOK(s, st), s.call.reply = "sent",
           NEW c \in CallSet, c.kind = s.call.kind, c.ops = s.call.ops, c.epoch <= st.epoch,
           c.reply \notin {"none", "held", "sent"},
           c.kind = "append" => AppendOK(s, c, st),
           NEW r, r = [s EXCEPT !.call = c]
    PROVE  SlotOK(r, st) /\ Settled(r, st) /\ Answers(s, r) /\ r.call = c
<1>0. s \in SlotSet /\ LifeOK(s) /\ CallOK(s, st)
  BY DEF SlotOK
<1>1. /\ r \in SlotSet /\ r.call = c
      /\ r.state = s.state /\ r.win = s.win /\ r.buffered = s.buffered
      /\ r.epoch = s.epoch /\ r.expected = s.expected
      /\ r.timer = s.timer /\ r.loss = s.loss
      /\ r.note = s.note /\ r.skipped = s.skipped
      /\ r.sealRequested = s.sealRequested /\ r.unsaid = s.unsaid
  BY ONLY <1>0, c \in CallSet, r = [s EXCEPT !.call = c] DEF SlotSet
<1>2. s.call # NoCall /\ c # NoCall /\ s.call.kind # "none"
  BY <1>0, NoCallFields DEF CallOK
<1>3. Alive(r) = Alive(s) /\ HasWindow(r) = HasWindow(s) /\ InForce(r, st) = InForce(s, st)
  BY <1>1, Zenon DEF Alive, HasWindow, InForce
<1>4. LifeOK(r)
  BY <1>0, <1>1, <1>2, <1>3 DEF LifeOK
<1>5. CallOK(r, st)
  BY <1>0, <1>1, <1>2, <1>3 DEF CallOK
<1>6. r.call.kind = "append" => AppendOK(r, r.call, st)
  BY <1>1, <1>3 DEF AppendOK
<1>7. (Alive(r) /\ HasWindow(r)) => WindowOK(r, r.call.ops, st)
  BY <1>1, <1>3 DEF SlotOK, WindowOK
<1>8. InForce(r, st) => InOrder(SlotVersions(r, r.call.ops, st))
  BY <1>1, <1>3 DEF SlotOK, SlotVersions
<1>9. Settled(r, st)
  BY <1>1, <1>2 DEF Settled
<1>10. Answers(s, r)
  BY <1>1, <1>3 DEF Answers
<1> QED BY <1>1, <1>4, <1>5, <1>6, <1>7, <1>8, <1>9, <1>10 DEF SlotOK

(* The loss-only append of a slot gets its answer.                          *)
LEMMA NoteAnswerOK ==
    ASSUME NEW st, NEW s, SlotOK(s, st), s.note.reply = "sent",
           NEW reply \in Replies, reply \notin {"none", "held", "sent"}, reply = "ok" => st.loss,
           NEW r, r = [s EXCEPT !.note.reply = reply]
    PROVE  SlotOK(r, st) /\ Settled(r, st) /\ Answers(s, r) /\ r.call = s.call
<1> DEFINE n == [s.note EXCEPT !.reply = reply]
<1>0. s \in SlotSet /\ LifeOK(s) /\ CallOK(s, st) /\ s.note \in CallSet
  BY SlotFields DEF SlotOK
<1>n. /\ n \in CallSet /\ n.reply = reply /\ n.kind = s.note.kind /\ n.epoch = s.note.epoch
      /\ n.ops = s.note.ops /\ n.seal = s.note.seal /\ n.loss = s.note.loss
  BY <1>0 DEF CallSet
<1>e. r = [s EXCEPT !.note = n]
  BY <1>0 DEF SlotSet
<1> HIDE DEF n
<1>1. /\ r \in SlotSet /\ r.note = n
      /\ r.state = s.state /\ r.win = s.win /\ r.buffered = s.buffered
      /\ r.epoch = s.epoch /\ r.expected = s.expected
      /\ r.timer = s.timer /\ r.loss = s.loss
      /\ r.call = s.call /\ r.skipped = s.skipped
      /\ r.sealRequested = s.sealRequested /\ r.unsaid = s.unsaid
  BY ONLY <1>0, <1>n, <1>e DEF SlotSet
<1>2. s.note # NoCall /\ ~Alive(s) /\ s.note.kind = "note"
  BY <1>0, NoCallFields DEF CallOK
<1>3. Alive(r) = Alive(s) /\ HasWindow(r) = HasWindow(s) /\ InForce(r, st) = InForce(s, st)
  BY <1>1, Zenon DEF Alive, HasWindow, InForce
<1>4. LifeOK(r)
  BY <1>0, <1>1, <1>3 DEF LifeOK
<1>5. CallOK(r, st)
  BY <1>0, <1>1, <1>n, <1>2, <1>3 DEF CallOK
<1>6. r.call.kind = "append" => AppendOK(r, r.call, st)
  BY <1>1, <1>3 DEF SlotOK, AppendOK
<1>7. ~(Alive(r) /\ HasWindow(r))
  BY <1>2, <1>3
<1>8. InForce(r, st) => InOrder(SlotVersions(r, r.call.ops, st))
  BY <1>1, <1>3 DEF SlotOK, SlotVersions
<1>9. Settled(r, st)
  BY <1>1, <1>2 DEF Settled, Alive
<1>10. Answers(s, r)
  BY <1>1, <1>3 DEF Answers
<1> QED BY <1>1, <1>4, <1>5, <1>6, <1>7, <1>8, <1>9, <1>10 DEF SlotOK

(* The answer of a call that stored no row.                                 *)
LEMMA SameRowsInv ==
    ASSUME Inv, NEW m \in Mounts, slot[m] # Unopened, NEW r, Answers(slot[m], r),
           NEW su \in StoreSet, su.rows = store.rows, su.next = store.next,
           store.epoch <= su.epoch, store.loss => su.loss,
           su.sealed = store.sealed, AnswersSeal(slot[m], r, store),
           SlotOK(r, su), Settled(r, su),
           Granted(r) => \/ r.call = slot[m].call
                         \/ /\ r.call.next = su.next
                            /\ \A k \in Mounts : slot[k].epoch < r.call.epoch,
           slot' = [slot EXCEPT ![m] = r], store' = su,
           UNCHANGED <<Surroundings, openRequest, recorded, terminal>>,
           disturbed' \in 0..MaxDisturbances
    PROVE  Inv'
<1> DEFINE t == [slot EXCEPT ![m] = r]
<1>0. /\ slot \in [Mounts -> SlotSet] /\ StoreOK(store) /\ store \in StoreSet
      /\ EpochsOK(slot, store)
      /\ \A n \in Mounts : SlotOK(slot[n], store) /\ Settled(slot[n], store)
  BY InvParts, Zenon DEF Inv, Shared, Global
<1>1. t = [slot EXCEPT ![m] = r]
  OBVIOUS
<1>2. t[m] = r /\ \A n \in Mounts \ {m} : t[n] = slot[n]
  BY <1>0
<1> HIDE DEF Mounts, t
<1>3. \A n \in Mounts : SlotOK(t[n], su) /\ Settled(t[n], su)
  <2>1. SUFFICES ASSUME NEW n \in Mounts PROVE SlotOK(t[n], su) /\ Settled(t[n], su)
    BY Zenon
  <2>2. CASE n = m
    BY <1>2, <2>2
  <2>3. CASE n # m
    <3>1. SlotOK(slot[n], su)
      BY <1>0, SlotStore
    <3>2. Settled(slot[n], su)
      BY <1>0 DEF Settled
    <3> QED BY <1>2, <2>3, <3>1, <3>2
  <2> QED BY <2>2, <2>3
<1>4. StoreOK(su)
  BY <1>0 DEF StoreOK
<1>5. Grows(store, su, slot)
  BY DEF Grows, Newer, StoreBelow
<1>6. EpochsOK(t, su)
  <2>1. \A n \in Mounts : t[n].epoch = slot[n].epoch /\ (Alive(t[n]) => Alive(slot[n]))
    BY <1>2, Zenon DEF Answers
  <2>2. \A n \in Mounts : Granted(t[n]) =>
           \/ Granted(slot[n]) /\ t[n].call = slot[n].call /\ su.next = store.next
           \/ /\ t[n].call.next = su.next
              /\ \A k \in Mounts : t[k].epoch < t[n].call.epoch
    <3>1. CASE ~Granted(r)
      BY <1>2, <3>1, Zenon
    <3>2. CASE r.call = slot[m].call
      <4>1. Granted(r) => Granted(slot[m])
        BY <3>2 DEF Granted, Answers
      <4> QED BY <1>2, <3>2, <4>1, Zenon
    <3>3. CASE /\ r.call.next = su.next
               /\ \A k \in Mounts : slot[k].epoch < r.call.epoch
      BY <1>2, <2>1, <3>3, Zenon
    <3> QED BY <3>1, <3>2, <3>3
  <2>3. EpochsKept(slot, store, t, su)
    BY <2>1, <2>2, Zenon DEF EpochsKept
  <2>4. EpochsOK(slot, store) /\ slot \in [Mounts -> SlotSet]
    BY <1>0
  <2> QED BY ONLY <2>3, <2>4, EpochsSame
<1>7. SealsOK(t, su, terminal)
  BY <1>2, InvSeals, SameRowsSeals
<1> QED BY <1>1, <1>3, <1>4, <1>5, <1>6, <1>7, ExecuteInv

LEMMA SentIsOpened ==
    ASSUME NEW s, s.call.reply = "sent" \/ s.note.reply = "sent"
    PROVE  s # Unopened
BY UnopenedFields, NoCallFields

LEMMA FailCallInv ==
    ASSUME Inv, NEW m \in Mounts, FailCall(m),
           UNCHANGED <<Surroundings, openRequest, recorded, terminal>>
    PROVE  Inv'
<1> DEFINE s == slot[m]
<1>1. /\ SlotOK(s, store) /\ store \in StoreSet /\ slot \in [Mounts -> SlotSet]
      /\ disturbed \in 0..MaxDisturbances /\ MaxDisturbances \in Nat /\ s.call.reply = "sent"
  BY InvParts, Zenon DEF FailCall, Sent
<1>2. PICK reply \in {"busy", "unavailable", "tooLarge", "budgetExhausted"} :
         slot' = [slot EXCEPT ![m].call.reply = reply]
  BY DEF FailCall
<1> DEFINE c == [s.call EXCEPT !.reply = reply]
           r == [s EXCEPT !.call = c]
<1>3. s \in SlotSet /\ s.call \in CallSet /\ s.call.epoch <= store.epoch
  <2>1. s \in SlotSet /\ CallOK(s, store)
    BY <1>1 DEF SlotOK
  <2> QED BY <2>1, SlotFields DEF CallOK
<1>4. /\ c \in CallSet /\ c.reply = reply /\ c.kind = s.call.kind /\ c.epoch = s.call.epoch
      /\ c.ops = s.call.ops /\ c.seal = s.call.seal /\ c.loss = s.call.loss
      /\ c.expected = s.call.expected /\ c.next = s.call.next
  BY <1>3 DEF CallSet, Replies
<1>5. slot' = [slot EXCEPT ![m] = r]
  BY <1>1, <1>2, <1>3
<1>6. r = [s EXCEPT !.call = c]
  OBVIOUS
<1> HIDE DEF c, r, s, Mounts
<1>7. c.kind = "append" => AppendOK(s, c, store)
  BY <1>1, <1>4 DEF SlotOK, AppendOK
<1>8. SlotOK(r, store) /\ Settled(r, store) /\ Answers(s, r) /\ r.call = c
  BY <1>1, <1>3, <1>4, <1>6, <1>7, AnswerOK
<1>9. ~Granted(r)
  BY <1>4, <1>8 DEF Granted
<1>10. s # Unopened
  BY <1>1, SentIsOpened
<1>11. disturbed' \in 0..MaxDisturbances /\ store' = store
  BY <1>1, DisturbOK DEF FailCall
<1>12. store.epoch <= store.epoch /\ AnswersSeal(s, r, store)
  BY <1>1, <1>2, <1>4, <1>8, StoreFields DEF AnswersSeal
<1> QED BY <1>1, <1>5, <1>8, <1>9, <1>10, <1>11, <1>12, SameRowsInv DEF s

LEMMA FailNoteInv ==
    ASSUME Inv, NEW m \in Mounts, FailNote(m),
           UNCHANGED <<Surroundings, openRequest, recorded, terminal>>
    PROVE  Inv'
<1> DEFINE s == slot[m]
           r == [s EXCEPT !.note.reply = "unavailable"]
<1>1. /\ SlotOK(s, store) /\ store \in StoreSet /\ slot \in [Mounts -> SlotSet]
      /\ disturbed \in 0..MaxDisturbances /\ MaxDisturbances \in Nat /\ s.note.reply = "sent"
  BY InvParts, Zenon DEF FailNote, Sent
<1>2. slot' = [slot EXCEPT ![m] = r]
  BY <1>1 DEF FailNote
<1>3. r = [s EXCEPT !.note.reply = "unavailable"]
  OBVIOUS
<1> HIDE DEF r, s, Mounts
<1>4. SlotOK(r, store) /\ Settled(r, store) /\ Answers(s, r) /\ r.call = s.call
  BY <1>1, <1>3, NoteAnswerOK DEF Replies
<1>5. s # Unopened
  BY <1>1, SentIsOpened
<1>6. disturbed' \in 0..MaxDisturbances /\ store' = store
  BY <1>1, DisturbOK DEF FailNote
<1>7. store.epoch <= store.epoch
  BY <1>1, StoreFields
<1>8. AnswersSeal(s, r, store)
  BY <1>4, InvSeals DEF AnswersSeal, SealOK, s
<1> QED BY <1>1, <1>2, <1>4, <1>5, <1>6, <1>7, <1>8, SameRowsInv DEF s

LEMMA RefusalCases ==
    ASSUME NEW c
    PROVE  /\ Refusal(c) \in {"supersededWriter", "sealed", "sequenceGap", "ok"}
           /\ Refusal(c) = "sealed" => store.sealed
           /\ Refusal(c) = "ok" =>
                c.epoch = store.epoch /\ ~store.sealed /\ c.expected = store.next
<1>1. CASE c.epoch # store.epoch
  BY <1>1 DEF Refusal
<1>2. CASE c.epoch = store.epoch /\ store.sealed
  BY <1>2 DEF Refusal
<1>3. CASE c.epoch = store.epoch /\ ~store.sealed /\ c.expected # store.next
  BY <1>3 DEF Refusal
<1>4. CASE c.epoch = store.epoch /\ ~store.sealed /\ c.expected = store.next
  BY <1>4 DEF Refusal
<1> QED BY <1>1, <1>2, <1>3, <1>4

LEMMA AppendedNothing ==
    ASSUME store \in StoreSet, NEW c, c.ops = <<>>, c.loss = TRUE, c.seal = FALSE,
           NEW su, su = Appended(c)
    PROVE  /\ su \in StoreSet /\ su.rows = store.rows /\ su.next = store.next
           /\ su.epoch = store.epoch /\ su.loss = TRUE /\ su.sealed = store.sealed
<1> DEFINE rows == [s \in DOMAIN store.rows \cup DOMAIN c.ops |->
                       IF s \in DOMAIN c.ops THEN c.ops[s] ELSE store.rows[s]]
           next == store.next + Cardinality({s \in DOMAIN c.ops : s >= store.next})
<1>1. DOMAIN c.ops = {}
  BY NoRows
<1>2. store.rows \in Rowses /\ store.next \in Nat /\ store.sealed \in BOOLEAN
  BY StoreFields DEF Pos
<1>3. rows = store.rows
  <2>1. store.rows \in [DOMAIN store.rows -> SUBSET Pos]
    BY <1>2, RowsesElim
  <2> QED BY <1>1, <2>1
<1>4. next = store.next
  <2> DEFINE H == {s \in DOMAIN c.ops : s >= store.next}
  <2>1. H = {}
    BY <1>1
  <2> HIDE DEF H
  <2>2. Cardinality(H) = 0
    BY <2>1, FS_EmptySet
  <2> QED BY <1>2, <2>2 DEF H
<1>5. su = [store EXCEPT !.rows = rows, !.next = next, !.sealed = store.sealed \/ c.seal,
                         !.loss = store.loss \/ c.loss]
  BY DEF Appended
<1> HIDE DEF rows, next
<1>6. su = [store EXCEPT !.rows = store.rows, !.next = store.next,
                         !.sealed = store.sealed \/ FALSE, !.loss = store.loss \/ TRUE]
  BY <1>3, <1>4, <1>5
<1> QED BY ONLY <1>6, store \in StoreSet DEF StoreSet

(* A note under way carries the loss and nothing else. *)
LEMMA SentNoteFields ==
    ASSUME NEW s, NEW st, SlotOK(s, st), s.note.reply = "sent"
    PROVE  s.note.ops = <<>> /\ s.note.loss = TRUE /\ s.note.seal = FALSE
<1>1. s \in SlotSet /\ CallOK(s, st)
  BY DEF SlotOK
<1>2. s.note \in CallSet /\ s.note.kind # "none"
  BY <1>1, SlotFields, NoCallFields DEF CallOK
<1>3. s.note.loss \in BOOLEAN /\ s.note.seal \in BOOLEAN
  BY <1>2, CallFields
<1> QED BY <1>1, <1>2, <1>3 DEF CallOK

LEMMA ExecuteNoteInv ==
    ASSUME Inv, NEW m \in Mounts, ExecuteNote(m),
           UNCHANGED <<Surroundings, openRequest, recorded, terminal>>
    PROVE  Inv'
<1> DEFINE s == slot[m]
           result == Refusal(s.note)
           r == [s EXCEPT !.note.reply = result]
           su == IF result = "ok" THEN Appended(s.note) ELSE store
<1>1. /\ SlotOK(s, store) /\ store \in StoreSet /\ slot \in [Mounts -> SlotSet]
      /\ disturbed' \in 0..MaxDisturbances /\ s.note.reply = "sent"
  BY InvParts DEF ExecuteNote, Sent
<1>2. slot' = [slot EXCEPT ![m] = r] /\ store' = su
  BY <1>1 DEF ExecuteNote
<1>3. /\ result \in Replies /\ result \notin {"none", "held", "sent"}
      /\ r = [s EXCEPT !.note.reply = result]
  BY RefusalCases DEF Replies
<1>4. /\ su \in StoreSet /\ su.rows = store.rows /\ su.next = store.next
      /\ su.epoch = store.epoch /\ (store.loss => su.loss) /\ (result = "ok" => su.loss)
      /\ su.sealed = store.sealed
  <2>1. s.note.ops = <<>> /\ s.note.loss = TRUE /\ s.note.seal = FALSE
    BY <1>1, SentNoteFields
  <2>2. CASE result = "ok"
    <3> DEFINE a == Appended(s.note)
    <3>1. a = Appended(s.note) /\ su = a
      BY <2>2
    <3> HIDE DEF a, su
    <3> QED BY <1>1, <2>1, <3>1, AppendedNothing
  <2>3. CASE result # "ok"
    BY <1>1, <2>3
  <2> QED BY <2>2, <2>3
<1> HIDE DEF r, s, su, result, Mounts
<1>5. store.epoch <= su.epoch
  BY <1>1, <1>4, StoreFields
<1>6. SlotOK(s, su)
  BY <1>1, <1>4, <1>5, SlotStore
<1>7. SlotOK(r, su) /\ Settled(r, su) /\ Answers(s, r) /\ r.call = s.call
  BY <1>1, <1>3, <1>4, <1>6, NoteAnswerOK
<1>8. s # Unopened
  BY <1>1, SentIsOpened
<1>9. AnswersSeal(s, r, store)
  BY <1>7, InvSeals DEF AnswersSeal, SealOK, s
<1> QED BY <1>1, <1>2, <1>4, <1>5, <1>7, <1>8, <1>9, SameRowsInv DEF s

LEMMA ExecuteOpenInv ==
    ASSUME Inv, NEW m \in Mounts, ExecuteOpen(m),
           UNCHANGED <<Surroundings, openRequest, recorded, terminal>>
    PROVE  Inv'
<1> DEFINE s == slot[m]
           su == [store EXCEPT !.epoch = @ + 1]
<1>1. /\ SlotOK(s, store) /\ store \in StoreSet /\ slot \in [Mounts -> SlotSet]
      /\ disturbed \in 0..MaxDisturbances /\ MaxDisturbances \in Nat /\ s.call.reply = "sent"
      /\ s.call.kind \in {"open", "reopen"} /\ store' = su
  BY InvParts, Zenon DEF ExecuteOpen, Sent
<1>2. store.epoch \in Nat /\ store.next \in Nat
  BY <1>1, StoreFields DEF Pos
<1>3. /\ su \in StoreSet /\ su.rows = store.rows /\ su.next = store.next
      /\ su.epoch = store.epoch + 1 /\ su.loss = store.loss /\ store.epoch <= su.epoch
      /\ su.sealed = store.sealed
  BY <1>1, <1>2 DEF StoreSet
<1>4. /\ s \in SlotSet /\ s.call \in CallSet /\ s.call.epoch \in Nat
      /\ s.call.epoch <= store.epoch
  <2>1. s \in SlotSet /\ CallOK(s, store)
    BY <1>1 DEF SlotOK
  <2>2. s.call \in CallSet
    BY <2>1, SlotFields
  <2> QED BY <2>1, <2>2, CallFields DEF CallOK
<1>5. \A k \in Mounts : slot[k].epoch < store.epoch + 1
  <2> HIDE DEF Mounts
  <2>1. SUFFICES ASSUME NEW k \in Mounts PROVE slot[k].epoch < store.epoch + 1
    OBVIOUS
  <2>2. SlotOK(slot[k], store) /\ slot[k] \in SlotSet
    BY <1>1, InvParts
  <2>3. slot[k].epoch \in Nat /\ slot[k].epoch <= store.epoch
    BY <2>2, SlotFields DEF SlotOK, CallOK
  <2> QED BY <1>2, <2>3
<1>6. s # Unopened
  BY <1>1, SentIsOpened
<1> HIDE DEF su
<1>7. SlotOK(s, su)
  BY <1>1, <1>3, SlotStore
<1>8. CASE /\ slot' = [slot EXCEPT ![m].call = [s.call EXCEPT !.reply = "ok", !.epoch = store.epoch + 1,
                                                           !.next = store.next]]
           /\ disturbed' = disturbed
  <2> DEFINE c == [s.call EXCEPT !.reply = "ok", !.epoch = store.epoch + 1, !.next = store.next]
             r == [s EXCEPT !.call = c]
  <2>1. slot' = [slot EXCEPT ![m] = r] /\ r = [s EXCEPT !.call = c]
    BY <1>1, <1>8
  <2>2. /\ c \in CallSet /\ c.reply = "ok" /\ c.kind = s.call.kind /\ c.epoch = store.epoch + 1
        /\ c.ops = s.call.ops /\ c.next = store.next
    <3> DEFINE q == s.call
               n == store.epoch + 1
    <3>1. n \in Nat /\ store.next \in Nat /\ q \in CallSet
      BY <1>2, <1>4
    <3>2. c = [q EXCEPT !.reply = "ok", !.epoch = n, !.next = store.next]
      OBVIOUS
    <3> HIDE DEF c, q, n, s
    <3>3. /\ c \in CallSet /\ c.reply = "ok" /\ c.kind = q.kind /\ c.epoch = n
          /\ c.ops = q.ops /\ c.next = store.next
      BY ONLY <3>1, <3>2 DEF CallSet, Replies
    <3> QED BY <3>3 DEF q, n
  <2> HIDE DEF c, r, s, Mounts
  <2>3. c.epoch <= su.epoch /\ c.kind # "append"
    BY <1>1, <1>2, <1>3, <2>2
  <2>4. SlotOK(r, su) /\ Settled(r, su) /\ Answers(s, r) /\ r.call = c
    BY <1>1, <1>7, <2>1, <2>2, <2>3, AnswerOK
  <2>5. r.call.next = su.next /\ \A k \in Mounts : slot[k].epoch < r.call.epoch
    BY <1>3, <1>5, <2>2, <2>4
  <2>6. disturbed' \in 0..MaxDisturbances /\ AnswersSeal(s, r, store)
    BY <1>1, <1>8, <2>3, <2>4 DEF AnswersSeal
  <2> QED BY <1>1, <1>3, <1>6, <2>1, <2>4, <2>5, <2>6, SameRowsInv DEF s
<1>9. CASE slot' = [slot EXCEPT ![m].call.reply = "unavailable"] /\ Disturb("lose")
  <2> DEFINE c == [s.call EXCEPT !.reply = "unavailable"]
             r == [s EXCEPT !.call = c]
  <2>1. slot' = [slot EXCEPT ![m] = r] /\ r = [s EXCEPT !.call = c]
    BY <1>1, <1>9
  <2>2. /\ c \in CallSet /\ c.reply = "unavailable" /\ c.kind = s.call.kind
        /\ c.epoch = s.call.epoch /\ c.ops = s.call.ops
    BY <1>4 DEF CallSet, Replies
  <2> HIDE DEF c, r, s, Mounts
  <2>3. c.epoch <= su.epoch /\ c.kind # "append"
    BY <1>1, <1>2, <1>3, <1>4, <2>2
  <2>4. SlotOK(r, su) /\ Settled(r, su) /\ Answers(s, r) /\ r.call = c
    BY <1>1, <1>7, <2>1, <2>2, <2>3, AnswerOK
  <2>5. ~Granted(r)
    BY <2>2, <2>4 DEF Granted
  <2>6. disturbed' \in 0..MaxDisturbances /\ AnswersSeal(s, r, store)
    BY <1>1, <1>9, <2>3, <2>4, DisturbOK DEF AnswersSeal
  <2> QED BY <1>1, <1>3, <1>6, <2>1, <2>4, <2>5, <2>6, SameRowsInv DEF s
<1> QED BY <1>8, <1>9 DEF ExecuteOpen

(* Rows that reach back to the end of the log extend it without a hole.     *)
LEMMA NextAfter ==
    ASSUME NEW n \in Pos, NEW D, D \subseteq Pos, IsFiniteSet(D),
           \A k \in D : n..k \subseteq D,
           NEW p, p = n + Cardinality({k \in D : k >= n})
    PROVE  p \in Pos /\ n <= p /\ 1..(n - 1) \cup D = 1..(p - 1) /\ (p = n \/ p - 1 \in D)
<1> DEFINE H == {k \in D : k >= n}
<1>1. n \in Nat /\ n >= 1 /\ \A k \in D : k \in Nat /\ k >= 1
  BY DEF Pos
<1>2. IsFiniteSet(H) /\ Cardinality(H) \in Nat
  BY FS_Subset, FS_CardinalityType
<1>3. CASE H = {}
  <2>1. Cardinality(H) = 0
    BY <1>3, FS_EmptySet
  <2>2. p = n
    BY <1>1, <2>1
  <2>3. \A k \in D : k \in 1..(n - 1)
    <3>1. \A k \in D : ~(k >= n)
      BY <1>3
    <3> QED BY <1>1, <3>1
  <2>4. 1..(n - 1) \cup D = 1..(p - 1)
    BY <2>2, <2>3
  <2> QED BY <1>1, <2>2, <2>4
<1>4. CASE H # {}
  <2>1. \A k \in H : k <= n + Cardinality(H)
    <3>1. SUFFICES ASSUME NEW k \in H PROVE k <= n + Cardinality(H)
      OBVIOUS
    <3>2. k \in Nat /\ k >= n /\ k \in D
      BY <1>1
    <3>3. n..k \subseteq H
      BY <1>1, <3>2
    <3>4. Cardinality(n..k) = k - n + 1
      BY <1>1, <3>2, FS_Interval
    <3>5. Cardinality(n..k) <= Cardinality(H)
      BY <1>2, <3>3, FS_Subset
    <3> HIDE DEF H
    <3> QED BY <1>1, <1>2, <3>2, <3>4, <3>5
  <2>2. H \subseteq Nat /\ n + Cardinality(H) \in Nat
    <3>1. H \subseteq Nat
      BY <1>1
    <3> HIDE DEF H
    <3> QED BY <1>1, <1>2, <3>1
  <2>3. PICK M \in H : \A k \in H : k <= M
    <3> HIDE DEF H
    <3> QED BY <1>4, <2>1, <2>2, GreatestNumber
  <2>4. M \in Nat /\ M >= n /\ M \in D
    BY <1>1
  <2>5. H = n..M
    <3>1. n..M \subseteq D
      BY <2>4
    <3>2. \A k \in n..M : k \in H
      BY <1>1, <2>4, <3>1
    <3>3. \A k \in H : k \in n..M
      BY <1>1, <2>3, <2>4
    <3> QED BY <3>2, <3>3
  <2>6. Cardinality(H) = M - n + 1
    <3> HIDE DEF H
    <3>1. Cardinality(n..M) = M - n + 1
      BY <1>1, <2>4, FS_Interval
    <3> QED BY <2>5, <3>1
  <2>7. p = M + 1
    <3>1. p = n + Cardinality(H)
      OBVIOUS
    <3> HIDE DEF H
    <3> QED BY <1>1, <2>4, <2>6, <3>1
  <2>8. \A k \in D : k < n \/ k \in n..M
    BY <1>1, <2>5
  <2>9. \A k \in n..M : k \in D
    BY <2>4
  <2>10. 1..(n - 1) \cup D = 1..M
    <3> HIDE DEF H
    <3>1. \A k \in D : k \in 1..M
      BY <1>1, <2>4, <2>8
    <3>2. \A k \in 1..M : k \in 1..(n - 1) \/ k \in n..M
      BY <1>1, <2>4
    <3>3. \A k \in 1..(n - 1) : k \in 1..M
      BY <1>1, <2>4
    <3> QED BY <2>9, <3>1, <3>2, <3>3
  <2>11. p \in Nat /\ p # 0 /\ n <= p /\ p - 1 = M
    <3> HIDE DEF H
    <3> QED BY <1>1, <2>4, <2>7
  <2> HIDE DEF H
  <2> QED BY <2>4, <2>10, <2>11 DEF Pos
<1> QED BY <1>3, <1>4

Merged(f, g) == [k \in DOMAIN f \cup DOMAIN g |-> IF k \in DOMAIN g THEN g[k] ELSE f[k]]

IsMerged(h, f, g) ==
    /\ h \in Rowses /\ DOMAIN h = DOMAIN f \cup DOMAIN g
    /\ Rows(h) \subseteq Rows(f) \cup Rows(g)
    /\ \A k \in DOMAIN g : k \in DOMAIN h /\ h[k] = g[k]
    /\ \A k \in DOMAIN h : IF k \in DOMAIN g THEN h[k] = g[k] ELSE k \in DOMAIN f /\ h[k] = f[k]
    /\ Covers(g, f) => EventsOf(f) \subseteq EventsOf(h)

LEMMA MergedFields ==
    ASSUME NEW f \in Rowses, NEW g \in Rowses
    PROVE  IsMerged(Merged(f, g), f, g)
<1> DEFINE h == Merged(f, g)
<1>1. /\ DOMAIN h = DOMAIN f \cup DOMAIN g
      /\ \A k \in DOMAIN g : k \in DOMAIN h /\ h[k] = g[k]
      /\ \A k \in DOMAIN h : IF k \in DOMAIN g THEN h[k] = g[k] ELSE k \in DOMAIN f /\ h[k] = f[k]
  BY DEF Merged
<1>2. /\ DOMAIN f \subseteq Pos /\ DOMAIN g \subseteq Pos
      /\ (\A k \in DOMAIN f : f[k] \subseteq Pos) /\ (\A k \in DOMAIN g : g[k] \subseteq Pos)
  BY RowsesElim
<1>3. h \in Rowses
  <2>1. h \in [DOMAIN h -> SUBSET Pos] /\ DOMAIN h \subseteq Pos
    BY <1>2 DEF Merged
  <2> QED BY <2>1, RowsesIntro
<1>4. Rows(h) \subseteq Rows(f) \cup Rows(g)
  <2>1. SUFFICES ASSUME NEW v \in Rows(h) PROVE v \in Rows(f) \cup Rows(g)
    OBVIOUS
  <2>2. PICK k \in DOMAIN h : v = <<k, h[k]>>
    BY <1>3, RowsIn
  <2>3. CASE k \in DOMAIN g
    <3>1. v = <<k, g[k]>>
      BY <1>1, <2>2, <2>3
    <3> QED BY <2>3, <3>1, RowsIn
  <2>4. CASE k \notin DOMAIN g
    <3>1. k \in DOMAIN f /\ v = <<k, f[k]>>
      BY <1>1, <2>2, <2>4
    <3> QED BY <3>1, RowsIn
  <2> QED BY <2>3, <2>4
<1>5. ASSUME Covers(g, f) PROVE EventsOf(f) \subseteq EventsOf(h)
  <2>1. SUFFICES ASSUME NEW x \in EventsOf(f) PROVE x \in EventsOf(h)
    OBVIOUS
  <2>2. PICK k \in DOMAIN f : x \in f[k]
    BY EventsOfIn
  <2>3. k \in DOMAIN h
    BY <1>1
  <2>4. x \in h[k]
    BY <1>1, <1>5, <2>2, <2>3 DEF Covers
  <2> QED BY <1>3, <2>3, <2>4, EventsOfIn
<1> HIDE DEF h
<1>6. IsMerged(h, f, g)
  BY <1>1, <1>3, <1>4, <1>5 DEF IsMerged
<1> QED BY <1>6 DEF h

(* What an append c makes of the log st.                                    *)
Extends(su, st, c) ==
    /\ su \in StoreSet /\ su.rows = Merged(st.rows, c.ops)
    /\ su.next = st.next + Cardinality({k \in DOMAIN c.ops : k >= st.next})
    /\ su.epoch = st.epoch /\ su.loss = (st.loss \/ c.loss)
    /\ su.sealed = (st.sealed \/ c.seal)

LEMMA AppendedFields ==
    ASSUME store \in StoreSet, NEW c \in CallSet, IsFiniteSet(DOMAIN c.ops),
           NEW su, su = Appended(c)
    PROVE  Extends(su, store, c)
<1> DEFINE H == {s \in DOMAIN c.ops : s >= store.next}
           next == store.next + Cardinality(H)
           rows == Merged(store.rows, c.ops)
<1>1. c.ops \in Rowses /\ c.seal \in BOOLEAN /\ c.loss \in BOOLEAN
  BY CallFields
<1>2. store.rows \in Rowses /\ store.next \in Pos /\ store.sealed \in BOOLEAN /\ store.loss \in BOOLEAN
  BY StoreFields
<1>3. rows \in Rowses
  <2>1. IsMerged(rows, store.rows, c.ops)
    BY <1>1, <1>2, MergedFields
  <2> HIDE DEF rows
  <2> QED BY <2>1 DEF IsMerged
<1>4. next \in Pos
  <2>1. Cardinality(H) \in Nat
    BY FS_Subset, FS_CardinalityType
  <2> HIDE DEF H
  <2> QED BY <1>2, <2>1 DEF Pos
<1>5. su = [store EXCEPT !.rows = rows, !.next = next, !.sealed = store.sealed \/ c.seal,
                         !.loss = store.loss \/ c.loss]
  BY DEF Appended, Merged
<1>6. next = store.next + Cardinality({k \in DOMAIN c.ops : k >= store.next})
  OBVIOUS
<1> HIDE DEF rows, next
<1>7. /\ su \in StoreSet /\ su.rows = rows /\ su.next = next /\ su.epoch = store.epoch
      /\ su.loss = (store.loss \/ c.loss) /\ su.sealed = (store.sealed \/ c.seal)
  BY ONLY <1>1, <1>2, <1>3, <1>4, <1>5, store \in StoreSet DEF StoreSet
<1> QED BY <1>6, <1>7 DEF Extends, rows

(* A row of the log that an append leaves is as it was or as the append has it. *)
LEMMA ExtendedRows ==
    ASSUME NEW st \in StoreSet, NEW c \in CallSet, NEW su, Extends(su, st, c)
    PROVE  /\ IsMerged(su.rows, st.rows, c.ops)
           /\ \A w : (Held(st.rows, w) /\ Held(c.ops, w)) => Held(su.rows, w)
           /\ \A f : (Covers(f, st.rows) /\ Covers(f, c.ops)) => Covers(f, su.rows)
           /\ Covers(c.ops, su.rows)
<1>1. IsMerged(su.rows, st.rows, c.ops)
  <2>1. st.rows \in Rowses /\ c.ops \in Rowses
    BY StoreFields, CallFields
  <2> QED BY <2>1, MergedFields DEF Extends
<1>2. \A k \in DOMAIN su.rows : IF k \in DOMAIN c.ops THEN su.rows[k] = c.ops[k]
                                ELSE k \in DOMAIN st.rows /\ su.rows[k] = st.rows[k]
  BY <1>1, Zenon DEF IsMerged
<1>3. ASSUME NEW w, Held(st.rows, w), Held(c.ops, w) PROVE Held(su.rows, w)
  <2>1. ASSUME w.tail.text, w.tail.seq \in DOMAIN su.rows
        PROVE  su.rows[w.tail.seq] \subseteq w.tail.events
    BY <1>2, <1>3, <2>1, Zenon DEF Held
  <2>2. ASSUME w.snapshot.seq \in DOMAIN su.rows
        PROVE  su.rows[w.snapshot.seq] \subseteq w.snapshot.events
    BY <1>2, <1>3, <2>2, Zenon DEF Held
  <2> QED BY <2>1, <2>2 DEF Held
<1>4. ASSUME NEW f, Covers(f, st.rows), Covers(f, c.ops) PROVE Covers(f, su.rows)
  BY <1>2, <1>4, Zenon DEF Covers
<1>5. Covers(c.ops, su.rows)
  BY <1>2 DEF Covers
<1> QED BY <1>1, <1>3, <1>4, <1>5

(* An append that the store takes, from the slot's last lease.              *)
Taken(s, su, st) ==
    /\ StoreOK(su) /\ SlotOK(s, su) /\ InForce(s, st)
    /\ st.next <= su.next
    /\ \A e \in Pos : (StoreBelow(st, e) /\ RowsBelow(s.call.ops, e)) => StoreBelow(su, e)
    /\ su.loss \/ (~st.loss /\ EventsOf(st.rows) \subseteq EventsOf(su.rows))
    /\ \A k \in DOMAIN s.call.ops : k \in DOMAIN su.rows /\ su.rows[k] = s.call.ops[k]

LEMMA AppendTakenOK ==
    ASSUME NEW st, StoreOK(st), NEW s, SlotOK(s, st), s.call.kind = "append",
           s.call.reply = "sent", s.call.epoch = st.epoch, s.call.expected = st.next,
           NEW su, Extends(su, st, s.call)
    PROVE  Taken(s, su, st)
<1> DEFINE c == s.call
           ops == s.call.ops
<1>0. /\ s \in SlotSet /\ LifeOK(s) /\ CallOK(s, st) /\ AppendOK(s, c, st) /\ c \in CallSet
      /\ ops \in Rowses /\ st \in StoreSet /\ st.rows \in Rowses /\ st.next \in Pos
      /\ st.epoch \in Nat /\ DOMAIN st.rows = 1..(st.next - 1)
  <2>1. s \in SlotSet /\ LifeOK(s) /\ CallOK(s, st) /\ AppendOK(s, c, st) /\ st \in StoreSet
    BY DEF SlotOK, StoreOK
  <2>2. c \in CallSet
    BY <2>1, SlotFields
  <2>3. ops \in Rowses
    BY <2>2, CallFields
  <2> QED BY <2>1, <2>2, <2>3, StoreFields DEF StoreOK
<1>1. /\ s.epoch # 0 /\ s.epoch = st.epoch /\ s.expected = st.next /\ IsFiniteSet(DOMAIN ops)
      /\ \A k \in DOMAIN ops : st.next..k \subseteq DOMAIN ops
  BY <1>0 DEF AppendOK
<1>2. InForce(s, st) /\ su.epoch = st.epoch /\ su \in StoreSet /\ (st.loss => su.loss)
      /\ InForce(s, su)
  BY <1>1 DEF InForce, Extends
<1>3. /\ su.next \in Pos /\ st.next <= su.next
      /\ 1..(st.next - 1) \cup DOMAIN ops = 1..(su.next - 1)
      /\ (su.next = st.next \/ su.next - 1 \in DOMAIN ops)
  <2>1. DOMAIN ops \subseteq Pos
    BY <1>0, RowsesElim
  <2>2. su.next = st.next + Cardinality({k \in DOMAIN ops : k >= st.next})
    BY DEF Extends
  <2> HIDE DEF ops
  <2> QED BY <1>0, <1>1, <2>1, <2>2, NextAfter
<1>4. /\ IsMerged(su.rows, st.rows, ops)
      /\ \A w : (Held(st.rows, w) /\ Held(ops, w)) => Held(su.rows, w)
      /\ \A f : (Covers(f, st.rows) /\ Covers(f, ops)) => Covers(f, su.rows)
      /\ Covers(ops, su.rows)
  BY <1>0, ExtendedRows
<1>m. /\ DOMAIN su.rows = DOMAIN st.rows \cup DOMAIN ops
      /\ Rows(su.rows) \subseteq Rows(st.rows) \cup Rows(ops)
      /\ \A k \in DOMAIN ops : k \in DOMAIN su.rows /\ su.rows[k] = ops[k]
      /\ \A k \in DOMAIN su.rows : IF k \in DOMAIN ops THEN su.rows[k] = ops[k]
                                   ELSE k \in DOMAIN st.rows /\ su.rows[k] = st.rows[k]
      /\ Covers(ops, st.rows) => EventsOf(st.rows) \subseteq EventsOf(su.rows)
  BY <1>4, Zenon DEF IsMerged
<1>5. InOrder(SlotVersions(s, ops, st))
  BY <1>2 DEF SlotOK
<1>6. StoreOK(su)
  <2>1. InOrder(Rows(su.rows))
    <3>1. Rows(su.rows) \subseteq SlotVersions(s, ops, st)
      BY <1>m DEF SlotVersions
    <3> QED BY <1>5, <3>1, InOrderSubset
  <2>2. DOMAIN su.rows = 1..(su.next - 1)
    BY <1>0, <1>3, <1>m
  <2> QED BY <1>2, <2>1, <2>2 DEF StoreOK
<1>7. AppendOK(s, c, su)
  BY <1>0, <1>2, <1>4 DEF AppendOK
<1>8. CallOK(s, su)
  BY <1>0, <1>2 DEF CallOK
<1>9. (Alive(s) /\ HasWindow(s)) => WindowOK(s, ops, su)
  <2>1. SUFFICES ASSUME Alive(s), HasWindow(s) PROVE WindowOK(s, ops, su)
    OBVIOUS
  <2>2. WindowOK(s, ops, st)
    BY <2>1 DEF SlotOK
  <2>3. s.win.next \in Nat
    BY <2>2, WindowFields DEF WindowOK, WindowShape
  <2>4. su.next <= s.win.next
    <3>1. st.next <= s.win.next /\ \A k \in DOMAIN ops : k < s.win.next /\ k \in Nat
      <4>1. DOMAIN ops \subseteq 1..(s.win.next - 1) /\ st.next <= s.win.next
        BY <2>2 DEF WindowOK
      <4> QED BY <2>3, <4>1
    <3> QED BY <1>3, <2>3, <3>1 DEF Pos
  <2>5. s.expected \in 1..su.next
    BY <1>0, <1>1, <1>3 DEF Pos
  <2>6. Held(su.rows, s.win)
    BY <1>4, <2>2, Zenon DEF WindowOK
  <2>7. s.loss \/ Covers(s.win.dirty, su.rows)
    BY <1>4, <2>2, Zenon DEF WindowOK
  <2> QED BY <2>2, <2>4, <2>5, <2>6, <2>7, Zenon DEF WindowOK
<1>10. InOrder(SlotVersions(s, ops, su))
  <2>1. SlotVersions(s, ops, su) \subseteq SlotVersions(s, ops, st)
    BY <1>m DEF SlotVersions
  <2> QED BY <1>5, <2>1, InOrderSubset
<1>11. SlotOK(s, su)
  BY <1>0, <1>7, <1>8, <1>9, <1>10 DEF SlotOK
<1>12. ASSUME NEW e \in Pos, StoreBelow(st, e), RowsBelow(ops, e)
       PROVE  StoreBelow(su, e)
  <2>1. su.next <= e
    <3>1. st.next <= e /\ \A k \in DOMAIN ops : k < e
      BY <1>12 DEF StoreBelow, RowsBelow
    <3>2. DOMAIN ops \subseteq Pos
      BY <1>0, RowsesElim
    <3> QED BY <1>0, <1>3, <3>1, <3>2 DEF Pos
  <2>2. RowsBelow(su.rows, e)
    BY <1>m, <1>12, Zenon DEF StoreBelow, RowsBelow
  <2> QED BY <2>1, <2>2 DEF StoreBelow
<1>13. su.loss \/ (~st.loss /\ EventsOf(st.rows) \subseteq EventsOf(su.rows))
  <2>1. c.loss => su.loss
    BY DEF Extends
  <2>2. c.loss \/ Covers(ops, st.rows)
    BY <1>0, <1>2 DEF AppendOK
  <2> QED BY <1>2, <1>m, <2>1, <2>2
<1> QED BY <1>2, <1>3, <1>m, <1>6, <1>11, <1>12, <1>13 DEF Taken

(* A writer that appends with the last lease is the only one that can.      *)
LEMMA OthersRefused ==
    ASSUME Inv, NEW m \in Mounts, slot[m].epoch # 0, slot[m].epoch = store.epoch,
           NEW n \in Mounts \ {m}
    PROVE  /\ ~InForce(slot[n], store) /\ ~Granted(slot[n])
           /\ ~(slot[n].state = "writing")
<1> HIDE DEF Mounts
<1>0. /\ EpochsOK(slot, store) /\ SlotOK(slot[n], store) /\ slot[n] \in SlotSet
      /\ slot[m] \in SlotSet /\ store \in StoreSet
  BY InvParts DEF Inv, Shared, Global
<1>1. /\ slot[n].epoch \in Nat /\ slot[n].epoch <= store.epoch /\ store.epoch \in Nat
      /\ slot[n].call.epoch \in Nat /\ slot[n].call.epoch <= store.epoch
  <2>1. slot[n].epoch \in Nat /\ slot[n].call \in CallSet
    BY <1>0, SlotFields
  <2> QED BY <1>0, <2>1, CallFields, StoreFields DEF SlotOK, CallOK
<1>2. /\ slot[m].epoch = slot[n].epoch => slot[m].epoch = 0
      /\ (Alive(slot[n]) /\ slot[n].epoch # 0) => slot[m].epoch < slot[n].epoch
      /\ Granted(slot[n]) => slot[m].epoch < slot[n].call.epoch
  <2>1. n \in Mounts /\ m \in Mounts \ {n}
    OBVIOUS
  <2> QED BY <1>0, <2>1, Zenon DEF EpochsOK
<1>3. ~InForce(slot[n], store)
  BY <1>1, <1>2 DEF InForce
<1>4. ~Granted(slot[n])
  BY <1>1, <1>2
<1>5. ~(slot[n].state = "writing")
  <2>1. SUFFICES ASSUME slot[n].state = "writing" PROVE FALSE
    OBVIOUS
  <2>2. Alive(slot[n])
    BY <2>1 DEF Alive
  <2>3. slot[n].epoch # 0
    BY <1>0, <2>1, <2>2 DEF SlotOK, LifeOK
  <2> QED BY <1>3, <2>2, <2>3 DEF InForce
<1> QED BY <1>3, <1>4, <1>5

(* An append that seals the log holds all that its slot has pending, and    *)
(* nothing is pending in another slot that is alive.                        *)
LEMMA AppendTakenSeals ==
    ASSUME Inv, NEW m \in Mounts, slot[m].call.kind = "append", ~store.sealed,
           slot[m].epoch # 0, slot[m].epoch = store.epoch,
           NEW su, Extends(su, store, slot[m].call),
           NEW r, Answers(slot[m], r), r.call.kind = "append",
           r.call.seal = slot[m].call.seal, r.call.reply # "sealed",
           NEW t, t[m] = r, \A n \in Mounts \ {m} : t[n] = slot[n]
    PROVE  SealsOK(t, su, terminal)
<1> DEFINE s == slot[m]
           c == slot[m].call
<1>0. /\ SlotOK(s, store) /\ s \in SlotSet /\ c \in CallSet /\ store \in StoreSet
      /\ c.seal \in BOOLEAN /\ c.loss \in BOOLEAN /\ SealOK(s, store)
  <2>1. SlotOK(s, store) /\ s \in SlotSet /\ store \in StoreSet /\ SealOK(s, store)
    BY InvParts, InvSeals DEF SlotOK
  <2>2. c \in CallSet
    BY <2>1, SlotFields
  <2> QED BY <2>1, <2>2, CallFields
<1>1. su.sealed = c.seal /\ (c.loss => su.loss) /\ (c.seal => s.sealRequested)
  <2>1. su.sealed = (store.sealed \/ c.seal) /\ su.loss = (store.loss \/ c.loss)
    BY DEF Extends
  <2> QED BY <1>0, <2>1 DEF SealOK
<1>2. EventsOf(c.ops) \subseteq EventsOf(su.rows)
  <2>1. IsMerged(su.rows, store.rows, c.ops)
    BY <1>0, ExtendedRows
  <2>2. su.rows \in Rowses /\ c.ops \in Rowses
        /\ \A k \in DOMAIN c.ops : k \in DOMAIN su.rows /\ su.rows[k] = c.ops[k]
    BY <1>0, <2>1, CallFields DEF IsMerged
  <2> QED BY <2>2, EventsOfIn
<1> HIDE DEF Mounts, s, c
<1>3. \A n \in Mounts : t[n].sealRequested = slot[n].sealRequested
                          /\ t[n].buffered = slot[n].buffered /\ t[n].epoch = slot[n].epoch
  BY Zenon DEF Answers
<1>4. ~terminal => ~su.sealed /\ \A n \in Mounts : ~t[n].sealRequested
  BY <1>1, <1>3, InvSeals DEF s
<1>5. \A k \in Mounts : \A n \in Mounts \ {k} :
        slot[k].sealRequested => slot[n].buffered = <<>> \/ (n < k /\ slot[k].epoch = 0)
  BY InvSeals DEF SealsOK
<1>6. SealOK(r, su)
  <2>1. ASSUME su.sealed, Alive(r) PROVE r.buffered = <<>> /\ Spared(r, su)
    <3>1. Alive(s) /\ c.seal /\ c.kind = "append"
      BY <1>1, <2>1 DEF Answers, s, c
    <3>2. s.buffered = <<>> /\ (s.skipped # {} => s.loss) /\ (s.loss => su.loss)
      <4>1. HasWindow(s)
        <5>1. CallOK(s, store) /\ s.call.kind = "append"
          BY <1>0, <3>1 DEF SlotOK, c, s
        <5> QED BY <3>1, <5>1 DEF CallOK
      <4>2. c.loss = s.loss
        <5>1. AppendOK(s, c, store)
          BY <1>0, <3>1 DEF SlotOK, c, s
        <5> QED BY <3>1, <5>1 DEF AppendOK
      <4> QED BY <1>0, <1>1, <4>1, <4>2 DEF SlotOK, LifeOK
    <3>3. EventsOf(s.win.dirty) \subseteq EventsOf(su.rows)
      BY <1>0, <1>2, <3>1 DEF SealOK, c, s
    <3>4. r.buffered = <<>> /\ r.skipped = s.skipped /\ r.win = s.win
      BY <3>2 DEF Answers, s
    <3>5. Pending(r) \subseteq EventsOf(su.rows)
      <4>1. DOMAIN <<>> = {}
        OBVIOUS
      <4> QED BY <3>3, <3>4, <4>1 DEF Pending
    <3> QED BY <3>2, <3>4, <3>5 DEF Spared
  <2>2. /\ r.call.seal => r.sealRequested
        /\ (r.call.seal /\ Alive(r)) => EventsOf(r.win.dirty) \subseteq EventsOf(r.call.ops)
    BY <1>0, <1>1 DEF SealOK, Answers, s, c
  <2> QED BY <2>1, <2>2 DEF SealOK
<1>7. ASSUME NEW n \in Mounts \ {m} PROVE SealOK(t[n], su)
  <2>1. t[n] = slot[n] /\ SealOK(slot[n], store) /\ SlotOK(slot[n], store)
    BY <1>7, InvParts, InvSeals, Zenon
  <2>2. ASSUME su.sealed, Alive(slot[n]) PROVE slot[n].buffered = <<>> /\ Spared(slot[n], su)
    <3>1. slot[n].buffered = <<>>
      BY <1>1, <1>5, <1>7, <2>2 DEF s
    <3>2. slot[n].epoch = 0
      BY <1>7, <2>2, OthersRefused DEF InForce
    <3>3. slot[n].win = NoWindow /\ slot[n].skipped = {}
      BY <2>1, <2>2, <3>2 DEF SlotOK, LifeOK
    <3>4. Pending(slot[n]) = {}
      <4>1. EventsOf(<<>>) = {} /\ DOMAIN <<>> = {} /\ NoWindow.dirty = <<>>
        BY NoRows, NoWindowIsEmpty
      <4>2. EventsOf(slot[n].win.dirty) = {}
        BY <3>3, <4>1
      <4>3. {slot[n].buffered[i].e : i \in DOMAIN slot[n].buffered} = {}
        BY <3>1, <4>1
      <4> QED BY <4>2, <4>3 DEF Pending
    <3> QED BY <3>1, <3>3, <3>4 DEF Spared
  <2> QED BY <2>1, <2>2 DEF SealOK
<1>8. \A n \in Mounts : SealOK(t[n], su)
  BY <1>6, <1>7, Zenon
<1>9. \A k \in Mounts : \A n \in Mounts \ {k} :
        t[k].sealRequested => t[n].buffered = <<>> \/ (n < k /\ t[k].epoch = 0)
  BY <1>3, <1>5
<1> QED BY <1>4, <1>8, <1>9, Zenon DEF SealsOK

LEMMA AppendTakenInv ==
    ASSUME Inv, NEW m \in Mounts, slot[m].call.kind = "append", slot[m].call.reply = "sent",
           slot[m].call.epoch = store.epoch, slot[m].call.expected = store.next,
           ~store.sealed, NEW su, Extends(su, store, slot[m].call),
           NEW c \in CallSet, c.kind = "append", c.ops = slot[m].call.ops,
           c.epoch = slot[m].call.epoch, c.expected = slot[m].call.expected,
           c.seal = slot[m].call.seal, c.loss = slot[m].call.loss,
           c.reply = "unavailable" \/ (c.reply = "ok" /\ c.next = su.next),
           slot' = [slot EXCEPT ![m] = [slot[m] EXCEPT !.call = c]], store' = su,
           UNCHANGED <<Surroundings, openRequest, recorded, terminal>>,
           disturbed' \in 0..MaxDisturbances
    PROVE  Inv'
<1> DEFINE s == slot[m]
           r == [s EXCEPT !.call = c]
           t == [slot EXCEPT ![m] = r]
<1>0. /\ slot \in [Mounts -> SlotSet] /\ StoreOK(store) /\ store \in StoreSet
      /\ EpochsOK(slot, store) /\ SlotOK(s, store)
      /\ \A n \in Mounts : SlotOK(slot[n], store) /\ Settled(slot[n], store)
  BY InvParts, Zenon DEF Inv, Shared, Global
<1>1. Taken(s, su, store)
  BY <1>0, AppendTakenOK
<1>2. /\ r = [s EXCEPT !.call = c] /\ t = [slot EXCEPT ![m] = r] /\ slot' = t
      /\ t[m] = r /\ \A n \in Mounts \ {m} : t[n] = slot[n]
  BY <1>0
<1> HIDE DEF Mounts, r, t
<1>3. /\ AppendOK(s, s.call, su) /\ s.epoch # 0 /\ s.epoch = store.epoch
      /\ s.call.epoch <= store.epoch /\ store.epoch <= su.epoch /\ su.epoch = store.epoch
      /\ su \in StoreSet /\ (store.loss => su.loss) /\ (s.call.loss => su.loss)
  <2>1. AppendOK(s, s.call, su)
    BY <1>1 DEF Taken, SlotOK
  <2>2. s.epoch # 0 /\ s.epoch = store.epoch
    BY <2>1 DEF AppendOK
  <2>3. store.epoch \in Nat
    BY <1>0, StoreFields
  <2>4. (store.loss => su.loss) /\ (s.call.loss => su.loss)
    BY Zenon DEF Extends
  <2>5. su \in StoreSet /\ su.epoch = store.epoch
    BY Zenon DEF Extends
  <2> HIDE DEF s
  <2> QED BY <1>0, <2>1, <2>2, <2>3, <2>4, <2>5 DEF SlotOK, CallOK
<1>4. AppendOK(s, c, su)
  <2>1. \A k \in DOMAIN c.ops : k \in DOMAIN su.rows /\ su.rows[k] = c.ops[k]
    BY <1>1 DEF Taken
  <2> HIDE DEF s
  <2> QED BY <1>3, <2>1 DEF AppendOK, s
<1>5. SlotOK(r, su) /\ Settled(r, su) /\ Answers(s, r) /\ r.call = c
  <2>1. SlotOK(s, su) /\ c.epoch <= su.epoch
    BY <1>1, <1>3 DEF Taken
  <2> QED BY <1>2, <1>4, <2>1, AnswerOK
<1>6. s # Unopened
  BY SentIsOpened
<1>7. \A n \in Mounts : SlotOK(t[n], su) /\ Settled(t[n], su) /\ ~Granted(t[n])
  <2>1. SUFFICES ASSUME NEW n \in Mounts PROVE SlotOK(t[n], su) /\ Settled(t[n], su) /\ ~Granted(t[n])
    BY Zenon
  <2>2. CASE n = m
    BY <1>2, <1>5, <2>2 DEF Granted
  <2>3. CASE n # m
    <3>1. ~InForce(slot[n], store) /\ ~Granted(slot[n]) /\ ~(slot[n].state = "writing")
      BY <1>3, <2>3, OthersRefused
    <3>2. ~InForce(slot[n], su)
      BY <1>3, <3>1 DEF InForce
    <3>3. SlotOK(slot[n], su)
      BY <1>0, <1>3, <3>2, SlotStore
    <3>4. Settled(slot[n], su)
      BY <1>0, <3>1 DEF Settled
    <3> QED BY <1>2, <2>3, <3>1, <3>3, <3>4
  <2> QED BY <2>2, <2>3
<1>8. EpochsOK(t, su)
  <2>1. \A n \in Mounts : t[n].epoch = slot[n].epoch /\ (Alive(t[n]) => Alive(slot[n]))
    <3>1. r.epoch = s.epoch /\ (Alive(r) => Alive(s))
      BY <1>5, Zenon DEF Answers
    <3> QED BY ONLY <1>2, <3>1 DEF s
  <2>2. ASSUME NEW n \in Mounts, NEW k \in Mounts \ {n}
        PROVE  /\ t[n].epoch = t[k].epoch => t[n].epoch = 0
               /\ (Alive(t[n]) /\ t[n].epoch # 0) => t[k].epoch < t[n].epoch
    <3>1. /\ slot[n].epoch = slot[k].epoch => slot[n].epoch = 0
          /\ (Alive(slot[n]) /\ slot[n].epoch # 0) => slot[k].epoch < slot[n].epoch
      BY <1>0, Zenon DEF EpochsOK
    <3>2. t[n].epoch = slot[n].epoch /\ t[k].epoch = slot[k].epoch /\ (Alive(t[n]) => Alive(slot[n]))
      BY <2>1
    <3> QED BY <3>1, <3>2
  <2> QED BY <1>7, <2>2, Zenon DEF EpochsOK
<1>9. Grows(store, su, slot)
  <2>1. \A e \in Pos : Newer(slot, store, e) => StoreBelow(su, e)
    BY <1>1, Zenon DEF Taken, Newer, Below
  <2> QED BY <1>1, <2>1 DEF Taken, Grows
<1>10. SealsOK(t, su, terminal)
  <2>1. r.call.kind = "append" /\ r.call.seal = slot[m].call.seal /\ r.call.reply # "sealed"
    BY <1>5
  <2>2. /\ Inv /\ m \in Mounts /\ slot[m].call.kind = "append" /\ ~store.sealed
        /\ slot[m].epoch # 0 /\ slot[m].epoch = store.epoch
        /\ Extends(su, store, slot[m].call) /\ Answers(slot[m], r)
        /\ t[m] = r /\ \A n \in Mounts \ {m} : t[n] = slot[n]
    BY <1>2, <1>3, <1>5 DEF s
  <2> QED BY ONLY <2>1, <2>2, AppendTakenSeals
<1> QED BY <1>1, <1>2, <1>5, <1>6, <1>7, <1>8, <1>9, <1>10, ExecuteInv DEF Taken

LEMMA ExecuteAppendInv ==
    ASSUME Inv, NEW m \in Mounts, ExecuteAppend(m),
           UNCHANGED <<Surroundings, openRequest, recorded, terminal>>
    PROVE  Inv'
<1> DEFINE s == slot[m]
           result == Refusal(s.call)
           su == IF result = "ok" THEN Appended(s.call) ELSE store
           c == [s.call EXCEPT !.reply = result, !.next = su.next]
           d == [s.call EXCEPT !.reply = "unavailable"]
<1>1. /\ SlotOK(s, store) /\ StoreOK(store) /\ store \in StoreSet /\ slot \in [Mounts -> SlotSet]
      /\ disturbed \in 0..MaxDisturbances /\ MaxDisturbances \in Nat /\ s.call.reply = "sent"
      /\ s.call.kind = "append" /\ store' = su
  BY InvParts, Zenon DEF ExecuteAppend, Sent
<1>2. \/ slot' = [slot EXCEPT ![m] = [s EXCEPT !.call = c]] /\ disturbed' = disturbed
      \/ /\ result = "ok" /\ Disturb("lose")
         /\ slot' = [slot EXCEPT ![m] = [s EXCEPT !.call = d]]
  BY <1>1 DEF ExecuteAppend
<1>3. disturbed' \in 0..MaxDisturbances
  BY <1>1, <1>2, DisturbOK
<1>4. /\ s \in SlotSet /\ s.call \in CallSet /\ AppendOK(s, s.call, store) /\ CallOK(s, store)
      /\ store.next \in Nat /\ store.epoch \in Nat
  <2>1. s \in SlotSet /\ CallOK(s, store) /\ AppendOK(s, s.call, store)
    BY <1>1 DEF SlotOK
  <2> QED BY <1>1, <2>1, SlotFields, StoreFields DEF Pos
<1>5. s # Unopened
  BY <1>1, SentIsOpened
<1>6. /\ result \in {"supersededWriter", "sealed", "sequenceGap", "ok"}
      /\ result = "ok" => /\ s.call.epoch = store.epoch /\ s.call.expected = store.next
                          /\ ~store.sealed
      /\ result = "sealed" => store.sealed
  BY RefusalCases
<1>7. CASE result = "ok"
  <2>1. Extends(su, store, s.call)
    <3>1. su = Appended(s.call)
      BY <1>7
    <3>2. IsFiniteSet(DOMAIN s.call.ops)
      BY <1>4 DEF AppendOK
    <3> HIDE DEF su
    <3> QED BY <1>1, <1>4, <3>1, <3>2, AppendedFields
  <2>2. su.next \in Nat
    BY <2>1, StoreFields DEF Extends, Pos
  <2>3. /\ c = [s.call EXCEPT !.reply = "ok", !.next = su.next]
        /\ d = [s.call EXCEPT !.reply = "unavailable"]
    BY <1>7
  <2> DEFINE e == IF slot' = [slot EXCEPT ![m] = [s EXCEPT !.call = c]] THEN c ELSE d
  <2>4. slot' = [slot EXCEPT ![m] = [s EXCEPT !.call = e]]
    BY <1>2
  <2> HIDE DEF su, c, d
  <2>5. /\ c \in CallSet /\ c.kind = s.call.kind /\ c.ops = s.call.ops /\ c.epoch = s.call.epoch
        /\ c.expected = s.call.expected /\ c.seal = s.call.seal /\ c.loss = s.call.loss
        /\ c.reply = "ok" /\ c.next = su.next
    BY ONLY <1>4, <2>2, <2>3 DEF CallSet, Replies
  <2>6. /\ d \in CallSet /\ d.kind = s.call.kind /\ d.ops = s.call.ops /\ d.epoch = s.call.epoch
        /\ d.expected = s.call.expected /\ d.seal = s.call.seal /\ d.loss = s.call.loss
        /\ d.reply = "unavailable"
    BY ONLY <1>4, <2>3 DEF CallSet, Replies
  <2>7. e = c \/ e = d
    OBVIOUS
  <2> HIDE DEF e
  <2>8. /\ e \in CallSet /\ e.kind = "append" /\ e.ops = s.call.ops /\ e.epoch = s.call.epoch
        /\ e.expected = s.call.expected /\ e.seal = s.call.seal /\ e.loss = s.call.loss
        /\ e.reply = "unavailable" \/ (e.reply = "ok" /\ e.next = su.next)
    BY <1>1, <2>5, <2>6, <2>7
  <2> QED BY <1>1, <1>3, <1>6, <1>7, <2>1, <2>4, <2>8, AppendTakenInv
<1>8. CASE result # "ok"
  <2> DEFINE r == [s EXCEPT !.call = c]
  <2>1. /\ slot' = [slot EXCEPT ![m] = r] /\ r = [s EXCEPT !.call = c] /\ store' = store
        /\ c = [s.call EXCEPT !.reply = result, !.next = store.next]
    BY <1>1, <1>2, <1>8
  <2>2. result \in Replies
    BY <1>6 DEF Replies
  <2> HIDE DEF c, r, s, su, result, Mounts
  <2>3. /\ c \in CallSet /\ c.kind = s.call.kind /\ c.ops = s.call.ops /\ c.epoch = s.call.epoch
        /\ c.expected = s.call.expected /\ c.seal = s.call.seal /\ c.loss = s.call.loss
        /\ c.reply = result /\ c.next = store.next
    BY ONLY <1>4, <2>1, <2>2 DEF CallSet
  <2>4. AppendOK(s, c, store)
    BY <1>4, <1>8, <2>3 DEF AppendOK
  <2>5. c.epoch <= store.epoch /\ c.reply \notin {"none", "held", "sent"}
    BY <1>4, <1>6, <2>3 DEF CallOK
  <2>6. SlotOK(r, store) /\ Settled(r, store) /\ Answers(s, r) /\ r.call = c
    <3>1. r = [s EXCEPT !.call = c]
      BY <2>1
    <3>2. SlotOK(s, store) /\ s.call.reply = "sent"
      BY <1>1
    <3> QED BY <2>3, <2>4, <2>5, <3>1, <3>2, AnswerOK
  <2>7. ~Granted(r) /\ store.epoch <= store.epoch /\ AnswersSeal(s, r, store)
    BY <1>1, <1>4, <1>6, <2>3, <2>6 DEF Granted, AnswersSeal
  <2> QED BY <1>1, <1>3, <1>5, <2>1, <2>6, <2>7, SameRowsInv DEF s
<1> QED BY <1>7, <1>8

----------------------------------------------------------------------------
(* The component that owns the writer. *)

LEMMA ManagedInv ==
    ASSUME Inv, store' = store, recorded' = recorded, terminal' = terminal, gen' \in Nat,
           openRequest' \in BOOLEAN, disturbed' \in 0..MaxDisturbances,
           Shared(slot', store, recorded, live', retiring', mounts', terminal),
           \A m \in Mounts : Settled(slot'[m], store)
    PROVE  Inv'
<1>1. Scalars'
  BY DEF Inv, Scalars
<1>2. Shared(slot', store', recorded', live', retiring', mounts', terminal')
  OBVIOUS
<1>3. \A m \in Mounts : Settled(slot'[m], store')
  OBVIOUS
<1> QED BY <1>1, <1>2, <1>3, Zenon DEF Inv

LEMMA StutterInv ==
    ASSUME Inv, UNCHANGED vars
    PROVE  Inv'
<1>1. /\ slot' = slot /\ store' = store /\ live' = live /\ mounts' = mounts
      /\ retiring' = retiring /\ openRequest' = openRequest /\ gen' = gen
      /\ recorded' = recorded /\ terminal' = terminal /\ disturbed' = disturbed
  BY DEF vars
<1>2. Scalars'
  BY <1>1 DEF Inv, Scalars
<1> QED BY <1>1, <1>2, Zenon DEF Inv

LEMMA ChangeProjectInv ==
    ASSUME Inv, ChangeProject
    PROVE  Inv'
<1>1. /\ slot' = slot /\ store' = store /\ live' = live /\ mounts' = mounts
      /\ retiring' = retiring /\ openRequest' = openRequest
      /\ recorded' = recorded /\ terminal' = terminal
  BY DEF ChangeProject
<1>2. gen \in Nat /\ disturbed \in 0..MaxDisturbances /\ MaxDisturbances \in Nat
      /\ openRequest \in BOOLEAN
  BY InvParts
<1>3. gen' \in Nat /\ disturbed' \in 0..MaxDisturbances
  BY <1>2, DisturbOK DEF ChangeProject
<1>4. /\ Shared(slot', store, recorded, live', retiring', mounts', terminal)
      /\ \A m \in Mounts : Settled(slot'[m], store)
  BY <1>1, Zenon DEF Inv
<1> QED BY <1>1, <1>2, <1>3, <1>4, ManagedInv

LEMMA UnmountInv ==
    ASSUME Inv, Unmount
    PROVE  Inv'
<1>1. /\ slot' = slot /\ store' = store /\ live' = 0 /\ mounts' = mounts
      /\ retiring' = live /\ openRequest' = openRequest /\ gen' = gen
      /\ recorded' = recorded /\ terminal' = terminal
      /\ live # 0 /\ mounts < MaxMounts /\ retiring = 0
  BY DEF Unmount
<1>2. /\ gen \in Nat /\ disturbed \in 0..MaxDisturbances /\ MaxDisturbances \in Nat
      /\ openRequest \in BOOLEAN /\ MountsOK(slot, live, retiring, mounts)
  BY InvParts
<1>3. disturbed' \in 0..MaxDisturbances
  BY <1>2, DisturbOK DEF Unmount
<1>4. live = mounts /\ mounts \in Nat /\ 0 \in 0..mounts /\ \A m \in Mounts : m # 0
  BY <1>1, <1>2 DEF MountsOK, Mounts
<1> HIDE DEF Mounts
<1>5. MountsOK(slot, 0, live, mounts)
  <2>1. ASSUME NEW m \in Mounts
        PROVE  /\ m > mounts => slot[m] = Unopened
               /\ Alive(slot[m]) => m \in {0, live}
               /\ (m = 0 /\ live # 0 /\ Alive(slot[m])) => slot[m].call.reply = "held"
               /\ slot[m].call.reply = "held" => m = 0 /\ live # 0
    BY <1>1, <1>2, <1>4, <2>1 DEF MountsOK
  <2>2. mounts \in Mounts /\ live \in 0..mounts
    BY <1>2, <1>4 DEF MountsOK
  <2> QED BY <1>1, <2>1, <2>2, Zenon DEF MountsOK
<1>6. Shared(slot', store, recorded, live', retiring', mounts', terminal)
  BY <1>1, <1>5, Zenon DEF Inv, Shared
<1>7. \A m \in Mounts : Settled(slot'[m], store)
  BY <1>1, Zenon DEF Inv
<1> QED BY <1>1, <1>2, <1>3, <1>6, <1>7, ManagedInv

(* A turn that is opened. *)
LEMMA OpenedSlotOK ==
    ASSUME gen \in Nat, NEW st \in StoreSet, NEW held \in BOOLEAN, NEW r, r = OpenedSlot(held)
    PROVE  /\ SlotOK(r, st) /\ Settled(r, st) /\ r.epoch = 0 /\ r.buffered = <<>>
           /\ r.win = NoWindow /\ r.call.ops = <<>> /\ ~r.sealRequested
           /\ r.unsaid = {} /\ r.skipped = {} /\ Alive(r) /\ ~Granted(r)
           /\ r.call.reply = (IF held THEN "held" ELSE "sent") /\ r.call.kind = "open"
<1> DEFINE c == [OpenCall("open") EXCEPT !.reply = IF held THEN "held" ELSE "sent"]
           u == Unopened
<1>1. /\ c \in CallSet /\ c.kind = "open" /\ c.ops = <<>> /\ c.epoch = 0
      /\ c.reply = (IF held THEN "held" ELSE "sent")
  <2>1. c = [NoCall EXCEPT !.kind = "open", !.reply = IF held THEN "held" ELSE "sent"]
    BY NoCallFields DEF OpenCall, CallSet
  <2>2. NoCall \in CallSet /\ NoCall.ops = <<>> /\ NoCall.epoch = 0
    BY NoCallFields
  <2> HIDE DEF c
  <2> QED BY ONLY <2>1, <2>2, held \in BOOLEAN DEF CallSet, Replies
<1>2. u \in SlotSet
  BY UnopenedFields
<1>3. r = [u EXCEPT !.state = "opening", !.gen = gen, !.call = c]
  BY DEF OpenedSlot
<1>u. /\ u.timer = "none" /\ u.note = NoCall /\ u.epoch = 0 /\ u.expected = 0
      /\ u.buffered = <<>> /\ u.win = NoWindow /\ u.skipped = {} /\ u.unsaid = {}
      /\ u.sealRequested = FALSE
  BY UnopenedFields
<1> HIDE DEF c, u
<1>4. /\ r \in SlotSet /\ r.state = "opening" /\ r.call = c
      /\ r.timer = "none" /\ r.note = NoCall /\ r.epoch = 0 /\ r.expected = 0
      /\ r.buffered = <<>> /\ r.win = NoWindow /\ r.skipped = {} /\ r.unsaid = {}
      /\ r.sealRequested = FALSE
  BY ONLY <1>1, <1>2, <1>3, <1>u, gen \in Nat DEF SlotSet
<1>5. Alive(r) /\ ~HasWindow(r) /\ ~InForce(r, st)
  BY <1>4, NoWindowIsEmpty DEF Alive, HasWindow, InForce
<1>6. LifeOK(r)
  BY <1>4, <1>5 DEF LifeOK
<1>7. CallOK(r, st)
  <2>1. 0 <= st.epoch
    BY StoreFields
  <2> QED BY <1>1, <1>4, <1>5, <2>1, NoCallFields DEF CallOK
<1>8. SlotOK(r, st) /\ Settled(r, st)
  BY <1>1, <1>4, <1>5, <1>6, <1>7 DEF SlotOK, Settled
<1>9. ~Granted(r)
  BY <1>1, <1>4 DEF Granted
<1> QED BY <1>1, <1>4, <1>5, <1>8, <1>9

(* A turn that is opened holds nothing that a seal could leave out.         *)
LEMMA YoungSeals ==
    ASSUME NEW r, NEW st, r.buffered = <<>>, r.win = NoWindow, r.skipped = {},
           r.call.kind # "append"
    PROVE  SealOK(r, st)
<1>1. Pending(r) = {}
  <2>1. EventsOf(<<>>) = {} /\ DOMAIN <<>> = {} /\ NoWindow.dirty = <<>>
    BY NoRows, NoWindowIsEmpty
  <2>2. EventsOf(r.win.dirty) = {} /\ {r.buffered[i].e : i \in DOMAIN r.buffered} = {}
    BY <2>1
  <2> QED BY <2>2 DEF Pending
<1> QED BY <1>1 DEF SealOK, Spared

LEMMA MountInv ==
    ASSUME Inv, Mount
    PROVE  Inv'
<1> DEFINE m == mounts + 1
<1>1. /\ store' = store /\ live' = m /\ mounts' = m /\ retiring' = retiring /\ gen' = gen
      /\ openRequest' = (openRequest /\ gen # 0)
      /\ recorded' = recorded /\ terminal' = terminal /\ disturbed' = disturbed /\ live = 0
  BY DEF Mount
<1>2. /\ gen \in Nat /\ disturbed \in 0..MaxDisturbances /\ recorded \in Nat
      /\ openRequest \in BOOLEAN /\ MountsOK(slot, live, retiring, mounts)
      /\ slot \in [Mounts -> SlotSet] /\ store \in StoreSet /\ StoreOK(store)
      /\ \A n \in Mounts : SlotOK(slot[n], store) /\ Settled(slot[n], store)
  BY InvParts
<1>3. openRequest' \in BOOLEAN
  BY <1>1, <1>2
<1>4. /\ mounts \in Nat /\ m \in Mounts /\ m \in Nat /\ m > mounts /\ mounts < m
      /\ (\A n \in Mounts : n # 0 /\ n \in Nat /\ (n > m => n > mounts /\ n # m))
      /\ retiring \in 0..m /\ retiring # m /\ m # 0
  <2>1. mounts \in Mounts /\ mounts < MaxMounts /\ retiring \in 0..mounts
    BY <1>1, <1>2, Zenon DEF MountsOK
  <2>2. MaxMounts \in Nat
    BY TurnLogAssumption
  <2> QED BY <2>1, <2>2 DEF Mounts
<1> HIDE DEF Mounts, m
<1>5. /\ slot[m] = Unopened
      /\ \A n \in Mounts : /\ n > mounts => slot[n] = Unopened
                           /\ Alive(slot[n]) => n = retiring
                           /\ ~(slot[n].call.reply = "held")
  <2>1. \A n \in Mounts : /\ n > mounts => slot[n] = Unopened
                          /\ Alive(slot[n]) => n \in {live, retiring}
                          /\ slot[n].call.reply = "held" => n = live
    BY <1>2, Zenon DEF MountsOK
  <2> QED BY <1>1, <1>4, <2>1
<1>6. CASE ~(openRequest /\ gen # 0)
  <2>1. slot' = slot
    BY <1>6 DEF Mount
  <2>2. MountsOK(slot, m, retiring, m)
    <3>1. ASSUME NEW n \in Mounts
          PROVE  /\ n > m => slot[n] = Unopened
                 /\ Alive(slot[n]) => n \in {m, retiring}
                 /\ (n = m /\ retiring # 0 /\ Alive(slot[n])) => slot[n].call.reply = "held"
                 /\ slot[n].call.reply = "held" => n = m /\ retiring # 0
      BY <1>4, <1>5
    <3> QED BY <1>4, <3>1, Zenon DEF MountsOK
  <2>3. Shared(slot', store, recorded, live', retiring', mounts', terminal)
    BY <1>1, <2>1, <2>2, Zenon DEF Inv, Shared
  <2>4. \A n \in Mounts : Settled(slot'[n], store)
    BY <1>2, <2>1, Zenon
  <2> QED BY <1>1, <1>2, <1>3, <2>3, <2>4, ManagedInv
<1>7. CASE openRequest /\ gen # 0
  <2> DEFINE held == retiring # 0
             r == OpenedSlot(held)
             t == [slot EXCEPT ![m] = r]
  <2>1. slot' = t
    BY <1>7 DEF Mount, m
  <2>2. t[m] = r /\ (\A n \in Mounts \ {m} : t[n] = slot[n])
    BY <1>2, <1>4
  <2>3. held \in BOOLEAN /\ r = OpenedSlot(held) /\ t = [slot EXCEPT ![m] = r]
    OBVIOUS
  <2>h. held <=> retiring # 0
    OBVIOUS
  <2> HIDE DEF t, r, held
  <2>4. /\ SlotOK(r, store) /\ Settled(r, store) /\ r.epoch = 0 /\ r.buffered = <<>>
        /\ r.win = NoWindow /\ r.call.ops = <<>> /\ ~r.sealRequested
        /\ r.unsaid = {} /\ r.skipped = {} /\ Alive(r) /\ ~Granted(r)
        /\ r.call.reply = (IF held THEN "held" ELSE "sent") /\ r.call.kind = "open"
    BY <1>2, <2>3, OpenedSlotOK
  <2>5. t \in [Mounts -> SlotSet]
    BY <1>2, <2>3, <2>4 DEF SlotOK
  <2>6. \A n \in Mounts : SlotOK(t[n], store) /\ Settled(t[n], store)
    BY <1>2, <2>2, <2>4, Zenon
  <2>7. EpochsOK(slot, store) /\ ArrivalsOK(slot, store, recorded) /\ Accounted(slot, store, recorded)
    BY Zenon DEF Inv, Shared, Global
  <2>8. EpochsOK(t, store)
    <3>1. \A n \in Mounts : t[n].epoch = slot[n].epoch
      BY <1>5, <2>2, <2>4, UnopenedFields
    <3>2. \A n \in Mounts : (Alive(t[n]) /\ t[n].epoch # 0) => Alive(slot[n])
      BY <2>2, <2>4, Zenon
    <3>3. \A n \in Mounts : Granted(t[n]) => (Granted(slot[n]) /\ t[n].call = slot[n].call)
      BY <2>2, <2>4, Zenon
    <3> QED BY <1>2, <2>7, <3>1, <3>2, <3>3, EpochsSame DEF EpochsKept
  <2>9. ArrivalsOK(t, store, recorded)
    <3>1. \A n \in Mounts : t[n].buffered \in {slot[n].buffered, <<>>}
      BY <2>2, <2>4
    <3>2. \A e \in Pos : Newer(slot, store, e) => Newer(t, store, e)
      <4>1. \A e \in Pos : Below(r, e)
        BY <2>4, NoWindowBelow DEF Below
      <4> QED BY <2>2, <4>1, Zenon DEF Newer
    <3> QED BY <1>2, <2>7, <3>1, <3>2, ArrivalsSame
  <2>10. Accounted(t, store, recorded)
    <3>1. Kept(slot[m]) = {}
      <4>1. Kept(Unopened) = Pending(Unopened) /\ Unopened.win.dirty = <<>> /\ Unopened.buffered = <<>>
        BY UnopenedFields, NoWindowIsEmpty DEF Kept
      <4>2. Pending(Unopened) = {}
        BY <4>1, NoRows DEF Pending
      <4> QED BY <1>5, <4>1, <4>2
    <3>2. \A n \in Mounts : Kept(slot[n]) \subseteq EventsOf(store.rows) \cup Kept(t[n])
      BY <2>2, <3>1
    <3> QED BY <2>7, <3>2, AccountedSame
  <2>11. MountsOK(t, m, retiring, m)
    <3>1. ASSUME NEW n \in Mounts
          PROVE  /\ n > m => t[n] = Unopened
                 /\ Alive(t[n]) => n \in {m, retiring}
                 /\ (n = m /\ retiring # 0 /\ Alive(t[n])) => t[n].call.reply = "held"
                 /\ t[n].call.reply = "held" => n = m /\ retiring # 0
      <4>1. CASE n = m
        BY <1>4, <2>2, <2>4, <2>h, <4>1
      <4>2. CASE n # m
        BY <1>4, <1>5, <2>2, <4>2
      <4> QED BY <4>1, <4>2
    <3> QED BY <1>4, <3>1, Zenon DEF MountsOK
  <2>12. SealsOK(t, store, terminal)
    <3>1. SealOK(r, store)
      BY <2>4, YoungSeals
    <3>2. r.epoch = slot[m].epoch /\ r.sealRequested = slot[m].sealRequested
          /\ r.buffered = slot[m].buffered
      <4>1. r.sealRequested = FALSE
        BY <2>4, <2>5, <2>2, SlotFields
      <4> QED BY <1>5, <2>4, <4>1, UnopenedFields
    <3> QED BY <1>4, <2>2, <3>1, <3>2, InvSeals, SealsStep
  <2>13. Shared(slot', store, recorded, live', retiring', mounts', terminal)
    BY <1>1, <1>2, <2>1, <2>5, <2>6, <2>8, <2>9, <2>10, <2>11, <2>12 DEF Shared, Global
  <2> QED BY <1>1, <1>2, <1>3, <2>1, <2>6, <2>13, ManagedInv
<1> QED BY <1>6, <1>7

LEMMA DisposedOK ==
    ASSUME NEW st \in StoreSet, NEW s, SlotOK(s, st), s.call.reply # "held",
           NEW r, r = Disposed(s)
    PROVE  /\ SlotOK(r, st) /\ Settled(r, st) /\ Move(s, r, st) /\ ~Alive(r)
           /\ r.call = s.call /\ r.sealRequested = s.sealRequested
           /\ SealOK(s, st) => SealOK(r, st)
<1> DEFINE u == s.unsaid \cup Pending(s) \cup s.skipped
<1>0. s \in SlotSet /\ LifeOK(s) /\ CallOK(s, st)
  BY DEF SlotOK
<1>1. u \in SUBSET Pos /\ NoWindow \in WindowSet /\ <<>> \in Seq(BufferedSet)
  BY <1>0, DroppedIn, NoWindowIsEmpty
<1>2. r = [s EXCEPT !.state = "gone", !.win = NoWindow, !.buffered = <<>>, !.timer = "none",
                    !.loss = FALSE, !.unsaid = u, !.skipped = {}]
  BY DEF Disposed
<1>u. Kept(s) \subseteq u
  BY DEF Kept
<1> HIDE DEF u
<1>3. /\ r \in SlotSet /\ r.state = "gone" /\ r.win = NoWindow /\ r.buffered = <<>>
      /\ r.timer = "none" /\ r.loss = FALSE /\ r.skipped = {} /\ r.unsaid = u
      /\ r.epoch = s.epoch /\ r.expected = s.expected /\ r.call = s.call /\ r.note = s.note
      /\ r.sealRequested = s.sealRequested
  BY ONLY <1>0, <1>1, <1>2 DEF SlotSet
<1>4. ~Alive(r) /\ ~HasWindow(r) /\ (InForce(r, st) => InForce(s, st))
  BY <1>3, NoWindowIsEmpty DEF Alive, HasWindow, InForce
<1>5. LifeOK(r)
  BY <1>3, <1>4 DEF LifeOK
<1>6. CallOK(r, st)
  BY <1>0, <1>3, <1>4 DEF CallOK
<1>7. r.call.kind = "append" => AppendOK(r, r.call, st)
  <2>1. s.call.kind = "append" => AppendOK(s, s.call, st)
    BY DEF SlotOK
  <2> QED BY <1>3, <1>4, <2>1 DEF AppendOK
<1>8. InForce(r, st) => InOrder(SlotVersions(r, r.call.ops, st))
  <2>1. SlotVersions(r, r.call.ops, st) \subseteq SlotVersions(s, s.call.ops, st)
    BY <1>3, NoWindowIsEmpty DEF SlotVersions
  <2>2. InForce(s, st) => InOrder(SlotVersions(s, s.call.ops, st))
    BY DEF SlotOK
  <2> QED BY <1>4, <2>1, <2>2, InOrderSubset
<1>9. SlotOK(r, st) /\ Settled(r, st)
  BY <1>3, <1>4, <1>5, <1>6, <1>7, <1>8 DEF SlotOK, Settled
<1>10. Move(s, r, st)
  <2>1. \A e \in Pos : Below(s, e) => Below(r, e)
    BY <1>3, NoWindowBelow DEF Below
  <2>2. Kept(s) \subseteq Kept(r)
    BY <1>3, <1>u DEF Kept
  <2> QED BY <1>3, <1>4, <2>1, <2>2 DEF Move
<1>11. SealOK(s, st) => SealOK(r, st)
  BY <1>3, <1>4, SealDead
<1> QED BY <1>3, <1>4, <1>9, <1>10, <1>11

(* A request that was held back goes out.                                   *)
LEMMA ReleasedOK ==
    ASSUME NEW st \in StoreSet, NEW s, SlotOK(s, st), s.call.reply = "held",
           NEW r, r = [s EXCEPT !.call.reply = "sent"]
    PROVE  /\ SlotOK(r, st) /\ Settled(r, st) /\ Move(s, r, st) /\ Alive(r) = Alive(s)
           /\ r.call.reply = "sent" /\ r.sealRequested = s.sealRequested
           /\ SealOK(s, st) => SealOK(r, st)
<1> DEFINE c == [s.call EXCEPT !.reply = "sent"]
<1>0. s \in SlotSet /\ LifeOK(s) /\ CallOK(s, st) /\ s.call \in CallSet
  BY SlotFields DEF SlotOK
<1>1. /\ c \in CallSet /\ c.reply = "sent" /\ c.kind = s.call.kind /\ c.ops = s.call.ops
      /\ c.epoch = s.call.epoch
  BY <1>0 DEF CallSet, Replies
<1>2. r = [s EXCEPT !.call = c]
  BY <1>0 DEF SlotSet
<1> HIDE DEF c
<1>3. /\ r \in SlotSet /\ r.call = c
      /\ r.state = s.state /\ r.win = s.win /\ r.buffered = s.buffered
      /\ r.epoch = s.epoch /\ r.expected = s.expected
      /\ r.timer = s.timer /\ r.loss = s.loss
      /\ r.note = s.note /\ r.skipped = s.skipped
      /\ r.sealRequested = s.sealRequested /\ r.unsaid = s.unsaid
  BY ONLY <1>0, <1>1, <1>2 DEF SlotSet
<1>4. s.call.kind = "open" /\ s.state = "opening" /\ s.call # NoCall /\ c # NoCall
  BY <1>0, <1>1, NoCallFields DEF CallOK
<1>5. Alive(r) = Alive(s) /\ HasWindow(r) = HasWindow(s) /\ InForce(r, st) = InForce(s, st)
  BY <1>3, Zenon DEF Alive, HasWindow, InForce
<1>6. LifeOK(r)
  BY <1>0, <1>3, <1>4, <1>5 DEF LifeOK
<1>7. CallOK(r, st)
  BY <1>0, <1>1, <1>3, <1>4, <1>5 DEF CallOK
<1>8. r.call.kind # "append"
  BY <1>1, <1>3, <1>4
<1>9. (Alive(r) /\ HasWindow(r)) => WindowOK(r, r.call.ops, st)
  BY <1>1, <1>3, <1>5 DEF SlotOK, WindowOK
<1>10. InForce(r, st) => InOrder(SlotVersions(r, r.call.ops, st))
  BY <1>1, <1>3, <1>5 DEF SlotOK, SlotVersions
<1>11. SlotOK(r, st) /\ Settled(r, st)
  BY <1>3, <1>4, <1>6, <1>7, <1>8, <1>9, <1>10 DEF SlotOK, Settled
<1>12. Move(s, r, st)
  <2>1. \A e \in Pos : Below(s, e) => Below(r, e)
    BY <1>1, <1>3 DEF Below
  <2>2. Kept(s) = Kept(r)
    <3>1. Pending(s) = Pending(r)
      BY <1>3, Zenon DEF Pending
    <3> QED BY <1>3, <3>1 DEF Kept
  <2> QED BY <1>1, <1>3, <1>5, <2>1, <2>2 DEF Move
<1>13. SealOK(s, st) => SealOK(r, st)
  BY ONLY <1>3, <1>5, <1>8, SealSame
<1> QED BY <1>1, <1>3, <1>5, <1>11, <1>12, <1>13

LEMMA DisposeInv ==
    ASSUME Inv, Dispose
    PROVE  Inv'
<1> DEFINE rt == retiring
           t == [m \in Mounts |->
                    IF m = rt THEN Disposed(slot[m])
                    ELSE IF slot[m].call.reply = "held"
                         THEN [slot[m] EXCEPT !.call.reply = "sent"] ELSE slot[m]]
<1>1. /\ store' = store /\ live' = live /\ mounts' = mounts /\ retiring' = 0 /\ gen' = gen
      /\ openRequest' = openRequest /\ slot' = t /\ rt # 0
      /\ recorded' = recorded /\ terminal' = terminal /\ disturbed' = disturbed
  BY DEF Dispose
<1>2. /\ gen \in Nat /\ disturbed \in 0..MaxDisturbances /\ recorded \in Nat
      /\ openRequest \in BOOLEAN /\ MountsOK(slot, live, rt, mounts)
      /\ slot \in [Mounts -> SlotSet] /\ store \in StoreSet /\ StoreOK(store)
      /\ \A n \in Mounts : SlotOK(slot[n], store) /\ Settled(slot[n], store)
      /\ EpochsOK(slot, store) /\ ArrivalsOK(slot, store, recorded)
      /\ Accounted(slot, store, recorded)
  BY InvParts, Zenon DEF Inv, Shared, Global
<1>3. mounts \in Nat /\ rt \in 0..mounts /\ \A n \in Mounts : n \in Nat
  <2>1. mounts \in Mounts /\ rt \in 0..mounts
    BY <1>2, Zenon DEF MountsOK
  <2> QED BY <2>1 DEF Mounts
<1>4. \A n \in Mounts : t[n] = IF n = rt THEN Disposed(slot[n])
                               ELSE IF slot[n].call.reply = "held"
                                    THEN [slot[n] EXCEPT !.call.reply = "sent"] ELSE slot[n]
  OBVIOUS
<1> HIDE DEF Mounts, t, rt
<1>5. \A n \in Mounts : /\ n > mounts => slot[n] = Unopened
                        /\ Alive(slot[n]) => n \in {live, rt}
                        /\ slot[n].call.reply = "held" => n = live /\ rt # live
  BY <1>2, Zenon DEF MountsOK
<1>6. ASSUME NEW n \in Mounts
      PROVE  /\ SlotOK(t[n], store) /\ Settled(t[n], store) /\ Move(slot[n], t[n], store)
             /\ t[n].sealRequested = slot[n].sealRequested
             /\ SealOK(slot[n], store) => SealOK(t[n], store)
             /\ t[n].call.reply # "held"
             /\ n = rt => ~Alive(t[n])
             /\ slot[n] = Unopened /\ n # rt => t[n] = Unopened
  <2>1. CASE n = rt
    <3>1. slot[n].call.reply # "held"
      BY <1>5, <2>1
    <3>2. t[n] = Disposed(slot[n])
      BY <1>4, <2>1
    <3>3. SlotOK(slot[n], store)
      BY <1>2
    <3>4. /\ SlotOK(t[n], store) /\ Settled(t[n], store) /\ Move(slot[n], t[n], store)
          /\ ~Alive(t[n]) /\ t[n].call = slot[n].call
          /\ t[n].sealRequested = slot[n].sealRequested
          /\ SealOK(slot[n], store) => SealOK(t[n], store)
      BY <1>2, <3>1, <3>2, <3>3, DisposedOK
    <3> QED BY <2>1, <3>1, <3>4
  <2>2. CASE n # rt /\ slot[n].call.reply = "held"
    <3>1. t[n] = [slot[n] EXCEPT !.call.reply = "sent"]
      BY <1>4, <2>2
    <3>2. SlotOK(slot[n], store)
      BY <1>2
    <3>3. /\ SlotOK(t[n], store) /\ Settled(t[n], store) /\ Move(slot[n], t[n], store)
          /\ t[n].call.reply = "sent" /\ t[n].sealRequested = slot[n].sealRequested
          /\ SealOK(slot[n], store) => SealOK(t[n], store)
      <4> DEFINE s == slot[n]
                 r == t[n]
      <4>1. /\ SlotOK(s, store) /\ s.call.reply = "held" /\ store \in StoreSet
            /\ r = [s EXCEPT !.call.reply = "sent"]
        BY <1>2, <2>2, <3>1, <3>2
      <4> HIDE DEF s, r
      <4>2. /\ SlotOK(r, store) /\ Settled(r, store) /\ Move(s, r, store)
            /\ r.call.reply = "sent" /\ r.sealRequested = s.sealRequested
            /\ SealOK(s, store) => SealOK(r, store)
        BY ONLY <4>1, ReleasedOK
      <4> QED BY <4>2 DEF s, r
    <3>4. slot[n] # Unopened
      BY <2>2, UnopenedFields, NoCallFields
    <3> QED BY <2>2, <3>3, <3>4
  <2>3. CASE n # rt /\ slot[n].call.reply # "held"
    <3>1. t[n] = slot[n]
      BY <1>4, <2>3
    <3>2. Move(slot[n], slot[n], store)
      BY DEF Move
    <3> QED BY <1>2, <2>3, <3>1, <3>2
  <2> QED BY <2>1, <2>2, <2>3
<1>7. t \in [Mounts -> SlotSet]
  <2>1. \A n \in Mounts : t[n] \in SlotSet
    BY <1>6 DEF SlotOK
  <2> QED BY <2>1 DEF t
<1>8. EpochsOK(t, store)
  <2>1. \A n \in Mounts : t[n].epoch = slot[n].epoch /\ (Alive(t[n]) => Alive(slot[n]))
    BY <1>6, Zenon DEF Move
  <2>2. \A n \in Mounts : Granted(t[n]) => (Granted(slot[n]) /\ t[n].call = slot[n].call)
    BY <1>6 DEF Move, Granted
  <2> QED BY <1>2, <2>1, <2>2, EpochsSame DEF EpochsKept
<1>9. ArrivalsOK(t, store, recorded)
  <2>1. \A n \in Mounts : t[n].buffered \in {slot[n].buffered, <<>>}
    BY <1>6, Zenon DEF Move
  <2>2. \A e \in Pos : Newer(slot, store, e) => Newer(t, store, e)
    BY <1>6, Zenon DEF Move, Newer
  <2> QED BY <1>2, <2>1, <2>2, ArrivalsSame
<1>10. Accounted(t, store, recorded)
  <2>1. store.loss \/ \A n \in Mounts : Kept(slot[n]) \subseteq EventsOf(store.rows) \cup Kept(t[n])
    BY <1>6, Zenon DEF Move
  <2> QED BY <1>2, <2>1, AccountedSame
<1>11. MountsOK(t, live, 0, mounts)
  <2>1. ASSUME NEW n \in Mounts
        PROVE  /\ n > mounts => t[n] = Unopened
               /\ Alive(t[n]) => n \in {live, 0}
               /\ ~(t[n].call.reply = "held")
    <3>1. n > mounts => n # rt
      BY <1>3
    <3>2. Alive(t[n]) => Alive(slot[n])
      BY <1>6, Zenon DEF Move
    <3> QED BY <1>5, <1>6, <3>1, <3>2
  <2>2. 0 \in 0..mounts
    BY <1>3
  <2> QED BY <1>2, <2>1, <2>2, Zenon DEF MountsOK
<1>12. SealsOK(t, store, terminal)
  <2>1. \A n \in Mounts : /\ SealOK(t[n], store) /\ t[n].epoch = slot[n].epoch
                          /\ t[n].sealRequested = slot[n].sealRequested
                          /\ slot[n].buffered = <<>> => t[n].buffered = <<>>
    BY <1>6, InvSeals, Zenon DEF Move
  <2>2. \A k \in Mounts : \A n \in Mounts \ {k} :
          slot[k].sealRequested => slot[n].buffered = <<>> \/ (n < k /\ slot[k].epoch = 0)
    BY InvSeals DEF SealsOK
  <2>3. ~terminal => ~store.sealed /\ \A n \in Mounts : ~t[n].sealRequested
    BY <2>1, InvSeals, Zenon
  <2>4. \A k \in Mounts : \A n \in Mounts \ {k} :
          t[k].sealRequested => t[n].buffered = <<>> \/ (n < k /\ t[k].epoch = 0)
    BY <2>1, <2>2
  <2> QED BY <2>1, <2>3, <2>4, Zenon DEF SealsOK
<1>13. Shared(slot', store, recorded, live', retiring', mounts', terminal)
  BY <1>1, <1>2, <1>6, <1>7, <1>8, <1>9, <1>10, <1>11, <1>12 DEF Shared, Global
<1> QED BY <1>1, <1>2, <1>6, <1>13, ManagedInv

----------------------------------------------------------------------------
(* The invariant is inductive. *)

LEMMA UnopenedOK ==
    ASSUME NEW st \in StoreSet
    PROVE  /\ SlotOK(Unopened, st) /\ Settled(Unopened, st) /\ ~Alive(Unopened)
           /\ ~Granted(Unopened)
<1> DEFINE u == Unopened
<1>1. /\ u.state = "none" /\ u.timer = "none" /\ u.call = NoCall
      /\ u.note = NoCall /\ u.epoch = 0 /\ u.buffered = <<>> /\ u.win = NoWindow
      /\ u.loss = FALSE /\ u.skipped = {} /\ u \in SlotSet
  BY UnopenedFields
<1> HIDE DEF u
<1>2. ~Alive(u) /\ ~HasWindow(u) /\ ~InForce(u, st) /\ ~Granted(u)
  BY <1>1, NoWindowIsEmpty DEF Alive, HasWindow, InForce, Granted
<1>3. LifeOK(u)
  BY <1>1, <1>2 DEF LifeOK
<1>4. CallOK(u, st)
  <2>1. 0 <= st.epoch
    BY StoreFields
  <2> QED BY <1>1, <1>2, <2>1, NoCallFields DEF CallOK
<1>5. SlotOK(u, st) /\ Settled(u, st)
  BY <1>1, <1>2, <1>3, <1>4, NoCallFields DEF SlotOK, Settled
<1> QED BY <1>2, <1>5 DEF u

LEMMA InitInv == Init => Inv
<1> SUFFICES ASSUME Init PROVE Inv
  OBVIOUS
<1> DEFINE o == OpenedSlot(FALSE)
           u == Unopened
           st == store
<1>1. /\ gen = 1 /\ live = 1 /\ mounts = 1 /\ retiring = 0 /\ openRequest = TRUE
      /\ recorded = 0 /\ terminal = FALSE /\ disturbed = 0
      /\ slot = [m \in Mounts |-> IF m = 1 THEN o ELSE u]
      /\ store = [epoch |-> 0, next |-> 1, rows |-> <<>>, sealed |-> FALSE, loss |-> FALSE]
  BY DEF Init
<1>2. 1 \in Mounts /\ MaxEvents \in Nat /\ MaxDisturbances \in Nat /\ \A m \in Mounts : m # 0 /\ m \in Nat
  BY TurnLogAssumption DEF Mounts
<1>3. store \in StoreSet /\ store.next = 1 /\ store.rows = <<>> /\ ~store.sealed
  BY <1>1, NoRows DEF StoreSet, Pos
<1>4. StoreOK(store)
  <2>1. DOMAIN <<>> = 1..(1 - 1) /\ InOrder({})
    BY DEF InOrder
  <2> QED BY <1>3, <2>1, NoRows DEF StoreOK
<1>5. /\ SlotOK(o, st) /\ Settled(o, st) /\ o.epoch = 0 /\ o.buffered = <<>>
      /\ o.win = NoWindow /\ o.call.ops = <<>> /\ ~o.sealRequested
      /\ Alive(o) /\ ~Granted(o) /\ o.call.reply = "sent"
      /\ o.skipped = {} /\ o.call.kind = "open"
  <2>1. gen \in Nat /\ FALSE \in BOOLEAN /\ o = OpenedSlot(FALSE)
    BY <1>1
  <2> HIDE DEF o
  <2> QED BY <1>3, <2>1, OpenedSlotOK
<1>6. /\ SlotOK(u, st) /\ Settled(u, st) /\ u.epoch = 0 /\ u.buffered = <<>>
      /\ u.win = NoWindow /\ u.call.ops = <<>> /\ ~u.sealRequested
      /\ ~Alive(u) /\ ~Granted(u) /\ u.call.reply = "none"
      /\ u.skipped = {} /\ u.call.kind = "none"
  BY <1>3, UnopenedOK, UnopenedFields, NoCallFields
<1>7. slot[1] = o /\ \A m \in Mounts : slot[m] = o \/ slot[m] = u
  BY <1>1, <1>2
<1>m. \A m \in Mounts : m # 1 => slot[m] = u
  BY <1>1
<1>8. slot \in [Mounts -> SlotSet]
  <2>1. o \in SlotSet /\ u \in SlotSet
    BY <1>5, <1>6 DEF SlotOK
  <2> HIDE DEF o, u, Mounts
  <2> QED BY <1>1, <2>1
<1>u. u = Unopened
  OBVIOUS
<1> HIDE DEF o, u, st, Mounts
<1>9. \A m \in Mounts : /\ SlotOK(slot[m], st) /\ Settled(slot[m], st) /\ slot[m].epoch = 0
                        /\ slot[m].buffered = <<>> /\ slot[m].win = NoWindow
                        /\ slot[m].call.ops = <<>> /\ ~slot[m].sealRequested /\ ~Granted(slot[m])
                        /\ slot[m].call.reply # "held" /\ slot[m].skipped = {}
                        /\ slot[m].call.kind # "append"
  BY <1>5, <1>6, <1>7
<1>10. EpochsOK(slot, store)
  BY <1>9, Zenon DEF EpochsOK
<1>11. ArrivalsOK(slot, store, 0)
  <2>1. 0 + 1 = 1 /\ 1 \in Pos /\ 1 <= 1
    BY DEF Pos
  <2>2. StoreBelow(store, 1)
    BY <1>3, <2>1, NoWindowBelow DEF StoreBelow
  <2>3. \A m \in Mounts : Below(slot[m], 1)
    BY <1>9, <2>1, NoWindowBelow DEF Below
  <2>4. DOMAIN <<>> = {}
    OBVIOUS
  <2> QED BY <1>9, <2>1, <2>2, <2>3, <2>4 DEF ArrivalsOK, Newer
<1>12. Accounted(slot, store, 0)
  BY DEF Accounted
<1>13. MountsOK(slot, 1, 0, 1)
  <2>1. ASSUME NEW m \in Mounts
        PROVE  /\ m > 1 => slot[m] = Unopened
               /\ Alive(slot[m]) => m \in {1, 0}
               /\ ~(slot[m].call.reply = "held")
    BY <1>2, <1>6, <1>9, <1>m, <1>u
  <2>2. 0 \in 0..1 /\ 1 \in {0, 1} /\ 1 # 0
    OBVIOUS
  <2> QED BY <1>2, <2>1, <2>2, Zenon DEF MountsOK
<1>s. SealsOK(slot, store, terminal)
  <2>1. \A m \in Mounts : SealOK(slot[m], store)
    BY <1>9, YoungSeals
  <2> QED BY <1>3, <1>9, <2>1, Zenon DEF SealsOK
<1>14. Shared(slot, store, recorded, live, retiring, mounts, terminal)
  BY <1>1, <1>4, <1>8, <1>9, <1>10, <1>11, <1>12, <1>13, <1>s DEF Shared, Global, st
<1>15. Scalars
  <2>1. gen \in Nat /\ 0 \in 0..MaxEvents /\ 0 \in 0..MaxDisturbances
    <3>1. gen = 1 /\ MaxEvents \in Nat /\ MaxDisturbances \in Nat
      BY <1>1, <1>2, Zenon
    <3> QED BY ONLY <3>1
  <2> QED BY <1>1, <2>1, Zenon DEF Scalars
<1> QED BY <1>9, <1>14, <1>15 DEF Inv, st

LEMMA NextInv == Inv /\ [Next]_vars => Inv'
<1> SUFFICES ASSUME Inv, [Next]_vars PROVE Inv'
  OBVIOUS
<1>1. ASSUME NEW kind \in Kinds, RecordEvents(kind) PROVE Inv'
  BY <1>1, RecordEventsInv
<1>2. CASE ReportLoss
  BY <1>2, ReportLossInv
<1>3. CASE SealTurn
  BY <1>3, SealTurnInv
<1>4. ASSUME NEW m \in Mounts, Renderer(m) PROVE Inv'
  <2>1. CASE FlushTimer(m)
    BY <2>1, FlushTimerInv
  <2>2. CASE RetryTimer(m)
    BY <2>2, RetryTimerInv
  <2>3. CASE TakeReply(m)
    BY <2>3, TakeReplyInv
  <2>4. CASE TakeNote(m)
    BY <2>4, TakeNoteInv
  <2> QED BY <1>4, <2>1, <2>2, <2>3, <2>4 DEF Renderer
<1>5. ASSUME NEW m \in Mounts, DrainSlot(m) PROVE Inv'
  BY <1>5, DrainSlotInv
<1>6. ASSUME NEW m \in Mounts, Execute(m) PROVE Inv'
  <2>1. UNCHANGED <<Surroundings, openRequest, recorded, terminal>>
    BY <1>6 DEF Execute
  <2>2. CASE ExecuteOpen(m)
    BY <2>1, <2>2, ExecuteOpenInv
  <2>3. CASE ExecuteAppend(m)
    BY <2>1, <2>3, ExecuteAppendInv
  <2>4. CASE ExecuteNote(m)
    BY <2>1, <2>4, ExecuteNoteInv
  <2>5. CASE FailCall(m)
    BY <2>1, <2>5, FailCallInv
  <2>6. CASE FailNote(m)
    BY <2>1, <2>6, FailNoteInv
  <2> QED BY <1>6, <2>2, <2>3, <2>4, <2>5, <2>6 DEF Execute
<1>7. CASE Unmount
  BY <1>7, UnmountInv
<1>8. CASE Mount
  BY <1>8, MountInv
<1>9. CASE Dispose
  BY <1>9, DisposeInv
<1>10. CASE ChangeProject
  BY <1>10, ChangeProjectInv
<1>11. CASE UNCHANGED vars
  BY <1>11, StutterInv
<1> QED BY <1>1, <1>2, <1>3, <1>4, <1>5, <1>6, <1>7, <1>8, <1>9, <1>10, <1>11, Zenon DEF Next

LEMMA Inductive == Spec => []Inv
BY InitInv, NextInv, PTL DEF Spec

----------------------------------------------------------------------------
(* What follows from the invariant. *)

LEMMA RowsBounded ==
    ASSUME NEW f \in Rowses, NEW n \in 0..MaxEvents, MaxEvents \in Nat, RowsBelow(f, n + 1)
    PROVE  AreRows(f)
<1>1. DOMAIN f \subseteq Pos /\ \A k \in DOMAIN f : f[k] \subseteq Pos
  BY RowsesElim
<1>2. \A x \in Pos : x < n + 1 => x \in Events
  BY DEF Pos, Events
<1>3. DOMAIN f \subseteq Events
  BY <1>1, <1>2 DEF RowsBelow
<1>4. \A k \in DOMAIN f : \A x \in f[k] : x \in Events
  BY <1>1, <1>2 DEF RowsBelow
<1>5. EventsOf(f) \subseteq Events
  BY <1>4, EventsOfIn
<1> QED BY <1>3, <1>5 DEF AreRows

LEMMA RowBounded ==
    ASSUME NEW row \in RowSet, NEW n \in 0..MaxEvents, MaxEvents \in Nat, RowBelow(row, n + 1)
    PROVE  IsRow(row)
<1>1. row.seq \in Nat /\ row.events \subseteq Pos
  BY DEF RowSet
<1>2. row.seq < n + 1 /\ \A x \in row.events : x < n + 1
  BY DEF RowBelow
<1>3. row.seq \in 0..MaxEvents
  BY <1>1, <1>2
<1>4. row.events \subseteq Events
  BY <1>1, <1>2 DEF Events, Pos
<1> QED BY <1>3, <1>4 DEF IsRow

LEMMA CallBounded ==
    ASSUME NEW c \in CallSet, NEW st, st = store, c.epoch <= st.epoch, AreRows(c.ops)
    PROVE  IsCall(c)
<1>1. /\ c.kind \in {"none", "open", "reopen", "append", "note"}
      /\ c.reply \in Replies
  BY CallFields
<1> QED BY <1>1 DEF IsCall, Replies

LEMMA SlotBounded ==
    ASSUME NEW s, SlotOK(s, store), Settled(s, store), Below(s, recorded + 1),
           recorded \in 0..MaxEvents, MaxEvents \in Nat
    PROVE  IsSlot(s)
<1>1. s \in SlotSet /\ LifeOK(s) /\ CallOK(s, store)
  BY DEF SlotOK
<1>2. /\ s.state \in {"none", "opening", "writing", "retrying", "stopped", "gone"}
      /\ s.gen \in Nat /\ s.win \in WindowSet /\ s.maxBatch \in 1..MaxBatch
      /\ s.timer \in {"none", "flush", "retry"} /\ s.call \in CallSet /\ s.note \in CallSet
  BY <1>1, SlotFields
<1>3. /\ s.win.dirty \in Rowses /\ s.win.tail \in RowSet /\ s.win.snapshot \in RowSet
      /\ s.call.ops \in Rowses
  BY <1>2, WindowFields, CallFields
<1>4. /\ RowsBelow(s.win.dirty, recorded + 1) /\ RowBelow(s.win.tail, recorded + 1)
      /\ RowBelow(s.win.snapshot, recorded + 1) /\ RowsBelow(s.call.ops, recorded + 1)
  BY Zenon DEF Below, WindowBelow
<1>5. AreRows(s.win.dirty) /\ IsRow(s.win.tail) /\ IsRow(s.win.snapshot) /\ AreRows(s.call.ops)
  BY <1>3, <1>4, RowsBounded, RowBounded
<1>6. AreRows(s.note.ops)
  <2>1. s.note.ops = <<>>
    BY <1>1, NoCallFields DEF CallOK
  <2> QED BY <2>1, NoRows DEF AreRows
<1>7. IsCall(s.call) /\ IsCall(s.note)
  <2>1. s.call.epoch <= store.epoch /\ s.note.epoch <= store.epoch
    BY <1>1 DEF CallOK
  <2> QED BY <1>2, <1>5, <1>6, <2>1, CallBounded
<1>8. s.state = "retrying" <=> (s.timer = "retry" \/ (s.state = "retrying" /\ s.call # NoCall))
  BY <1>1, Zenon DEF LifeOK, Settled
<1> QED BY <1>2, <1>5, <1>7, <1>8 DEF IsSlot

LEMMA TypesHold == Inv => TypeOK
<1> SUFFICES ASSUME Inv PROVE TypeOK
  OBVIOUS
<1>1. /\ gen \in Nat /\ recorded \in 0..MaxEvents /\ terminal \in BOOLEAN
      /\ disturbed \in 0..MaxDisturbances /\ openRequest \in BOOLEAN /\ MaxEvents \in Nat
      /\ store \in StoreSet /\ MountsOK(slot, live, retiring, mounts)
      /\ \A m \in Mounts : SlotOK(slot[m], store) /\ Settled(slot[m], store)
  BY InvParts
<1>2. StoreBelow(store, recorded + 1) /\ \A m \in Mounts : Below(slot[m], recorded + 1)
  BY Zenon DEF Inv, Shared, Global, ArrivalsOK, Newer
<1>3. \A m \in Mounts : IsSlot(slot[m])
  BY <1>1, <1>2, SlotBounded
<1>4. AreRows(store.rows)
  BY <1>1, <1>2, StoreFields, RowsBounded DEF StoreBelow
<1>5. store.sealed \in BOOLEAN /\ store.loss \in BOOLEAN
  BY <1>1, StoreFields
<1>6. {live, retiring} \subseteq 0..mounts /\ mounts \in Mounts
  <2>1. mounts \in Mounts /\ live \in {0, mounts} /\ retiring \in 0..mounts
    BY <1>1, Zenon DEF MountsOK
  <2> QED BY <2>1 DEF Mounts
<1> QED BY <1>1, <1>3, <1>4, <1>5, <1>6 DEF TypeOK

(* The least element that Min chooses. *)
LEMMA MinIs ==
    ASSUME NEW S, S \subseteq Nat, S # {}
    PROVE  Least(S, Min(S))
<1>1. PICK x \in S : \A y \in S : x <= y
  BY LeastNumber
<1>2. Min(S) \in S /\ \A y \in S : Min(S) <= y
  BY <1>1, Zenon DEF Min
<1> QED BY <1>2 DEF Least

LEMMA StoredIsInOrder ==
    ASSUME StoreOK(store)
    PROVE  StoredOnceInOrder
<1> DEFINE rows == store.rows
<1>1. rows \in Rowses /\ DOMAIN rows = 1..(store.next - 1) /\ InOrder(Rows(rows))
  BY StoreFields DEF StoreOK
<1>2. \A i \in DOMAIN rows : rows[i] \subseteq Pos
  BY <1>1, RowsesElim
<1> HIDE DEF rows
<1>3. ASSUME NEW i \in DOMAIN rows, NEW j \in DOMAIN rows, i < j, rows[i] # {}, rows[j] # {}
      PROVE  rows[i] \cap rows[j] = {} /\ Min(rows[i]) < Min(rows[j])
  <2>1. Least(rows[i], Min(rows[i])) /\ Least(rows[j], Min(rows[j]))
    BY <1>2, <1>3, MinIs DEF Pos
  <2>2. Min(rows[i]) \in rows[i] /\ Min(rows[j]) \in rows[j]
    BY <2>1 DEF Least
  <2> DEFINE v == <<i, rows[i]>>
             w == <<j, rows[j]>>
  <2>3. v \in Rows(rows) /\ w \in Rows(rows)
    BY <1>1, RowsIn
  <2>4. v[1] = i /\ v[2] = rows[i] /\ w[1] = j /\ w[2] = rows[j]
    OBVIOUS
  <2> HIDE DEF v, w
  <2> QED BY <1>1, <1>3, <2>1, <2>2, <2>3, <2>4, Zenon DEF InOrder
<1> QED BY <1>1, <1>3, Zenon DEF StoredOnceInOrder, rows

LEMMA HolderKnowsTheEnd ==
    ASSUME NEW s, SlotOK(s, store), Settled(s, store), StoreOK(store), Alive(s)
    PROVE  /\ s.expected <= store.next
           /\ (s.state = "writing" /\ s.call = NoCall) => s.expected = store.next
<1>1. store.next \in Pos
  BY StoreFields DEF StoreOK
<1>2. CASE HasWindow(s)
  <2>1. s.expected \in 1..store.next
    BY <1>2, Zenon DEF SlotOK, WindowOK
  <2> QED BY <1>1, <2>1 DEF Settled, Pos
<1>3. CASE ~HasWindow(s)
  <2>1. s.expected = 0
    BY <1>3, Zenon DEF SlotOK, LifeOK
  <2> QED BY <1>1, <2>1 DEF Settled, Pos
<1> QED BY <1>2, <1>3

LEMMA WritersAgree == Inv => WritersAgreeWithTheStore
<1> SUFFICES ASSUME Inv PROVE WritersAgreeWithTheStore
  OBVIOUS
<1>1. StoreOK(store) /\ \A m \in Mounts : SlotOK(slot[m], store) /\ Settled(slot[m], store)
  BY InvParts
<1>2. StoredOnceInOrder
  BY <1>1, StoredIsInOrder
<1>3. LeaseHolderKnowsTheEnd
  BY <1>1, HolderKnowsTheEnd DEF LeaseHolderKnowsTheEnd
<1> QED BY <1>2, <1>3 DEF WritersAgreeWithTheStore

LEMMA EventsAccountedFor == Inv => EveryEventAccountedFor
<1> SUFFICES ASSUME Inv PROVE EveryEventAccountedFor
  OBVIOUS
<1>1. Accounted(slot, store, recorded)
  BY Zenon DEF Inv, Shared, Global
<1>2. \A m \in Mounts : slot[m].skipped # {} => Alive(slot[m]) /\ slot[m].loss
  <2>1. \A m \in Mounts : LifeOK(slot[m])
    BY InvParts DEF SlotOK
  <2> QED BY <2>1, Zenon DEF LifeOK
<1>3. CASE store.loss
  BY <1>3 DEF EveryEventAccountedFor
<1>4. CASE \E m \in Mounts : slot[m].skipped # {}
  BY <1>2, <1>4, Zenon DEF EveryEventAccountedFor
<1>5. CASE ~store.loss /\ \A m \in Mounts : slot[m].skipped = {}
  <2>1. \A m \in Mounts : Kept(slot[m]) = Pending(slot[m]) \cup slot[m].unsaid
    BY <1>5, Zenon DEF Kept
  <2>2. 1..recorded \subseteq Stored \cup UNION {Kept(slot[m]) : m \in Mounts}
    BY <1>1, <1>5, Zenon DEF Accounted, Stored
  <2>3. UNION {Kept(slot[m]) : m \in Mounts}
          \subseteq UNION {Pending(slot[m]) \cup slot[m].unsaid : m \in Mounts}
    BY <2>1, Zenon
  <2> QED BY <2>2, <2>3, Zenon DEF EveryEventAccountedFor
<1> QED BY <1>3, <1>4, <1>5, Zenon

----------------------------------------------------------------------------
(* Every variable keeps its type; a slot that waits to retry has a timer or *)
(* a call of an earlier flush under way (retryLater and flushOnce of        *)
(* agentTurnLogWriter.ts), and shrinkBatch never leaves a batch size of 0.  *)
THEOREM TypesAreKept == Spec => []TypeOK
BY Inductive, TypesHold, PTL

(* However the calls of successive writers overlap, fail, lose their reply  *)
(* and are tried again (agentTurnLogWriter.ts, useAgentTurnLogging.ts), the *)
(* rows that append stores (src-tauri/src/agent_turn_log) have no hole, no  *)
(* event twice, and the order in which their first events arrived, and the  *)
(* writer with the last lease knows where the log ends when it appends.     *)
THEOREM WritersAndStoreAgree == Spec => []WritersAgreeWithTheStore
BY Inductive, WritersAgree, PTL

(* Of the events that recordEvents took, none is lost behind the reader's   *)
(* back: it is stored, pending in a window or a buffer (agentTurnWindow.ts),*)
(* covered by a recorded loss, or dropped at one of the four places where   *)
(* agentTurnLogWriter.ts says nothing: the stop of a slot that never had a  *)
(* lease, a stop whose loss-only append was refused or failed, dispose past *)
(* the flush budget, and the reconciliation of a batch that changed after   *)
(* the reply to its first try was lost.  A slot that stops because the log  *)
(* is sealed drops nothing unseen.                                          *)
THEOREM NoEventIsLostUnseen == Spec => []EveryEventAccountedFor
BY Inductive, EventsAccountedFor, PTL

----------------------------------------------------------------------------
(* What a step may do to the stored rows. *)

RowsGrow ==
    store'.loss \/ \A seq \in DOMAIN store.rows :
                      /\ seq \in DOMAIN store'.rows
                      /\ store.rows[seq] \subseteq store'.rows[seq]

LEMMA SameRowsGrow ==
    ASSUME store'.rows = store.rows
    PROVE  RowsGrow
BY DEF RowsGrow

(* The holder of the last lease appends rows that cover what is stored of   *)
(* them, or a loss.                                                         *)
LEMMA AppendGrows ==
    ASSUME Inv, NEW m \in Mounts, ExecuteAppend(m)
    PROVE  RowsGrow
<1> DEFINE s == slot[m]
           c == s.call
<1>1. SlotOK(s, store) /\ store \in StoreSet
  BY InvParts
<1>2. c.kind = "append" /\ store' = IF Refusal(c) = "ok" THEN Appended(c) ELSE store
  BY Zenon DEF ExecuteAppend
<1>3. c \in CallSet /\ AppendOK(s, c, store)
  <2>1. s \in SlotSet /\ AppendOK(s, c, store)
    BY <1>1, <1>2 DEF SlotOK
  <2> QED BY <2>1, SlotFields
<1> HIDE DEF c, s
<1>4. CASE Refusal(c) # "ok"
  BY <1>2, <1>4, SameRowsGrow
<1>5. CASE Refusal(c) = "ok"
  <2>1. Extends(store', store, c)
    <3>1. store' = Appended(c) /\ IsFiniteSet(DOMAIN c.ops)
      BY <1>2, <1>3, <1>5 DEF AppendOK
    <3> QED BY <1>1, <1>3, <3>1, AppendedFields
  <2>2. c.loss \/ Covers(c.ops, store.rows)
    <3>1. c.epoch = store.epoch
      BY <1>5, RefusalCases
    <3> QED BY <1>3, <3>1 DEF AppendOK, InForce
  <2>3. CASE c.loss
    BY <2>1, <2>3, Zenon DEF Extends, RowsGrow
  <2>4. CASE Covers(c.ops, store.rows)
    <3>1. store'.rows = Merged(store.rows, c.ops)
      BY <2>1, Zenon DEF Extends
    <3> QED BY <2>4, <3>1 DEF Merged, Covers, RowsGrow
  <2> QED BY <2>2, <2>3, <2>4
<1> QED BY <1>4, <1>5

LEMMA NoteGrows ==
    ASSUME Inv, NEW m \in Mounts, ExecuteNote(m)
    PROVE  RowsGrow
<1> DEFINE note == slot[m].note
<1>1. SlotOK(slot[m], store) /\ store \in StoreSet
  BY InvParts
<1>2. note.reply = "sent" /\ store' = IF Refusal(note) = "ok" THEN Appended(note) ELSE store
  BY DEF ExecuteNote, Sent
<1>3. note.ops = <<>> /\ note.loss = TRUE /\ note.seal = FALSE
  BY <1>1, <1>2, SentNoteFields
<1> HIDE DEF note
<1>4. CASE Refusal(note) = "ok"
  <2>1. store' = Appended(note)
    BY <1>2, <1>4
  <2>2. store'.rows = store.rows
    BY <1>1, <1>3, <2>1, AppendedNothing
  <2> QED BY <2>2, SameRowsGrow
<1>5. CASE Refusal(note) # "ok"
  BY <1>2, <1>5, SameRowsGrow
<1> QED BY <1>4, <1>5

LEMMA StepGrows == Inv /\ [Next]_vars => [RowsGrow]_vars
<1> SUFFICES ASSUME Inv, Next PROVE RowsGrow
  OBVIOUS
<1>1. ASSUME NEW m \in Mounts, Execute(m) PROVE RowsGrow
  <2>1. CASE ExecuteOpen(m)
    <3>1. store \in StoreSet /\ store' = [store EXCEPT !.epoch = @ + 1]
      BY <2>1, InvParts DEF ExecuteOpen
    <3>2. store'.rows = store.rows
      BY <3>1 DEF StoreSet
    <3> QED BY <3>2, SameRowsGrow
  <2>2. CASE ExecuteAppend(m)
    BY <2>2, AppendGrows
  <2>3. CASE ExecuteNote(m)
    BY <2>3, NoteGrows
  <2>4. CASE FailCall(m) \/ FailNote(m)
    BY <2>4, SameRowsGrow DEF FailCall, FailNote
  <2> QED BY <1>1, <2>1, <2>2, <2>3, <2>4 DEF Execute
<1>2. CASE \/ \E kind \in Kinds : RecordEvents(kind)
           \/ ReportLoss \/ SealTurn \/ \E m \in Mounts : Renderer(m) \/ DrainSlot(m)
           \/ Unmount \/ Mount \/ Dispose \/ ChangeProject
  <2>1. store' = store
    BY <1>2, Zenon DEF RecordEvents, ReportLoss, SealTurn, Renderer, FlushTimer, RetryTimer,
                       TakeReply, TakeNote, DrainSlot, Unmount, Mount, Dispose, ChangeProject
  <2> QED BY <2>1, SameRowsGrow
<1> QED BY <1>1, <1>2, Zenon DEF Next

(* The rows that the store has of the turn (append.rs) only grow, whatever  *)
(* batch, retry, clipped row (shrinkBatch of agentTurnLogWriter.ts) or      *)
(* second writer comes, unless the log says that something is missing.      *)
THEOREM StoredRowsStay == Spec => RowsOnlyGrow
<1>1. Inv /\ [Next]_vars => [RowsGrow]_vars
  BY StepGrows
<1> QED BY <1>1, Inductive, PTL DEF Spec, RowsOnlyGrow, RowsGrow
=============================================================================
