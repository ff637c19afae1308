--------------------- MODULE AgentStopControllerProofs ---------------------
(***************************************************************************)
(* For any threads, turns, presses and switches, and any limit of the      *)
(* remembered interrupts, a hard stop of the controller is one the user    *)
(* pressed for, a second press is one, and background work dies only under *)
(* the banner that asked about it.                                         *)
(***************************************************************************)
EXTENDS AgentStopController, SequenceTheorems, TLAPS

----------------------------------------------------------------------------
(* The memory of interrupts: a Map, which has one entry for a thread and     *)
(* gives the oldest up when it is full.                                      *)

Entries == Threads \X Nat

OnePerThread(s) == \A i, j \in 1..Len(s) : s[i][1] = s[j][1] => i = j

MemoryOK ==
    /\ interrupted \in Seq(Entries)
    /\ Len(interrupted) <= MaxRemembered
    /\ OnePerThread(interrupted)

(* Taking out what is at a position.                                        *)
LEMMA Removed ==
  ASSUME NEW s \in Seq(Entries), NEW p \in 1..Len(s)
  PROVE  /\ RemoveAt(s, p) \in Seq(Entries)
         /\ Len(RemoveAt(s, p)) = Len(s) - 1
         /\ \A i \in 1..Len(s) - 1 :
              RemoveAt(s, p)[i] = IF i < p THEN s[i] ELSE s[i + 1]
  <1> DEFINE a == SubSeq(s, 1, p - 1)
             c == SubSeq(s, p + 1, Len(s))
  <1>0. Len(s) \in Nat /\ p \in Nat /\ 1 <= p /\ p <= Len(s)
        /\ \A i \in 1..Len(s) : s[i] \in Entries
    BY LenProperties, ElementOfSeq
  <1>1. /\ a \in Seq(Entries) /\ Len(a) = p - 1
        /\ \A i \in 1..(p - 1) : a[i] = s[i]
    <2>1. \A i \in 1..(p - 1) : s[i] \in Entries
      BY <1>0
    <2>2. /\ a \in Seq(Entries)
          /\ Len(a) = IF 1 <= p - 1 THEN (p - 1) - 1 + 1 ELSE 0
          /\ \A i \in 1..((p - 1) - 1 + 1) : a[i] = s[1 + i - 1]
      BY <1>0, <2>1, SubSeqProperties
    <2> QED BY <1>0, <2>2
  <1>2. /\ c \in Seq(Entries) /\ Len(c) = Len(s) - p
        /\ \A i \in 1..(Len(s) - p) : c[i] = s[p + i]
    <2>1. \A i \in (p + 1)..Len(s) : s[i] \in Entries
      BY <1>0
    <2>2. /\ c \in Seq(Entries)
          /\ Len(c) = IF p + 1 <= Len(s) THEN Len(s) - (p + 1) + 1 ELSE 0
          /\ \A i \in 1..(Len(s) - (p + 1) + 1) : c[i] = s[(p + 1) + i - 1]
      BY <1>0, <2>1, SubSeqProperties
    <2> QED BY <1>0, <2>2
  <1> HIDE DEF a, c
  <1>3. /\ a \o c \in Seq(Entries)
        /\ Len(a \o c) = Len(a) + Len(c)
        /\ \A i \in 1..(Len(a) + Len(c)) :
              (a \o c)[i] = IF i <= Len(a) THEN a[i] ELSE c[i - Len(a)]
    BY <1>1, <1>2, ConcatProperties
  <1>4. Len(a \o c) = Len(s) - 1
    BY <1>0, <1>1, <1>2, <1>3
  <1>5. ASSUME NEW i \in 1..Len(s) - 1
        PROVE  (a \o c)[i] = IF i < p THEN s[i] ELSE s[i + 1]
    <2>0. i \in 1..(Len(a) + Len(c))
      BY <1>0, <1>1, <1>2
    <2>1. CASE i < p
      <3>1. i \in 1..(p - 1) /\ i <= Len(a)
        BY <1>0, <1>1, <2>1
      <3> QED BY <1>1, <1>3, <2>0, <2>1, <3>1
    <2>2. CASE ~(i < p)
      <3>1. ~(i <= Len(a)) /\ i - Len(a) = i - p + 1
        BY <1>0, <1>1, <2>2
      <3>2. i - p + 1 \in 1..(Len(s) - p) /\ p + (i - p + 1) = i + 1
        BY <1>0, <2>2
      <3> QED BY <1>2, <1>3, <2>0, <2>2, <3>1, <3>2
    <2> QED BY <2>1, <2>2
  <1> QED BY <1>3, <1>4, <1>5 DEF RemoveAt, a, c

(* Map.delete takes out the entry of the thread and no other.                *)
LEMMA OthersStay ==
  ASSUME MemoryOK, NEW h
  PROVE  /\ OfOther(h) \in Seq(Entries)
         /\ Len(OfOther(h)) <= Len(interrupted)
         /\ OnePerThread(OfOther(h))
         /\ \A e : Contains(OfOther(h), e) <=> Contains(interrupted, e) /\ e[1] # h
  <1> DEFINE s == interrupted
  <1>0. s \in Seq(Entries) /\ OnePerThread(s) /\ Len(s) \in Nat
    BY LenProperties DEF MemoryOK
  <1>1. CASE Places(h) = {}
    <2>1. OfOther(h) = s
      BY <1>1 DEF OfOther
    <2>2. \A e : Contains(s, e) => e[1] # h
      BY <1>1 DEF Contains, Places
    <2> QED BY <1>0, <2>1, <2>2
  <1>2. CASE Places(h) # {}
    <2> DEFINE p == CHOOSE i \in Places(h) : TRUE
               w == RemoveAt(s, p)
    <2>1. p \in 1..Len(s) /\ s[p][1] = h
      BY <1>2 DEF Places
    <2>2. OfOther(h) = w
      BY <1>2 DEF OfOther
    <2> HIDE DEF p
    <2>3. /\ w \in Seq(Entries) /\ Len(w) = Len(s) - 1
          /\ \A i \in 1..Len(s) - 1 : w[i] = IF i < p THEN s[i] ELSE s[i + 1]
      BY <1>0, <2>1, Removed
    <2> HIDE DEF w
    <2>4. OnePerThread(w)
      <3> SUFFICES ASSUME NEW i \in 1..Len(w), NEW j \in 1..Len(w), w[i][1] = w[j][1]
                   PROVE  i = j
        BY DEF OnePerThread
      <3> DEFINE f(k) == IF k < p THEN k ELSE k + 1
      <3>1. f(i) \in 1..Len(s) /\ f(j) \in 1..Len(s)
        BY <1>0, <2>1, <2>3
      <3>2. w[i] = s[f(i)] /\ w[j] = s[f(j)]
        BY <1>0, <2>3
      <3>3. f(i) = f(j)
        BY <1>0, <3>1, <3>2 DEF OnePerThread
      <3> QED BY <1>0, <2>1, <3>3
    <2>5. ASSUME NEW e, Contains(w, e)
          PROVE  Contains(s, e) /\ e[1] # h
      <3>1. PICK i \in 1..Len(w) : w[i] = e
        BY <2>5 DEF Contains
      <3>2. PICK k \in 1..Len(s) : e = s[k] /\ k # p
        <4>1. CASE i < p
          BY <1>0, <2>1, <2>3, <3>1, <4>1
        <4>2. CASE ~(i < p)
          <5>1. i + 1 \in 1..Len(s) /\ i + 1 # p /\ e = s[i + 1]
            BY <1>0, <2>1, <2>3, <3>1, <4>2
          <5> QED BY <5>1
        <4> QED BY <4>1, <4>2
      <3>3. e[1] # h
        BY <1>0, <2>1, <3>2 DEF OnePerThread
      <3> QED BY <3>2, <3>3 DEF Contains
    <2>6. ASSUME NEW e, Contains(s, e), e[1] # h
          PROVE  Contains(w, e)
      <3>1. PICK k \in 1..Len(s) : s[k] = e
        BY <2>6 DEF Contains
      <3>2. k # p
        BY <2>1, <2>6, <3>1
      <3>3. CASE k < p
        <4>1. k \in 1..Len(w) /\ w[k] = e
          BY <1>0, <2>1, <2>3, <3>1, <3>3
        <4> QED BY <4>1 DEF Contains
      <3>4. CASE ~(k < p)
        <4>1. k - 1 \in 1..Len(w) /\ ~(k - 1 < p) /\ (k - 1) + 1 = k
          BY <1>0, <2>1, <2>3, <3>2, <3>4
        <4>2. w[k - 1] = e
          BY <2>3, <3>1, <4>1
        <4> QED BY <4>1, <4>2 DEF Contains
      <3> QED BY <3>3, <3>4
    <2>7. Len(w) <= Len(s)
      BY <1>0, <2>3
    <2> QED BY <2>2, <2>3, <2>4, <2>5, <2>6, <2>7
  <1> QED BY <1>1, <1>2

(* rememberInterrupt: the newest entry is there, and what else there is was  *)
(* there before, under another thread.                                       *)
LEMMA Remembering ==
  ASSUME MemoryOK, NEW h \in Threads, NEW n \in Nat
  PROVE  /\ Remember(h, n) \in Seq(Entries)
         /\ Len(Remember(h, n)) <= MaxRemembered
         /\ OnePerThread(Remember(h, n))
         /\ Contains(Remember(h, n), <<h, n>>)
         /\ \A e : Contains(Remember(h, n), e) =>
                     e = <<h, n>> \/ (Contains(interrupted, e) /\ e[1] # h)
  <1> DEFINE s == OfOther(h)
             e0 == <<h, n>>
             all == Append(s, e0)
             t == Tail(all)
  <1>0. MaxRemembered \in Nat /\ 1 <= MaxRemembered
    BY StopControllerAssumption
  <1>1. /\ s \in Seq(Entries) /\ Len(s) \in Nat /\ Len(s) <= MaxRemembered
        /\ OnePerThread(s)
        /\ \A e : Contains(s, e) => Contains(interrupted, e) /\ e[1] # h
    BY <1>0, OthersStay, LenProperties DEF MemoryOK
  <1> HIDE DEF s
  <1>2. e0 \in Entries /\ e0[1] = h
    BY DEF Entries
  <1> HIDE DEF e0
  <1>3. /\ all \in Seq(Entries) /\ Len(all) = Len(s) + 1
        /\ \A i \in 1..Len(s) : all[i] = s[i]
        /\ all[Len(s) + 1] = e0
    BY <1>1, <1>2, AppendProperties
  <1>4. /\ t \in Seq(Entries) /\ Len(t) = Len(s)
        /\ \A i \in 1..Len(s) : t[i] = all[i + 1]
    <2>1. all # <<>>
      BY <1>1, <1>3, EmptySeq
    <2>2. /\ t \in Seq(Entries) /\ Len(t) = Len(all) - 1
          /\ \A i \in 1..Len(t) : t[i] = all[i + 1]
      BY <1>3, <2>1, HeadTailProperties
    <2> QED BY <1>1, <1>3, <2>2
  <1> HIDE DEF all, t
  <1>5. \A i \in 1..Len(all) : i \in 1..Len(s) \/ i = Len(s) + 1
    BY <1>1, <1>3
  <1>6. OnePerThread(all)
    <2>1. \A i \in 1..Len(s) : s[i][1] # h
      BY <1>1 DEF Contains
    <2> SUFFICES ASSUME NEW i \in 1..Len(all), NEW j \in 1..Len(all), all[i][1] = all[j][1]
                 PROVE  i = j
      BY DEF OnePerThread
    <2>2. CASE i \in 1..Len(s) /\ j \in 1..Len(s)
      BY <1>1, <1>3, <2>2 DEF OnePerThread
    <2>3. CASE i = Len(s) + 1 \/ j = Len(s) + 1
      BY <1>2, <1>3, <1>5, <2>1, <2>3
    <2> QED BY <1>5, <2>2, <2>3
  <1>7. \A e : Contains(all, e) => e = e0 \/ (Contains(interrupted, e) /\ e[1] # h)
    <2>1. \A e : Contains(all, e) => e = e0 \/ Contains(s, e)
      BY <1>3, <1>5 DEF Contains
    <2> QED BY <1>1, <2>1
  <1>8. Contains(all, e0)
    <2>1. Len(s) + 1 \in 1..Len(all)
      BY <1>1, <1>3
    <2> QED BY <1>3, <2>1 DEF Contains
  <1>9. CASE ~(Len(all) > MaxRemembered)
    <2>1. Remember(h, n) = all
      BY <1>9 DEF Remember, all, s, e0
    <2>2. Len(all) <= MaxRemembered
      BY <1>0, <1>1, <1>3, <1>9
    <2> QED BY <1>3, <1>6, <1>7, <1>8, <2>1, <2>2 DEF e0
  <1>10. CASE Len(all) > MaxRemembered
    <2>1. Remember(h, n) = t
      BY <1>10 DEF Remember, t, all, s, e0
    <2>2. \A i \in 1..Len(t) : i + 1 \in 1..Len(all) /\ t[i] = all[i + 1]
      BY <1>1, <1>3, <1>4
    <2>3. OnePerThread(t)
      <3> SUFFICES ASSUME NEW i \in 1..Len(t), NEW j \in 1..Len(t), t[i][1] = t[j][1]
                   PROVE  i = j
        BY DEF OnePerThread
      <3>1. i + 1 = j + 1
        BY <1>6, <2>2 DEF OnePerThread
      <3> QED BY <1>1, <1>4, <3>1
    <2>4. \A e : Contains(t, e) => Contains(all, e)
      BY <2>2 DEF Contains
    <2>5. Contains(t, e0)
      <3>1. 1 <= Len(s)
        BY <1>0, <1>1, <1>3, <1>10
      <3>2. Len(s) \in 1..Len(t) /\ t[Len(s)] = e0
        BY <1>1, <1>3, <1>4, <3>1
      <3> QED BY <3>2 DEF Contains
    <2> QED BY <1>1, <1>4, <1>7, <2>1, <2>3, <2>4, <2>5 DEF e0
  <1> QED BY <1>9, <1>10

(* forgetInterrupt: only if the turn is the remembered one, and then its     *)
(* thread.                                                                   *)
LEMMA Forgetting ==
  ASSUME MemoryOK, NEW h, NEW n
  PROVE  /\ Forget(h, n) \in Seq(Entries)
         /\ Len(Forget(h, n)) <= MaxRemembered
         /\ OnePerThread(Forget(h, n))
         /\ \A e : Contains(Forget(h, n), e) <=>
                     Contains(interrupted, e) /\ (Remembered(h, n) => e[1] # h)
  <1>0. MaxRemembered \in Nat /\ Len(interrupted) \in Nat /\ Len(OfOther(h)) \in Nat
    BY StopControllerAssumption, OthersStay, LenProperties DEF MemoryOK
  <1>1. CASE Remembered(h, n)
    <2>1. Forget(h, n) = OfOther(h)
      BY <1>1 DEF Forget
    <2>2. Len(OfOther(h)) <= MaxRemembered
      BY <1>0, OthersStay DEF MemoryOK
    <2> QED BY <1>1, <2>1, <2>2, OthersStay
  <1>2. CASE ~Remembered(h, n)
    BY <1>2 DEF Forget, MemoryOK
  <1> QED BY <1>1, <1>2

(* Two entries of one thread are one.                                        *)
LEMMA OneEntry ==
  ASSUME MemoryOK, NEW h, NEW m, NEW n, Remembered(h, m), Remembered(h, n)
  PROVE  m = n
  <1>1. PICK i \in 1..Len(interrupted) : interrupted[i] = <<h, m>>
    BY DEF Remembered, Contains
  <1>2. PICK j \in 1..Len(interrupted) : interrupted[j] = <<h, n>>
    BY DEF Remembered, Contains
  <1>3. i = j
    BY <1>1, <1>2 DEF MemoryOK, OnePerThread
  <1> QED BY <1>1, <1>2, <1>3

----------------------------------------------------------------------------
(* The inductive invariant.                                                 *)

Replies == {"waiting", "accepted", "refused"}

(* The threads: what is marked of a turn is marked while it runs.           *)
ThreadsOK ==
    /\ turn \in [Threads -> [n : Nat, running : BOOLEAN, foreground : BOOLEAN, tasks : BOOLEAN]]
    /\ \A h \in Threads :
         /\ turn[h].n <= MaxTurns[h]
         /\ turn[h].running => turn[h].n # NoTurn
         /\ turn[h].foreground \/ turn[h].tasks => turn[h].running
    /\ session \subseteq Threads
    /\ marks \in [Threads -> SUBSET Marks]
    /\ \A h \in Threads : marks[h] # {} => turn[h].running

(* The composer and the controller.                                         *)
ComposerOK ==
    /\ selected \in Threads
    /\ seen \in [run : Nat, idle : BOOLEAN, thread : Threads]
    /\ early \in BOOLEAN
    /\ arm \in [thread : Threads \cup {Nothing}, turn : Nat, live : BOOLEAN]
    /\ arm = NoArm \/ (arm.thread \in Threads /\ arm.turn \in 0..MaxTurns[arm.thread])
    /\ banner \in [kind : {"none", "confirmBackground", "confirmSession", "interrupting"},
                   thread : Threads \cup {Nothing}, turn : Nat]

(* The interrupts under way: each for a turn there was.                     *)
CallsOK ==
    /\ presses \in 0..MaxPresses /\ switches \in 0..MaxSwitches
    /\ calls \subseteq [id : Nat, thread : Threads, turn : Nat, reply : Replies]
    /\ attempt # 0 => \E call \in calls : call.id = attempt
    /\ \A call \in calls : call.turn # NoTurn /\ call.turn <= turn[call.thread].n

(* An interrupt was asked for the turn it reaches, ...                      *)
CallsWereAsked ==
    \A call \in calls :
        Runs(call.thread, call.turn) => {"pressed", "urgent"} \subseteq marks[call.thread]

(* ... which is shown, or the user has left it.                             *)
CallsAreShown ==
    \A call \in calls :
        Runs(call.thread, call.turn) => call.thread = selected \/ "lapsed" \in marks[call.thread]

(* What is remembered is an interrupt of a turn there was, asked for with urgency.          *)
MemoryWasAsked ==
    \A h \in Threads : \A n \in Nat :
        Remembered(h, n) => n <= turn[h].n /\ (Runs(h, n) => "urgent" \in marks[h])

(* A turn asked for with urgency was stopped, is remembered, or the user has left it.       *)
UrgentIsKept ==
    \A h \in Threads :
        "urgent" \in marks[h] =>
            marks[h] \cap {"stopped", "lapsed"} # {} \/ Remembered(h, turn[h].n)

(* An arm that a second press can meet: of a running turn, or of a session. *)
ArmCounts == arm.live /\ (arm.turn # NoTurn => Runs(arm.thread, arm.turn))

(* The effects know the view it was set on, and withdraw it when that goes. *)
ArmIsWatched ==
    IF arm.turn = NoTurn
    THEN \/ seen.idle /\ seen.thread = arm.thread
         \/ early /\ selected = arm.thread /\ View.idle
    ELSE \/ seen.run = arm.turn /\ seen.thread = arm.thread
         \/ early /\ selected = arm.thread

ArmIsBannered ==
    /\ banner.thread = arm.thread
    /\ IF arm.turn = NoTurn THEN banner.kind = "confirmSession" ELSE banner.turn = arm.turn

(* An arm is for a turn there was, or for a session.                        *)
ArmIsOld == arm.thread \in Threads => arm.turn <= turn[arm.thread].n

(* An arm that counts is watched, and on its thread the banner that asks for the second     *)
(* press is still there: no interrupt of that thread is under way which could replace the   *)
(* question about a session.                                                                *)
ArmsAreAnnounced ==
    ArmCounts =>
        /\ arm.thread \in Threads
        /\ ArmIsWatched
        /\ selected = arm.thread => ArmIsBannered
        /\ arm.turn = NoTurn =>
             \A call \in calls : Runs(call.thread, call.turn) => call.thread # arm.thread

StopInvariant ==
    /\ ThreadsOK /\ ComposerOK /\ CallsOK /\ MemoryOK
    /\ CallsWereAsked
    /\ CallsAreShown
    /\ MemoryWasAsked
    /\ UrgentIsKept
    /\ HardStopsMatchPresses
    /\ ArmIsOld
    /\ ArmsAreAnnounced

----------------------------------------------------------------------------
(* Types.                                                                   *)

LEMMA RunningTurnIs ==
  ASSUME ThreadsOK, selected \in Threads, NEW h \in Threads, RunningTurn(h) # NoTurn
  PROVE  /\ h = selected /\ turn[h].running /\ turn[h].n # NoTurn
         /\ RunningTurn(h) = turn[h].n
  BY DEF RunningTurn, ThreadsOK, NoTurn

LEMMA RunningTurnType ==
  ASSUME ThreadsOK, NEW h \in Threads
  PROVE  RunningTurn(h) \in Nat /\ RunningTurn(h) <= MaxTurns[h]
  BY StopControllerAssumption DEF RunningTurn, ThreadsOK, NoTurn

LEMMA Marked ==
  ASSUME ThreadsOK, NEW h \in Threads, turn[h].running, NEW new \in SUBSET Marks,
         Mark(h, new), UNCHANGED turn, session' \subseteq Threads
  PROVE  ThreadsOK'
  BY DEF ThreadsOK, Mark

LEMMA MarksExist == Marks = {"pressed", "urgent", "again", "stopped", "told", "reaped", "lapsed"}
  BY DEF Marks

LEMMA PressMarksExist == PressMarks \in SUBSET Marks
  BY DEF PressMarks, Marks

(* A hard stop comes of a press, of the banner, or of a refused interrupt. *)
LEMMA Settling ==
  ASSUME ThreadsOK, ComposerOK, CallsOK, NEW call \in calls, SettleInterrupt(call)
  PROVE  /\ call.thread \in Threads
         /\ UNCHANGED <<selected, turn, session, seen, early, presses, switches>>
         /\ calls' = calls \ {call}
         /\ \/ attempt # call.id /\ UNCHANGED <<arm, banner, interrupted, attempt, marks>>
            \/ /\ attempt' = 0 /\ UNCHANGED <<arm, banner, marks>>
               /\ RunningTurn(call.thread) # call.turn
               /\ interrupted' = Forget(call.thread, call.turn)
            \/ /\ call.thread = selected /\ Runs(call.thread, call.turn)
               /\ attempt' = 0 /\ CancelStop
               /\ Mark(call.thread, {"stopped"})
               /\ interrupted' = Forget(call.thread, call.turn)
            \/ /\ call.thread = selected /\ Runs(call.thread, call.turn)
               /\ attempt' = 0 /\ UNCHANGED <<arm, interrupted, marks>>
               /\ \/ UNCHANGED banner
                  \/ banner' = [kind |-> "interrupting", thread |-> call.thread,
                                turn |-> call.turn]
  <1>1. call.thread \in Threads /\ call.turn # NoTurn
    BY DEF CallsOK
  <1>2. /\ UNCHANGED <<selected, turn, session, seen, early, presses, switches>>
        /\ calls' = calls \ {call}
    BY DEF SettleInterrupt, threadVars, effectVars
  <1>3. RunningTurn(call.thread) = call.turn =>
            call.thread = selected /\ Runs(call.thread, call.turn)
    BY <1>1 DEF RunningTurn, Runs
  <1>4. CASE attempt # call.id
    BY <1>1, <1>2, <1>4 DEF SettleInterrupt, controllerVars
  <1>5. CASE attempt = call.id /\ RunningTurn(call.thread) # call.turn
    BY <1>1, <1>2, <1>5 DEF SettleInterrupt
  <1>6. CASE attempt = call.id /\ RunningTurn(call.thread) = call.turn /\ call.reply = "refused"
    <2>1. {} \cup {"stopped"} = {"stopped"}
      OBVIOUS
    <2> QED BY <1>1, <1>2, <1>3, <1>6, <2>1 DEF SettleInterrupt, HardStop
  <1>7. CASE attempt = call.id /\ RunningTurn(call.thread) = call.turn /\ call.reply # "refused"
    BY <1>1, <1>2, <1>3, <1>7 DEF SettleInterrupt
  <1> QED BY <1>4, <1>5, <1>6, <1>7

LEMMA Proceeding ==
  ASSUME ThreadsOK, NEW h \in Threads, TurnProceeds(h)
  PROVE  \E r \in [n : Nat, running : BOOLEAN, foreground : BOOLEAN, tasks : BOOLEAN] :
           /\ turn' = [turn EXCEPT ![h] = r]
           /\ r.n = turn[h].n /\ r.running = turn[h].running
  <1> DEFINE f == [turn[h] EXCEPT !.foreground = ~turn[h].foreground]
             k == [turn[h] EXCEPT !.tasks = ~turn[h].tasks]
  <1>1. turn[h] \in [n : Nat, running : BOOLEAN, foreground : BOOLEAN, tasks : BOOLEAN]
    BY DEF ThreadsOK
  <1>2. /\ f \in [n : Nat, running : BOOLEAN, foreground : BOOLEAN, tasks : BOOLEAN]
        /\ f.n = turn[h].n /\ f.running = turn[h].running
    BY <1>1
  <1>3. /\ k \in [n : Nat, running : BOOLEAN, foreground : BOOLEAN, tasks : BOOLEAN]
        /\ k.n = turn[h].n /\ k.running = turn[h].running
    BY <1>1
  <1>4. turn' = [turn EXCEPT ![h] = f] \/ turn' = [turn EXCEPT ![h] = k]
    BY DEF TurnProceeds
  <1> QED BY <1>2, <1>3, <1>4

LEMMA ThreadsStep ==
  ASSUME ThreadsOK, ComposerOK, CallsOK, [Next]_vars
  PROVE  ThreadsOK'
  <1> USE StopControllerAssumption
  <1>1. CASE PressHard \/ StopNow \/ PressConfirm
    <2>1. turn[selected].running /\ selected \in Threads
      BY <1>1, RunningTurnIs DEF PressHard, StopNow, PressConfirm, Shown, ComposerOK
    <2>2. UNCHANGED turn /\ session' \subseteq Threads
      BY <1>1 DEF PressHard, StopNow, PressConfirm, Pressing, ThreadsOK
    <2>3. \/ Mark(selected, PressMarks \cup {"urgent", "stopped"})
          \/ Mark(selected, PressMarks)
      <3>1. (PressMarks \cup {"urgent"}) \cup {"stopped"} = PressMarks \cup {"urgent", "stopped"}
        OBVIOUS
      <3> QED BY <1>1, <3>1 DEF PressHard, StopNow, PressConfirm, HardStop
    <2>4. PressMarks \cup {"urgent", "stopped"} \in SUBSET Marks
      BY PressMarksExist, MarksExist
    <2> QED BY <2>1, <2>2, <2>3, <2>4, PressMarksExist, Marked
  <1>2. CASE PressInterrupt
    <2>1. turn[selected].running /\ selected \in Threads
      BY <1>2, RunningTurnIs DEF PressInterrupt, Shown, ComposerOK
    <2>2. UNCHANGED <<turn, session>>
      BY <1>2 DEF PressInterrupt, Pressing
    <2>3. \A h \in Threads : marks'[h] \in SUBSET Marks /\ (marks'[h] # {} => turn[h].running)
      BY <1>2, <2>1, PressMarksExist, MarksExist DEF PressInterrupt, ThreadsOK
    <2>4. marks' \in [Threads -> SUBSET Marks]
      BY <1>2, <2>3 DEF PressInterrupt
    <2> QED BY <2>2, <2>3, <2>4 DEF ThreadsOK
  <1>3. ASSUME NEW call \in calls, AnswerInterrupt(call)
        PROVE  ThreadsOK'
    <2>1. UNCHANGED <<turn, session>> /\ call.thread \in Threads
      BY <1>3 DEF AnswerInterrupt, threadVars, CallsOK
    <2>2. \/ UNCHANGED marks
          \/ turn[call.thread].running /\ Mark(call.thread, {"told"})
          \/ turn[call.thread].running /\ Mark(call.thread, {"reaped"})
      BY <1>3 DEF AnswerInterrupt, Runs
    <2>3. {"told"} \in SUBSET Marks /\ {"reaped"} \in SUBSET Marks
      BY MarksExist
    <2>4. CASE UNCHANGED marks
      BY <2>1, <2>4 DEF ThreadsOK
    <2> QED BY <2>1, <2>2, <2>3, <2>4, Marked DEF ThreadsOK
  <1>4. ASSUME NEW call \in calls, SettleInterrupt(call)
        PROVE  ThreadsOK'
    <2>1. /\ UNCHANGED <<turn, session>> /\ call.thread \in Threads
          /\ \/ UNCHANGED marks
             \/ turn[call.thread].running /\ Mark(call.thread, {"stopped"})
      BY <1>4, Settling DEF Runs
    <2>2. {"stopped"} \in SUBSET Marks
      BY MarksExist
    <2>3. CASE UNCHANGED marks
      BY <2>1, <2>3 DEF ThreadsOK
    <2> QED BY <2>1, <2>2, <2>3, Marked DEF ThreadsOK
  <1>5. ASSUME NEW h \in Threads, TurnStarts(h) \/ TurnProceeds(h)
        PROVE  ThreadsOK'
    <2>1. /\ UNCHANGED <<session, marks>>
          /\ turn' \in [Threads -> [n : Nat, running : BOOLEAN, foreground : BOOLEAN,
                                    tasks : BOOLEAN]]
          /\ \A g \in Threads : g # h => turn'[g] = turn[g]
          /\ turn'[h].running /\ turn'[h].n <= MaxTurns[h] /\ turn'[h].n # NoTurn
      <3>1. CASE TurnStarts(h)
        BY <3>1 DEF TurnStarts, ThreadsOK, NoTurn
      <3>2. CASE TurnProceeds(h)
        <4>1. PICK r \in [n : Nat, running : BOOLEAN, foreground : BOOLEAN, tasks : BOOLEAN] :
                 /\ turn' = [turn EXCEPT ![h] = r]
                 /\ r.n = turn[h].n /\ r.running = turn[h].running
          BY <3>2, Proceeding
        <4>2. UNCHANGED <<session, marks>> /\ turn[h].running
          BY <3>2 DEF TurnProceeds
        <4> QED BY <4>1, <4>2 DEF ThreadsOK
      <3> QED BY <1>5, <3>1, <3>2
    <2>2. \A g \in Threads : /\ turn'[g].n <= MaxTurns[g]
                             /\ turn'[g].running => turn'[g].n # NoTurn
                             /\ turn'[g].foreground \/ turn'[g].tasks => turn'[g].running
                             /\ marks[g] # {} => turn'[g].running
      BY <2>1 DEF ThreadsOK
    <2> QED BY <2>1, <2>2 DEF ThreadsOK
  <1>6. ASSUME NEW h \in Threads, TurnEnds(h)
        PROVE  ThreadsOK'
    <2> DEFINE r == [NotYet EXCEPT !.n = turn[h].n]
    <2>1. /\ r \in [n : Nat, running : BOOLEAN, foreground : BOOLEAN, tasks : BOOLEAN]
          /\ r.n = turn[h].n /\ ~r.running /\ ~r.foreground /\ ~r.tasks
      <3>1. turn[h].n \in Nat
        BY DEF ThreadsOK
      <3> QED BY <3>1 DEF NotYet, NoTurn
    <2>2. /\ turn' = [turn EXCEPT ![h] = r]
          /\ marks' = [marks EXCEPT ![h] = {}]
      BY <1>6 DEF TurnEnds
    <2> HIDE DEF r
    <2>3. session' \subseteq Threads
      BY <1>6 DEF TurnEnds, ThreadsOK
    <2> QED BY <2>1, <2>2, <2>3 DEF ThreadsOK
  <1>7. ASSUME NEW h \in Threads, SelectThread(h)
        PROVE  ThreadsOK'
    <2>1. UNCHANGED <<turn, session>>
      BY <1>7 DEF SelectThread, threadVars
    <2>2. \A g \in Threads : marks'[g] \in SUBSET Marks /\ (marks'[g] # {} => turn[g].running)
      <3>1. \A call \in calls : call.thread \in Threads
        BY DEF CallsOK
      <3> QED BY <1>7, <3>1, MarksExist DEF SelectThread, Runs, ThreadsOK
    <2>3. marks' \in [Threads -> SUBSET Marks]
      BY <1>7, <2>2 DEF SelectThread
    <2> QED BY <2>1, <2>2, <2>3 DEF ThreadsOK
  <1>8. CASE \/ PressSession \/ StopTasks \/ KeepRunning \/ WindowPasses \/ TimerFires
             \/ RunEffects \/ UNCHANGED vars \/ \E h \in Threads : SessionEnds(h)
    <2>1. UNCHANGED <<turn, marks>> /\ session' \subseteq session
      BY <1>8 DEF PressSession, StopTasks, KeepRunning, WindowPasses, TimerFires, RunEffects,
         SessionEnds, Pressing, Untouched, threadVars, vars, Elsewhere
    <2> QED BY <2>1 DEF ThreadsOK
  <1> QED BY <1>1, <1>2, <1>3, <1>4, <1>5, <1>6, <1>7, <1>8 DEF Next, Progress, Press

LEMMA ViewIs ==
  ASSUME ThreadsOK, selected \in Threads
  PROVE  View \in [run : Nat, idle : BOOLEAN, thread : Threads]
  BY RunningTurnType DEF View

LEMMA CancelledIs ==
  ASSUME CancelStop
  PROVE  /\ arm' \in [thread : Threads \cup {Nothing}, turn : Nat, live : BOOLEAN]
         /\ arm' = NoArm
         /\ banner' \in [kind : {"none", "confirmBackground", "confirmSession", "interrupting"},
                         thread : Threads \cup {Nothing}, turn : Nat]
  BY DEF CancelStop, NoArm, NoBanner, NoTurn

LEMMA ComposerStep ==
  ASSUME ThreadsOK, ComposerOK, CallsOK, [Next]_vars
  PROVE  ComposerOK'
  <1> DEFINE Arms == [thread : Threads \cup {Nothing}, turn : Nat, live : BOOLEAN]
             Banners == [kind : {"none", "confirmBackground", "confirmSession", "interrupting"},
                         thread : Threads \cup {Nothing}, turn : Nat]
  <1>0. (CancelStop \/ UNCHANGED <<arm, banner>>) =>
            arm' \in Arms /\ (arm' = NoArm \/ UNCHANGED arm) /\ banner' \in Banners
    BY CancelledIs DEF ComposerOK
  <1>1. CASE PressHard \/ PressInterrupt \/ StopNow
    <2>1. UNCHANGED <<selected, seen>> /\ early' \in BOOLEAN /\ CancelStop
      BY <1>1 DEF PressHard, PressInterrupt, StopNow, HardStop, Pressing
    <2> QED BY <1>0, <2>1 DEF ComposerOK
  <1>2. CASE PressConfirm
    <2>1. Shown \in Nat /\ Shown <= MaxTurns[selected] /\ selected \in Threads
      BY RunningTurnType DEF Shown, ComposerOK
    <2>2. arm' \in Arms /\ banner' \in Banners
      BY <1>2, <2>1 DEF PressConfirm
    <2>3. arm'.thread \in Threads /\ arm'.turn \in 0..MaxTurns[arm'.thread]
      BY <1>2, <2>1 DEF PressConfirm
    <2>4. UNCHANGED <<selected, seen>> /\ early' \in BOOLEAN
      BY <1>2 DEF PressConfirm, Pressing
    <2> QED BY <2>2, <2>3, <2>4 DEF ComposerOK
  <1>3. CASE PressSession
    <2>1. UNCHANGED <<selected, seen>> /\ early' \in BOOLEAN
      BY <1>3 DEF PressSession, Pressing
    <2>2. CASE CancelStop
      BY <1>0, <2>1, <2>2 DEF ComposerOK
    <2>3. CASE ~CancelStop
      <3>1. /\ arm' = [thread |-> selected, turn |-> NoTurn, live |-> TRUE]
            /\ banner' = [kind |-> "confirmSession", thread |-> selected, turn |-> NoTurn]
        BY <1>3, <2>3 DEF PressSession
      <3>2. arm' \in Arms /\ banner' \in Banners
        BY <3>1 DEF ComposerOK, NoTurn
      <3>3. arm'.thread \in Threads /\ arm'.turn \in 0..MaxTurns[arm'.thread]
        BY <3>1, StopControllerAssumption DEF ComposerOK, NoTurn
      <3> QED BY <2>1, <3>2, <3>3 DEF ComposerOK
    <2> QED BY <2>2, <2>3
  <1>4. ASSUME NEW call \in calls, SettleInterrupt(call)
        PROVE  ComposerOK'
    <2>1. /\ UNCHANGED <<selected, seen, early>>
          /\ \/ CancelStop
             \/ UNCHANGED <<arm, banner>>
             \/ /\ UNCHANGED arm
                /\ banner' = [kind |-> "interrupting", thread |-> call.thread,
                              turn |-> call.turn]
      BY <1>4, Settling
    <2>2. call.thread \in Threads /\ call.turn \in Nat
      BY DEF CallsOK
    <2>3. CASE /\ UNCHANGED arm
               /\ banner' = [kind |-> "interrupting", thread |-> call.thread,
                             turn |-> call.turn]
      <3>1. banner' \in Banners
        BY <2>2, <2>3
      <3> QED BY <2>1, <2>3, <3>1 DEF ComposerOK
    <2> QED BY <1>0, <2>1, <2>3 DEF ComposerOK
  <1>5. CASE WindowPasses
    <2>1. UNCHANGED <<selected, seen, early, banner>>
      BY <1>5 DEF WindowPasses, Untouched, effectVars
    <2>2. arm.live /\ arm' = [arm EXCEPT !.live = FALSE]
      BY <1>5 DEF WindowPasses
    <2>3. arm' \in Arms /\ arm'.thread = arm.thread /\ arm'.turn = arm.turn
      BY <2>2 DEF ComposerOK
    <2>4. arm # NoArm
      BY <2>2 DEF NoArm
    <2> QED BY <2>1, <2>3, <2>4 DEF ComposerOK
  <1>6. CASE RunEffects
    <2>1. UNCHANGED selected /\ early' = FALSE /\ seen' = View
      BY <1>6 DEF RunEffects
    <2>2. CancelStop \/ UNCHANGED <<arm, banner>>
      BY <1>6 DEF RunEffects
    <2> QED BY <1>0, <2>1, <2>2, ViewIs DEF ComposerOK
  <1>7. CASE StopTasks \/ KeepRunning \/ TimerFires
    <2>1. UNCHANGED <<selected, seen, early>> /\ CancelStop
      BY <1>7 DEF StopTasks, KeepRunning, TimerFires, Untouched, effectVars
    <2> QED BY <1>0, <2>1 DEF ComposerOK
  <1>8. CASE \/ UNCHANGED vars
             \/ \E call \in calls : AnswerInterrupt(call)
             \/ \E h \in Threads : TurnStarts(h) \/ TurnProceeds(h) \/ TurnEnds(h) \/ SessionEnds(h)
    <2>1. UNCHANGED <<selected, seen, early, arm, banner>>
      BY <1>8 DEF vars, effectVars, controllerVars, AnswerInterrupt, TurnStarts, TurnProceeds,
         TurnEnds, SessionEnds, Elsewhere
    <2> QED BY <2>1 DEF ComposerOK
  <1>9. ASSUME NEW h \in Threads, SelectThread(h)
        PROVE  ComposerOK'
    <2>1. selected' = h /\ UNCHANGED <<seen, early, arm, banner>>
      BY <1>9 DEF SelectThread, effectVars, controllerVars
    <2> QED BY <2>1 DEF ComposerOK
  <1> QED BY <1>1, <1>2, <1>3, <1>4, <1>5, <1>6, <1>7, <1>8, <1>9 DEF Next, Progress, Press

(* The turns of a thread are counted up.                                    *)
LEMMA TurnsGrow ==
  ASSUME ThreadsOK, ComposerOK, CallsOK, [Next]_vars
  PROVE  \A h \in Threads : turn'[h].n \in Nat /\ turn[h].n <= turn'[h].n
  <1>0. \A h \in Threads : turn[h].n \in Nat
    BY DEF ThreadsOK
  <1>1. ThreadsOK'
    BY ThreadsStep
  <1>2. \A h \in Threads : turn'[h].n \in Nat
    BY <1>1 DEF ThreadsOK
  <1>3. ASSUME NEW h \in Threads, TurnStarts(h) \/ TurnProceeds(h) \/ TurnEnds(h)
        PROVE  \A g \in Threads : turn[g].n <= turn'[g].n
    <2>1. CASE TurnStarts(h)
      BY <1>0, <2>1 DEF TurnStarts, ThreadsOK
    <2>2. CASE TurnProceeds(h)
      BY <1>0, <2>2, Proceeding DEF ThreadsOK
    <2>3. CASE TurnEnds(h)
      BY <1>0, <2>3 DEF TurnEnds, NotYet, ThreadsOK
    <2> QED BY <1>3, <2>1, <2>2, <2>3
  <1>4. CASE UNCHANGED turn
    BY <1>0, <1>4
  <1>5. \/ UNCHANGED turn
        \/ \E h \in Threads : TurnStarts(h) \/ TurnProceeds(h) \/ TurnEnds(h)
    <2>1. ASSUME NEW call \in calls, SettleInterrupt(call) PROVE UNCHANGED turn
      BY <2>1 DEF SettleInterrupt, threadVars
    <2>2. ASSUME NEW call \in calls, AnswerInterrupt(call) PROVE UNCHANGED turn
      BY <2>2 DEF AnswerInterrupt, threadVars
    <2>3. Press \/ StopNow => UNCHANGED turn
      BY DEF Press, PressHard, PressInterrupt, PressConfirm, PressSession, StopNow, Pressing
    <2>4. KeepRunning \/ StopTasks \/ WindowPasses \/ TimerFires \/ RunEffects
             \/ UNCHANGED vars => UNCHANGED turn
      BY DEF KeepRunning, StopTasks, WindowPasses, TimerFires, RunEffects, Untouched, threadVars,
         vars
    <2>5. ASSUME NEW h \in Threads, SessionEnds(h) \/ SelectThread(h) PROVE UNCHANGED turn
      BY <2>5 DEF SessionEnds, SelectThread, threadVars
    <2> QED BY <2>1, <2>2, <2>3, <2>4, <2>5 DEF Next, Progress
  <1> QED BY <1>2, <1>3, <1>4, <1>5

LEMMA CallsStep ==
  ASSUME ThreadsOK, ComposerOK, CallsOK, [Next]_vars
  PROVE  CallsOK'
  <1> USE StopControllerAssumption
  <1>0. /\ calls \subseteq [id : Nat, thread : Threads, turn : Nat, reply : Replies]
        /\ presses \in Nat /\ switches \in Nat
    BY DEF CallsOK
  <1>1. ASSUME calls' \subseteq [id : Nat, thread : Threads, turn : Nat, reply : Replies],
               \A c \in calls' : \E d \in calls : c.thread = d.thread /\ c.turn = d.turn
        PROVE  \A c \in calls' : c.turn # NoTurn /\ c.turn <= turn'[c.thread].n
    <2> SUFFICES ASSUME NEW c \in calls'
                 PROVE  c.turn # NoTurn /\ c.turn <= turn'[c.thread].n
      OBVIOUS
    <2>1. PICK d \in calls : c.thread = d.thread /\ c.turn = d.turn
      BY <1>1
    <2>2. d.thread \in Threads /\ d.turn \in Nat /\ d.turn # NoTurn /\ d.turn <= turn[d.thread].n
      BY DEF CallsOK
    <2>3. turn[d.thread].n <= turn'[d.thread].n /\ turn'[d.thread].n \in Nat
          /\ turn[d.thread].n \in Nat
      BY <2>2, TurnsGrow DEF ThreadsOK
    <2> QED BY <2>1, <2>2, <2>3
  <1>2. CASE PressInterrupt
    <2> DEFINE new == [id |-> presses', thread |-> selected, turn |-> Shown, reply |-> "waiting"]
    <2>1. selected \in Threads /\ Shown \in Nat /\ Shown # NoTurn /\ Shown = turn[selected].n
      BY <1>2, RunningTurnIs, RunningTurnType DEF PressInterrupt, Shown, ComposerOK
    <2>2. /\ presses' = presses + 1 /\ presses < MaxPresses /\ attempt' = presses'
          /\ UNCHANGED <<switches, turn>> /\ calls' = calls \cup {new}
      BY <1>2 DEF PressInterrupt, Pressing
    <2>3. new \in [id : Nat, thread : Threads, turn : Nat, reply : Replies]
          /\ new.id = presses' /\ new.turn = Shown /\ new.thread = selected
      BY <1>0, <2>1, <2>2 DEF Replies
    <2> HIDE DEF new
    <2>4. \A c \in calls' : c.turn # NoTurn /\ c.turn <= turn'[c.thread].n
      <3> SUFFICES ASSUME NEW c \in calls' PROVE c.turn # NoTurn /\ c.turn <= turn[c.thread].n
        BY <2>2
      <3>1. CASE c \in calls
        BY <3>1 DEF CallsOK
      <3>2. CASE c = new
        BY <2>1, <2>3, <3>2
      <3> QED BY <2>2, <3>1, <3>2
    <2>5. new \in calls'
      BY <2>2
    <2>6. presses' \in 0..MaxPresses /\ switches' \in 0..MaxSwitches
      BY <1>0, <2>2 DEF CallsOK
    <2>7. calls' \subseteq [id : Nat, thread : Threads, turn : Nat, reply : Replies]
      BY <1>0, <2>2, <2>3
    <2> QED BY <2>2, <2>3, <2>4, <2>5, <2>6, <2>7 DEF CallsOK
  <1>3. CASE PressHard \/ PressConfirm \/ PressSession \/ StopNow
    <2>1. /\ presses' = presses + 1 /\ presses < MaxPresses
          /\ UNCHANGED <<switches, calls>> /\ (UNCHANGED attempt \/ attempt' = 0)
      BY <1>3 DEF PressHard, PressConfirm, PressSession, StopNow, HardStop, Pressing
    <2>2. \A c \in calls' : c.turn # NoTurn /\ c.turn <= turn'[c.thread].n
      BY <1>0, <1>1, <2>1
    <2>3. presses' \in 0..MaxPresses
      BY <1>0, <2>1
    <2> QED BY <2>1, <2>2, <2>3 DEF CallsOK
  <1>4. ASSUME NEW call \in calls, AnswerInterrupt(call)
        PROVE  CallsOK'
    <2>1. PICK reply \in Replies : calls' = (calls \ {call}) \cup {[call EXCEPT !.reply = reply]}
      BY <1>4 DEF AnswerInterrupt, Replied, Replies
    <2> DEFINE new == [call EXCEPT !.reply = reply]
    <2>2. /\ new \in [id : Nat, thread : Threads, turn : Nat, reply : Replies]
          /\ new.id = call.id /\ new.thread = call.thread /\ new.turn = call.turn
      BY <1>0
    <2> HIDE DEF new
    <2>3. calls' = (calls \ {call}) \cup {new}
      BY <2>1 DEF new
    <2>4. UNCHANGED <<presses, switches, attempt>>
      BY <1>4 DEF AnswerInterrupt, controllerVars
    <2>5. \A c \in calls' : \E d \in calls : c.thread = d.thread /\ c.turn = d.turn
      BY <2>2, <2>3
    <2>6. calls' \subseteq [id : Nat, thread : Threads, turn : Nat, reply : Replies]
      BY <1>0, <2>2, <2>3
    <2>7. attempt' # 0 => \E c \in calls' : c.id = attempt'
      <3> SUFFICES ASSUME attempt # 0 PROVE \E c \in calls' : c.id = attempt
        BY <2>4
      <3>1. PICK d \in calls : d.id = attempt
        BY DEF CallsOK
      <3> QED BY <2>2, <2>3, <3>1
    <2> QED BY <1>1, <2>4, <2>5, <2>6, <2>7 DEF CallsOK
  <1>5. ASSUME NEW call \in calls, SettleInterrupt(call)
        PROVE  CallsOK'
    <2>1. /\ UNCHANGED <<presses, switches>> /\ calls' = calls \ {call}
          /\ attempt' = 0 \/ (attempt # call.id /\ UNCHANGED attempt)
      BY <1>5, Settling
    <2>2. \A c \in calls' : c.turn # NoTurn /\ c.turn <= turn'[c.thread].n
      BY <1>0, <1>1, <2>1
    <2>3. attempt' # 0 => \E c \in calls' : c.id = attempt'
      BY <2>1 DEF CallsOK
    <2> QED BY <1>0, <2>1, <2>2, <2>3 DEF CallsOK
  <1>6. CASE \/ RunEffects \/ KeepRunning \/ StopTasks \/ WindowPasses \/ TimerFires
             \/ UNCHANGED vars
             \/ \E h \in Threads : TurnStarts(h) \/ TurnProceeds(h) \/ TurnEnds(h) \/ SessionEnds(h)
                                   \/ SelectThread(h)
    <2>1. /\ UNCHANGED <<presses, calls, attempt>>
          /\ switches' = switches \/ (switches' = switches + 1 /\ switches < MaxSwitches)
      BY <1>6 DEF RunEffects, KeepRunning, StopTasks, WindowPasses, TimerFires, vars, Untouched,
         controllerVars, Elsewhere, TurnStarts, TurnProceeds, TurnEnds, SessionEnds, SelectThread
    <2>2. \A c \in calls' : c.turn # NoTurn /\ c.turn <= turn'[c.thread].n
      BY <1>0, <1>1, <2>1
    <2>3. switches' \in 0..MaxSwitches
      BY <1>0, <2>1 DEF CallsOK
    <2> QED BY <2>1, <2>2, <2>3 DEF CallsOK
  <1> QED BY <1>2, <1>3, <1>4, <1>5, <1>6 DEF Next, Progress, Press

LEMMA MemoryStep ==
  ASSUME ThreadsOK, ComposerOK, CallsOK, MemoryOK, [Next]_vars
  PROVE  MemoryOK'
  <1>1. CASE PressInterrupt
    <2>1. selected \in Threads /\ Shown \in Nat /\ interrupted' = Remember(selected, Shown)
      BY <1>1, RunningTurnType DEF PressInterrupt, Shown, ComposerOK
    <2> QED BY <2>1, Remembering DEF MemoryOK, OnePerThread
  <1>2. ASSUME NEW call \in calls, SettleInterrupt(call)
        PROVE  MemoryOK'
    <2>1. \/ UNCHANGED interrupted
          \/ interrupted' = Forget(call.thread, call.turn)
      BY <1>2, Settling
    <2> QED BY <2>1, Forgetting DEF MemoryOK, OnePerThread
  <1>3. CASE UNCHANGED interrupted
    BY <1>3 DEF MemoryOK, OnePerThread
  <1>4. PressHard \/ PressConfirm \/ PressSession \/ StopNow \/ KeepRunning \/ StopTasks
          \/ WindowPasses \/ TimerFires \/ RunEffects \/ UNCHANGED vars
          => UNCHANGED interrupted
    BY DEF PressHard, PressConfirm, PressSession, StopNow, KeepRunning, StopTasks, WindowPasses,
       TimerFires, RunEffects, Untouched, vars, controllerVars
  <1>5. ASSUME NEW call \in calls, AnswerInterrupt(call)
        PROVE  UNCHANGED interrupted
    BY <1>5 DEF AnswerInterrupt, controllerVars
  <1>6. ASSUME NEW h \in Threads, TurnStarts(h) \/ TurnProceeds(h) \/ TurnEnds(h)
                                   \/ SessionEnds(h) \/ SelectThread(h)
        PROVE  UNCHANGED interrupted
    BY <1>6 DEF TurnStarts, TurnProceeds, TurnEnds, SessionEnds, SelectThread, Elsewhere,
       controllerVars
  <1> QED BY <1>1, <1>2, <1>3, <1>4, <1>5, <1>6 DEF Next, Progress, Press

----------------------------------------------------------------------------
(* What was asked for.                                                      *)

(* A turn that runs on keeps what is marked of it, and a new one starts with nothing.       *)
RunsOn(h) ==
    turn[h].running /\ turn'[h].n = turn[h].n /\ marks[h] \subseteq marks'[h]

Starts(h) ==
    /\ ~turn[h].running /\ turn'[h].n = turn[h].n + 1 /\ marks'[h] = {}
    /\ UNCHANGED <<selected, interrupted, calls>>

LEMMA MarkKeeps ==
  ASSUME ThreadsOK, NEW h \in Threads, NEW new, Mark(h, new)
  PROVE  \A g \in Threads : /\ marks[g] \subseteq marks'[g]
                            /\ g # h => marks'[g] = marks[g]
                            /\ marks'[h] = marks[h] \cup new
  BY DEF Mark, ThreadsOK

LEMMA RunningOn ==
  ASSUME ThreadsOK, ComposerOK, CallsOK, [Next]_vars, NEW h \in Threads, turn'[h].running
  PROVE  RunsOn(h) \/ Starts(h)
  <1>0. UNCHANGED turn /\ marks[h] \subseteq marks'[h] => RunsOn(h)
    BY DEF RunsOn
  <1>1. CASE PressHard \/ StopNow \/ PressConfirm
    <2>1. UNCHANGED turn /\ selected \in Threads
      BY <1>1 DEF PressHard, StopNow, PressConfirm, Pressing, ComposerOK
    <2>2. \/ Mark(selected, (PressMarks \cup {"urgent"}) \cup {"stopped"})
          \/ Mark(selected, PressMarks)
      BY <1>1 DEF PressHard, StopNow, PressConfirm, HardStop
    <2> QED BY <1>0, <2>1, <2>2, MarkKeeps
  <1>2. CASE PressInterrupt
    <2>1. UNCHANGED turn
      BY <1>2 DEF PressInterrupt, Pressing
    <2>2. marks[h] \subseteq marks'[h]
      BY <1>2 DEF PressInterrupt
    <2> QED BY <1>0, <2>1, <2>2
  <1>3. ASSUME NEW call \in calls, AnswerInterrupt(call)
        PROVE  RunsOn(h)
    <2>1. UNCHANGED turn /\ call.thread \in Threads
      BY <1>3 DEF AnswerInterrupt, threadVars, CallsOK
    <2>2. UNCHANGED marks \/ Mark(call.thread, {"told"}) \/ Mark(call.thread, {"reaped"})
      BY <1>3 DEF AnswerInterrupt
    <2> QED BY <1>0, <2>1, <2>2, MarkKeeps
  <1>4. ASSUME NEW call \in calls, SettleInterrupt(call)
        PROVE  RunsOn(h)
    <2>1. /\ UNCHANGED turn /\ call.thread \in Threads
          /\ UNCHANGED marks \/ Mark(call.thread, {"stopped"})
      BY <1>4, Settling
    <2> QED BY <1>0, <2>1, MarkKeeps
  <1>5. ASSUME NEW g \in Threads, TurnStarts(g)
        PROVE  RunsOn(h) \/ Starts(h)
    <2>1. UNCHANGED <<marks, selected, interrupted, calls>>
      BY <1>5 DEF TurnStarts, Elsewhere, controllerVars
    <2>2. CASE g = h
      <3>1. ~turn[h].running /\ turn'[h].n = turn[h].n + 1
        BY <1>5, <2>2 DEF TurnStarts, ThreadsOK
      <3>2. marks[h] = {}
        BY <3>1 DEF ThreadsOK
      <3> QED BY <2>1, <3>1, <3>2 DEF Starts
    <2>3. CASE g # h
      <3>1. turn'[h] = turn[h]
        BY <1>5, <2>3 DEF TurnStarts, ThreadsOK
      <3> QED BY <2>1, <3>1 DEF RunsOn
    <2> QED BY <2>2, <2>3
  <1>6. ASSUME NEW g \in Threads, TurnProceeds(g)
        PROVE  RunsOn(h)
    <2>1. UNCHANGED marks /\ turn[g].running
      BY <1>6 DEF TurnProceeds
    <2>2. turn'[h].n = turn[h].n /\ turn'[h].running = turn[h].running
      BY <1>6, Proceeding DEF ThreadsOK
    <2> QED BY <2>1, <2>2 DEF RunsOn
  <1>7. ASSUME NEW g \in Threads, TurnEnds(g)
        PROVE  RunsOn(h)
    <2>1. g # h
      <3>1. turn' = [turn EXCEPT ![g] = [NotYet EXCEPT !.n = turn[g].n]]
        BY <1>7 DEF TurnEnds
      <3>2. ~[NotYet EXCEPT !.n = turn[g].n].running
        BY DEF NotYet
      <3> QED BY <3>1, <3>2 DEF ThreadsOK
    <2>2. turn'[h] = turn[h] /\ marks'[h] = marks[h]
      BY <1>7, <2>1 DEF TurnEnds, ThreadsOK
    <2> QED BY <2>2 DEF RunsOn
  <1>8. ASSUME NEW g \in Threads, SelectThread(g)
        PROVE  RunsOn(h)
    <2>1. UNCHANGED turn
      BY <1>8 DEF SelectThread, threadVars
    <2>2. marks[h] \subseteq marks'[h]
      BY <1>8 DEF SelectThread
    <2> QED BY <1>0, <2>1, <2>2
  <1>9. CASE \/ PressSession \/ StopTasks \/ KeepRunning \/ WindowPasses \/ TimerFires
             \/ RunEffects \/ UNCHANGED vars \/ \E g \in Threads : SessionEnds(g)
    <2>1. UNCHANGED <<turn, marks>>
      BY <1>9 DEF PressSession, StopTasks, KeepRunning, WindowPasses, TimerFires, RunEffects,
         SessionEnds, Pressing, Untouched, threadVars, vars
    <2> QED BY <1>0, <2>1
  <1> QED BY <1>1, <1>2, <1>3, <1>4, <1>5, <1>6, <1>7, <1>8, <1>9 DEF Next, Progress, Press

(* A call of the next state was there before, or is the press's.            *)
PressCalls(c) ==
    PressInterrupt /\ c.thread = selected /\ Shown # NoTurn /\ c.turn = Shown

LEMMA CallsComeFrom ==
  ASSUME ThreadsOK, ComposerOK, CallsOK, [Next]_vars, NEW c \in calls'
  PROVE  \/ \E d \in calls : c.thread = d.thread /\ c.turn = d.turn
         \/ PressCalls(c)
  <1>1. CASE PressInterrupt
    <2> DEFINE new == [id |-> presses', thread |-> selected, turn |-> Shown, reply |-> "waiting"]
    <2>1. calls' = calls \cup {new} /\ Shown # NoTurn
      BY <1>1 DEF PressInterrupt
    <2>2. new.thread = selected /\ new.turn = Shown
      OBVIOUS
    <2> HIDE DEF new
    <2> QED BY <1>1, <2>1, <2>2 DEF PressCalls
  <1>2. ASSUME NEW call \in calls, AnswerInterrupt(call)
        PROVE  \E d \in calls : c.thread = d.thread /\ c.turn = d.turn
    <2>1. PICK reply \in Replies : calls' = (calls \ {call}) \cup {[call EXCEPT !.reply = reply]}
      BY <1>2 DEF AnswerInterrupt, Replied, Replies
    <2>2. /\ [call EXCEPT !.reply = reply].thread = call.thread
          /\ [call EXCEPT !.reply = reply].turn = call.turn
      BY DEF CallsOK
    <2> QED BY <2>1, <2>2
  <1>3. ASSUME NEW call \in calls, SettleInterrupt(call)
        PROVE  \E d \in calls : c.thread = d.thread /\ c.turn = d.turn
    BY <1>3, Settling
  <1>4. (UNCHANGED vars \/ PressHard \/ PressConfirm \/ PressSession \/ StopNow \/ KeepRunning
        \/ StopTasks \/ WindowPasses \/ TimerFires \/ RunEffects)
          => calls' = calls
    BY DEF vars, PressHard, PressConfirm, PressSession, StopNow, KeepRunning, StopTasks,
       WindowPasses, TimerFires, RunEffects, Untouched
  <1>5. ASSUME NEW h \in Threads, TurnStarts(h) \/ TurnProceeds(h) \/ TurnEnds(h)
                                   \/ SessionEnds(h) \/ SelectThread(h)
        PROVE  calls' = calls
    BY <1>5 DEF TurnStarts, TurnProceeds, TurnEnds, SessionEnds, SelectThread, Elsewhere
  <1>6. calls' = calls => \E d \in calls : c.thread = d.thread /\ c.turn = d.turn
    OBVIOUS
  <1> QED BY <1>1, <1>2, <1>3, <1>4, <1>5, <1>6 DEF Next, Progress, Press

(* ... so that one about a running turn was about it before.                *)
LEMMA RunningCalls ==
  ASSUME ThreadsOK, ComposerOK, CallsOK, [Next]_vars, NEW d \in calls,
         turn'[d.thread].running, turn'[d.thread].n = d.turn
  PROVE  d.thread \in Threads /\ Runs(d.thread, d.turn) /\ RunsOn(d.thread)
  <1>1. d.thread \in Threads /\ d.turn \in Nat /\ d.turn <= turn[d.thread].n
    BY DEF CallsOK
  <1>2. ~Starts(d.thread)
    <2>1. turn[d.thread].n \in Nat
      BY <1>1 DEF ThreadsOK
    <2> QED BY <1>1, <2>1 DEF Starts
  <1>3. RunsOn(d.thread)
    BY <1>1, <1>2, RunningOn
  <1> QED BY <1>1, <1>3 DEF RunsOn, Runs

LEMMA PressMarksIn ==
  ASSUME ThreadsOK, ComposerOK, PressInterrupt
  PROVE  {"pressed", "urgent"} \subseteq marks'[selected]
  BY DEF PressInterrupt, PressMarks, ThreadsOK, ComposerOK

LEMMA AskedStep ==
  ASSUME ThreadsOK, ComposerOK, CallsOK, CallsWereAsked, [Next]_vars
  PROVE  CallsWereAsked'
  <1> SUFFICES ASSUME NEW c \in calls', turn'[c.thread].running, turn'[c.thread].n = c.turn
               PROVE  {"pressed", "urgent"} \subseteq marks'[c.thread]
    BY DEF CallsWereAsked, Runs
  <1>1. ASSUME NEW d \in calls, c.thread = d.thread, c.turn = d.turn
        PROVE  {"pressed", "urgent"} \subseteq marks'[c.thread]
    <2>1. d.thread \in Threads /\ Runs(d.thread, d.turn) /\ RunsOn(d.thread)
      BY <1>1, RunningCalls
    <2> QED BY <1>1, <2>1 DEF CallsWereAsked, RunsOn
  <1>2. CASE PressCalls(c)
    BY <1>2, PressMarksIn DEF PressCalls
  <1> QED BY <1>1, <1>2, CallsComeFrom

(* Another thread is shown by SelectThread only.                            *)
LEMMA Selecting ==
  ASSUME [Next]_vars, selected' # selected
  PROVE  \E h \in Threads : SelectThread(h)
  <1>1. ASSUME NEW call \in calls, SettleInterrupt(call) \/ AnswerInterrupt(call)
        PROVE  selected' = selected
    BY <1>1 DEF SettleInterrupt, AnswerInterrupt
  <1>2. (UNCHANGED vars \/ Press \/ StopNow \/ KeepRunning
        \/ StopTasks \/ WindowPasses \/ TimerFires \/ RunEffects)
          => selected' = selected
    BY DEF vars, Press, PressHard, PressInterrupt, PressConfirm, PressSession, StopNow,
       KeepRunning, StopTasks, WindowPasses, TimerFires, RunEffects, Untouched, Pressing
  <1>3. ASSUME NEW h \in Threads, TurnStarts(h) \/ TurnProceeds(h) \/ TurnEnds(h)
                                   \/ SessionEnds(h)
        PROVE  selected' = selected
    BY <1>3 DEF TurnStarts, TurnProceeds, TurnEnds, SessionEnds, Elsewhere
  <1> QED BY <1>1, <1>2, <1>3 DEF Next, Progress

LEMMA ShownStep ==
  ASSUME ThreadsOK, ComposerOK, CallsOK, CallsAreShown, [Next]_vars
  PROVE  CallsAreShown'
  <1> SUFFICES ASSUME NEW c \in calls', turn'[c.thread].running, turn'[c.thread].n = c.turn
               PROVE  c.thread = selected' \/ "lapsed" \in marks'[c.thread]
    BY DEF CallsAreShown, Runs
  <1>1. ASSUME NEW d \in calls, c.thread = d.thread, c.turn = d.turn
        PROVE  c.thread = selected' \/ "lapsed" \in marks'[c.thread]
    <2>1. d.thread \in Threads /\ Runs(d.thread, d.turn) /\ RunsOn(d.thread)
      BY <1>1, RunningCalls
    <2>2. CASE UNCHANGED selected
      BY <1>1, <2>1, <2>2 DEF CallsAreShown, RunsOn
    <2>3. CASE selected' # selected
      <3>1. PICK h \in Threads : SelectThread(h)
        BY <2>3, Selecting
      <3>2. "lapsed" \in marks'[d.thread]
        BY <2>1, <3>1 DEF SelectThread
      <3> QED BY <1>1, <3>2
    <2> QED BY <2>2, <2>3
  <1>2. CASE PressCalls(c)
    BY <1>2 DEF PressCalls, PressInterrupt, Pressing
  <1> QED BY <1>1, <1>2, CallsComeFrom

(* What is remembered was remembered, or is what was pressed for.           *)
LEMMA MemoriesComeFrom ==
  ASSUME ThreadsOK, ComposerOK, CallsOK, MemoryOK, [Next]_vars,
         NEW e, Contains(interrupted', e)
  PROVE  \/ Contains(interrupted, e)
         \/ PressInterrupt /\ e = <<selected, Shown>> /\ Shown # NoTurn
  <1>1. CASE PressInterrupt
    <2>1. selected \in Threads /\ Shown \in Nat /\ interrupted' = Remember(selected, Shown)
          /\ Shown # NoTurn
      BY <1>1, RunningTurnType DEF PressInterrupt, Shown, ComposerOK
    <2> QED BY <1>1, <2>1, Remembering
  <1>2. ASSUME NEW call \in calls, SettleInterrupt(call)
        PROVE  Contains(interrupted, e)
    <2>1. \/ UNCHANGED interrupted
          \/ interrupted' = Forget(call.thread, call.turn)
      BY <1>2, Settling
    <2> QED BY <2>1, Forgetting
  <1>3. (UNCHANGED vars \/ PressHard \/ PressConfirm \/ PressSession \/ StopNow \/ KeepRunning
        \/ StopTasks \/ WindowPasses \/ TimerFires \/ RunEffects)
          => interrupted' = interrupted
    BY DEF vars, PressHard, PressConfirm, PressSession, StopNow, KeepRunning, StopTasks,
       WindowPasses, TimerFires, RunEffects, Untouched, controllerVars
  <1>4. ASSUME NEW call \in calls, AnswerInterrupt(call)
        PROVE  interrupted' = interrupted
    BY <1>4 DEF AnswerInterrupt, controllerVars
  <1>5. ASSUME NEW h \in Threads, TurnStarts(h) \/ TurnProceeds(h) \/ TurnEnds(h)
                                   \/ SessionEnds(h) \/ SelectThread(h)
        PROVE  interrupted' = interrupted
    BY <1>5 DEF TurnStarts, TurnProceeds, TurnEnds, SessionEnds, SelectThread, Elsewhere,
       controllerVars
  <1>6. interrupted' = interrupted => Contains(interrupted, e)
    OBVIOUS
  <1> QED BY <1>1, <1>2, <1>3, <1>4, <1>5, <1>6 DEF Next, Progress, Press

LEMMA RememberedStep ==
  ASSUME ThreadsOK, ComposerOK, CallsOK, MemoryOK, MemoryWasAsked, [Next]_vars
  PROVE  MemoryWasAsked'
  <1> SUFFICES ASSUME NEW h \in Threads, NEW n \in Nat, Contains(interrupted', <<h, n>>)
               PROVE  /\ n <= turn'[h].n
                      /\ turn'[h].running /\ turn'[h].n = n => "urgent" \in marks'[h]
    BY DEF MemoryWasAsked, Remembered, Runs
  <1>0. turn[h].n \in Nat /\ turn'[h].n \in Nat /\ turn[h].n <= turn'[h].n
    BY TurnsGrow DEF ThreadsOK
  <1>1. CASE Contains(interrupted, <<h, n>>)
    <2>1. n <= turn[h].n /\ (Runs(h, n) => "urgent" \in marks[h])
      BY <1>1 DEF MemoryWasAsked, Remembered
    <2>2. CASE turn'[h].running /\ turn'[h].n = n
      <3>1. ~Starts(h)
        BY <1>0, <2>1, <2>2 DEF Starts
      <3>2. RunsOn(h)
        BY <2>2, <3>1, RunningOn
      <3> QED BY <1>0, <2>1, <2>2, <3>2 DEF RunsOn, Runs
    <2> QED BY <1>0, <2>1, <2>2
  <1>2. CASE PressInterrupt /\ <<h, n>> = <<selected, Shown>> /\ Shown # NoTurn
    <2>1. h = selected /\ n = turn[h].n
      BY <1>2, RunningTurnIs DEF Shown, ComposerOK
    <2> QED BY <1>0, <1>2, <2>1, PressMarksIn
  <1> QED BY <1>1, <1>2, MemoriesComeFrom

(* Where a mark comes from.                                                 *)
LEMMA MarksComeFrom ==
  ASSUME ThreadsOK, ComposerOK, CallsOK, [Next]_vars, NEW h \in Threads,
         NEW m, m \in marks'[h], m \notin marks[h]
  PROVE  \/ /\ PressHard \/ StopNow
            /\ h = selected /\ {"pressed", "urgent", "stopped"} \subseteq marks'[h]
         \/ PressInterrupt /\ h = selected /\ m \in PressMarks \cup {"urgent"}
         \/ PressConfirm /\ h = selected /\ m \in PressMarks
         \/ m \in {"told", "reaped", "lapsed"}
         \/ \E call \in calls : /\ SettleInterrupt(call) /\ m = "stopped"
                                /\ h = call.thread /\ Runs(call.thread, call.turn)
  <1>1. CASE PressHard \/ StopNow
    <2>1. selected \in Threads
      BY DEF ComposerOK
    <2>2. Mark(selected, (PressMarks \cup {"urgent"}) \cup {"stopped"})
      BY <1>1 DEF PressHard, StopNow, HardStop
    <2>3. h = selected
      BY <2>1, <2>2, MarkKeeps
    <2>4. "pressed" \in PressMarks
      BY DEF PressMarks
    <2> QED BY <1>1, <2>1, <2>2, <2>3, <2>4, MarkKeeps
  <1>2. CASE PressInterrupt
    <2>1. CASE h = selected
      BY <1>2, <2>1 DEF PressInterrupt
    <2>2. CASE h # selected
      BY <1>2, <2>2 DEF PressInterrupt
    <2> QED BY <2>1, <2>2
  <1>3. CASE PressConfirm
    <2>1. selected \in Threads
      BY DEF ComposerOK
    <2>2. Mark(selected, PressMarks)
      BY <1>3 DEF PressConfirm
    <2> QED BY <1>3, <2>1, <2>2, MarkKeeps
  <1>4. ASSUME NEW call \in calls, AnswerInterrupt(call)
        PROVE  m \in {"told", "reaped", "lapsed"}
    <2>1. call.thread \in Threads
      BY DEF CallsOK
    <2>2. marks' = marks \/ Mark(call.thread, {"told"}) \/ Mark(call.thread, {"reaped"})
      BY <1>4 DEF AnswerInterrupt
    <2> QED BY <2>1, <2>2, MarkKeeps
  <1>5. ASSUME NEW call \in calls, SettleInterrupt(call)
        PROVE  m = "stopped" /\ h = call.thread /\ Runs(call.thread, call.turn)
    <2>1. /\ call.thread \in Threads
          /\ marks' = marks \/ (Mark(call.thread, {"stopped"}) /\ Runs(call.thread, call.turn))
      BY <1>5, Settling
    <2> QED BY <2>1, MarkKeeps
  <1>6. ASSUME NEW g \in Threads, SelectThread(g)
        PROVE  m \in {"told", "reaped", "lapsed"}
    BY <1>6 DEF SelectThread
  <1>7. ASSUME NEW g \in Threads, TurnEnds(g)
        PROVE  FALSE
    BY <1>7 DEF TurnEnds, ThreadsOK
  <1>8. (PressSession \/ StopTasks \/ KeepRunning \/ WindowPasses \/ TimerFires
          \/ RunEffects \/ UNCHANGED vars) => marks' = marks
    BY DEF PressSession, StopTasks, KeepRunning, WindowPasses, TimerFires, RunEffects,
       Pressing, Untouched, vars
  <1>9. ASSUME NEW g \in Threads, SessionEnds(g) \/ TurnStarts(g) \/ TurnProceeds(g)
        PROVE  marks' = marks
    BY <1>9 DEF SessionEnds, TurnStarts, TurnProceeds
  <1>10. marks' # marks
    OBVIOUS
  <1> QED BY <1>1, <1>2, <1>3, <1>4, <1>5, <1>6, <1>7, <1>8, <1>9, <1>10
          DEF Next, Progress, Press

(* What is no longer remembered was evicted, or settled.                    *)
LEMMA MemoriesGo ==
  ASSUME ThreadsOK, ComposerOK, CallsOK, MemoryOK, [Next]_vars,
         NEW e, Contains(interrupted, e), ~Contains(interrupted', e)
  PROVE  \/ PressInterrupt
         \/ \E call \in calls : /\ SettleInterrupt(call)
                                /\ interrupted' = Forget(call.thread, call.turn)
  <1>1. ASSUME NEW call \in calls, SettleInterrupt(call), interrupted' # interrupted
        PROVE  interrupted' = Forget(call.thread, call.turn)
    BY <1>1, Settling
  <1>2. (UNCHANGED vars \/ PressHard \/ PressConfirm \/ PressSession \/ StopNow \/ KeepRunning
          \/ StopTasks \/ WindowPasses \/ TimerFires \/ RunEffects) => interrupted' = interrupted
    BY DEF vars, PressHard, PressConfirm, PressSession, StopNow, KeepRunning, StopTasks,
       WindowPasses, TimerFires, RunEffects, Untouched, controllerVars
  <1>3. ASSUME NEW call \in calls, AnswerInterrupt(call)
        PROVE  interrupted' = interrupted
    BY <1>3 DEF AnswerInterrupt, controllerVars
  <1>4. ASSUME NEW h \in Threads, TurnStarts(h) \/ TurnProceeds(h) \/ TurnEnds(h)
                                   \/ SessionEnds(h) \/ SelectThread(h)
        PROVE  interrupted' = interrupted
    BY <1>4 DEF TurnStarts, TurnProceeds, TurnEnds, SessionEnds, SelectThread, Elsewhere,
       controllerVars
  <1>5. interrupted' # interrupted
    OBVIOUS
  <1> QED BY <1>1, <1>2, <1>3, <1>4, <1>5 DEF Next, Progress, Press

LEMMA UrgentStep ==
  ASSUME ThreadsOK, ComposerOK, CallsOK, MemoryOK, CallsAreShown, UrgentIsKept, [Next]_vars
  PROVE  UrgentIsKept'
  <1> SUFFICES ASSUME NEW h \in Threads, "urgent" \in marks'[h]
               PROVE  \/ "stopped" \in marks'[h] \/ "lapsed" \in marks'[h]
                      \/ Contains(interrupted', <<h, turn'[h].n>>)
    BY DEF UrgentIsKept, Remembered
  <1>0. RunsOn(h)
    <2>1. turn'[h].running
      BY ThreadsStep DEF ThreadsOK
    <2> QED BY <2>1, RunningOn DEF Starts
  <1>1. CASE "urgent" \notin marks[h]
    <2>1. \/ "stopped" \in marks'[h]
          \/ PressInterrupt /\ h = selected
          \/ PressConfirm /\ "urgent" \in PressMarks
      BY <1>1, MarksComeFrom
    <2>2. "urgent" \notin PressMarks
      BY DEF PressMarks
    <2>3. CASE PressInterrupt /\ h = selected
      <3>1. interrupted' = Remember(selected, Shown) /\ Shown = turn[h].n /\ Shown \in Nat
        BY <2>3, RunningTurnIs, RunningTurnType DEF PressInterrupt, Shown
      <3>2. Contains(interrupted', <<h, Shown>>)
        BY <2>3, <3>1, Remembering
      <3> QED BY <1>0, <3>1, <3>2 DEF RunsOn
    <2> QED BY <2>1, <2>2, <2>3
  <1>2. CASE "urgent" \in marks[h]
    <2>1. marks[h] \cap {"stopped", "lapsed"} # {} \/ Remembered(h, turn[h].n)
      BY <1>2 DEF UrgentIsKept
    <2>2. CASE marks[h] \cap {"stopped", "lapsed"} # {}
      BY <1>0, <2>2 DEF RunsOn
    <2>3. CASE Contains(interrupted, <<h, turn[h].n>>) /\ ~Contains(interrupted', <<h, turn[h].n>>)
      <3>1. CASE PressInterrupt
        <4>1. h # selected
          <5>1. Shown # NoTurn /\ ~StopsAtOnce
            BY <3>1 DEF PressInterrupt
          <5>2. h = selected => Shown = turn[h].n
            BY <5>1, RunningTurnIs DEF Shown
          <5> QED BY <2>3, <5>1, <5>2 DEF StopsAtOnce, Remembered
        <4>2. turn[h].running
          BY <1>0 DEF RunsOn
        <4>3. "lapsed" \in marks'[h]
          BY <2>3, <3>1, <4>1, <4>2 DEF PressInterrupt, Remembered
        <4> QED BY <4>3
      <3>2. ASSUME NEW call \in calls, SettleInterrupt(call),
                   interrupted' = Forget(call.thread, call.turn)
            PROVE  "stopped" \in marks'[h] \/ "lapsed" \in marks'[h]
        <4>1. Remembered(call.thread, call.turn) /\ call.thread = h
          BY <2>3, <3>2, Forgetting
        <4>2. call.turn = turn[h].n
          BY <2>3, <4>1, OneEntry DEF Remembered
        <4>3. Runs(h, call.turn)
          BY <1>0, <4>2 DEF Runs, RunsOn
        <4>4. interrupted' # interrupted
          BY <2>3
        <4>5. \/ /\ RunningTurn(call.thread) # call.turn
                 /\ marks' = marks
              \/ Mark(call.thread, {"stopped"})
          BY <3>2, <4>4, Settling
        <4>6. CASE RunningTurn(call.thread) # call.turn /\ marks' = marks
          <5>1. h # selected
            BY <4>1, <4>3, <4>6 DEF RunningTurn, Runs
          <5> QED BY <4>1, <4>3, <4>6, <5>1 DEF CallsAreShown
        <4>7. CASE Mark(call.thread, {"stopped"})
          BY <4>1, <4>7, MarkKeeps
        <4> QED BY <4>5, <4>6, <4>7
      <3> QED BY <2>3, <3>1, <3>2, MemoriesGo
    <2>4. CASE Contains(interrupted', <<h, turn[h].n>>)
      BY <1>0, <2>4 DEF RunsOn
    <2> QED BY <2>1, <2>2, <2>3, <2>4 DEF Remembered
  <1> QED BY <1>1, <1>2

LEMMA HardStopsStep ==
  ASSUME ThreadsOK, ComposerOK, CallsOK, CallsWereAsked, UrgentIsKept, HardStopsMatchPresses,
         [Next]_vars
  PROVE  HardStopsMatchPresses'
  <1>0. ASSUME NEW h \in Threads, marks'[h] # {}
        PROVE  RunsOn(h)
    <2>1. turn'[h].running
      BY <1>0, ThreadsStep DEF ThreadsOK
    <2> QED BY <1>0, <2>1, RunningOn DEF Starts
  <1>1. StopsOnlyWhatWasAsked'
    <2> SUFFICES ASSUME NEW h \in Threads, "stopped" \in marks'[h]
                 PROVE  "pressed" \in marks'[h]
      BY DEF StopsOnlyWhatWasAsked
    <2>0. marks[h] \subseteq marks'[h]
      BY <1>0 DEF RunsOn
    <2>1. CASE "stopped" \in marks[h]
      BY <2>0, <2>1 DEF HardStopsMatchPresses, StopsOnlyWhatWasAsked
    <2>2. CASE "stopped" \notin marks[h]
      <3>1. "stopped" \notin PressMarks \cup {"urgent"}
        BY DEF PressMarks
      <3>2. \/ "pressed" \in marks'[h]
            \/ \E call \in calls : h = call.thread /\ Runs(call.thread, call.turn)
        BY <2>2, <3>1, MarksComeFrom
      <3> QED BY <2>0, <3>2 DEF CallsWereAsked
    <2> QED BY <2>1, <2>2
  <1>2. SecondPressStops'
    <2> SUFFICES ASSUME NEW h \in Threads, "again" \in marks'[h]
                 PROVE  marks'[h] \cap {"stopped", "lapsed"} # {}
      BY DEF SecondPressStops
    <2>0. marks[h] \subseteq marks'[h]
      BY <1>0 DEF RunsOn
    <2>1. CASE "again" \in marks[h]
      BY <2>0, <2>1 DEF HardStopsMatchPresses, SecondPressStops
    <2>2. CASE "again" \notin marks[h]
      <3>1. \/ "stopped" \in marks'[h]
            \/ /\ PressInterrupt \/ PressConfirm
               /\ h = selected /\ "again" \in PressMarks \cup {"urgent"}
        BY <2>2, MarksComeFrom
      <3>2. CASE /\ PressInterrupt \/ PressConfirm
                 /\ h = selected /\ "again" \in PressMarks \cup {"urgent"}
        <4>1. "urgent" \in marks[h]
          BY <3>2 DEF PressMarks
        <4>2. ~Remembered(h, turn[h].n)
          <5>1. Shown # NoTurn /\ ~StopsAtOnce
            BY <3>2 DEF PressInterrupt, PressConfirm
          <5>2. Shown = turn[h].n
            BY <3>2, <5>1, RunningTurnIs DEF Shown
          <5> QED BY <3>2, <5>1, <5>2 DEF StopsAtOnce
        <4> QED BY <2>0, <4>1, <4>2 DEF UrgentIsKept
      <3> QED BY <3>1, <3>2
    <2> QED BY <2>1, <2>2
  <1> QED BY <1>1, <1>2 DEF HardStopsMatchPresses

----------------------------------------------------------------------------
(* Arms and banners.                                                        *)

LEMMA ArmIsOldStep ==
  ASSUME ThreadsOK, ComposerOK, CallsOK, ArmIsOld, [Next]_vars
  PROVE  ArmIsOld'
  <1>0. /\ \A h \in Threads : turn[h].n \in Nat /\ turn'[h].n \in Nat /\ turn[h].n <= turn'[h].n
        /\ arm.turn \in Nat
    BY TurnsGrow DEF ThreadsOK, ComposerOK
  <1>1. CASE arm' = arm
    BY <1>0, <1>1 DEF ArmIsOld
  <1>2. CASE CancelStop
    BY <1>0, <1>2 DEF ArmIsOld, CancelStop, NoArm, NoTurn
  <1>3. CASE PressConfirm
    <2>1. Shown # NoTurn /\ arm' = [thread |-> selected, turn |-> Shown, live |-> TRUE]
      BY <1>3 DEF PressConfirm
    <2>2. Shown = turn[selected].n /\ selected \in Threads
      BY <2>1, RunningTurnIs DEF Shown, ComposerOK
    <2> QED BY <1>0, <2>1, <2>2 DEF ArmIsOld
  <1>4. CASE PressSession
    <2>1. CASE ~CancelStop
      <3>1. arm' = [thread |-> selected, turn |-> NoTurn, live |-> TRUE]
        BY <1>4, <2>1 DEF PressSession
      <3> QED BY <1>0, <3>1 DEF ArmIsOld, NoTurn
    <2> QED BY <1>2, <2>1
  <1>5. CASE WindowPasses
    <2>1. arm'.thread = arm.thread /\ arm'.turn = arm.turn
      BY <1>5 DEF WindowPasses, ComposerOK
    <2> QED BY <1>0, <2>1 DEF ArmIsOld
  <1>6. ASSUME NEW call \in calls, SettleInterrupt(call)
        PROVE  CancelStop \/ arm' = arm
    BY <1>6, Settling
  <1>7. (PressHard \/ PressInterrupt \/ StopNow \/ KeepRunning \/ StopTasks \/ TimerFires
           \/ RunEffects \/ UNCHANGED vars) => CancelStop \/ arm' = arm
    BY DEF PressHard, PressInterrupt, StopNow, HardStop, KeepRunning, StopTasks, TimerFires,
       RunEffects, vars, controllerVars
  <1>8. ASSUME NEW call \in calls, AnswerInterrupt(call)
        PROVE  arm' = arm
    BY <1>8 DEF AnswerInterrupt, controllerVars
  <1>9. ASSUME NEW h \in Threads, TurnStarts(h) \/ TurnProceeds(h) \/ TurnEnds(h)
                                   \/ SessionEnds(h) \/ SelectThread(h)
        PROVE  arm' = arm
    BY <1>9 DEF TurnStarts, TurnProceeds, TurnEnds, SessionEnds, SelectThread, Elsewhere,
       controllerVars
  <1> QED BY <1>1, <1>2, <1>3, <1>4, <1>5, <1>6, <1>7, <1>8, <1>9 DEF Next, Progress, Press

(* A session idles while no turn of the thread that is shown runs.          *)
LEMMA IdleIs ==
  ASSUME ThreadsOK, ComposerOK
  PROVE  /\ View.idle <=> ~turn[selected].running /\ selected \in session
         /\ View.thread = selected
         /\ View.run = IF turn[selected].running THEN turn[selected].n ELSE NoTurn
  BY DEF View, RunningTurn, ThreadsOK, ComposerOK, NoTurn

(* Calls about running turns, in an arbitrary step that is no press.        *)
LEMMA NoNewCalls ==
  ASSUME ThreadsOK, ComposerOK, CallsOK, [Next]_vars, ~PressInterrupt,
         NEW t \in Threads,
         \A call \in calls : Runs(call.thread, call.turn) => call.thread # t,
         NEW c \in calls', turn'[c.thread].running, turn'[c.thread].n = c.turn
  PROVE  c.thread # t
  <1>1. PICK d \in calls : c.thread = d.thread /\ c.turn = d.turn
    BY CallsComeFrom DEF PressCalls
  <1> QED BY <1>1, RunningCalls

(* An arm that stays, with its thread, its banner and its view, is announced as before.     *)
LEMMA ArmStays ==
  ASSUME ThreadsOK, ComposerOK, CallsOK, ArmIsOld, ArmsAreAnnounced, [Next]_vars,
         ~PressInterrupt, arm' = arm, UNCHANGED <<selected, seen, early>>,
         early /\ View.idle => ~turn'[selected].running /\ selected \in session',
         banner' = banner
           \/ (ArmCounts /\ selected = arm.thread =>
                 arm.turn # NoTurn /\ banner'.thread = arm.thread /\ banner'.turn = arm.turn)
  PROVE  ArmsAreAnnounced'
  <1> SUFFICES ASSUME arm.live, arm.turn # NoTurn => turn'[arm.thread].running
                                                     /\ turn'[arm.thread].n = arm.turn
               PROVE  /\ arm.thread \in Threads
                      /\ ArmIsWatched'
                      /\ selected = arm.thread => ArmIsBannered'
                      /\ arm.turn = NoTurn =>
                           \A c \in calls' : turn'[c.thread].running /\ turn'[c.thread].n = c.turn
                                               => c.thread # arm.thread
    BY DEF ArmsAreAnnounced, ArmCounts, Runs
  <1>0. arm.thread \in Threads /\ arm.turn \in Nat
    BY DEF ComposerOK, NoArm
  <1>1. ArmCounts
    <2>1. CASE arm.turn # NoTurn
      <3>1. arm.turn <= turn[arm.thread].n /\ turn[arm.thread].n \in Nat
        BY <1>0 DEF ArmIsOld, ThreadsOK
      <3>2. ~Starts(arm.thread)
        BY <1>0, <2>1, <3>1 DEF Starts
      <3>3. RunsOn(arm.thread)
        BY <1>0, <2>1, <3>2, RunningOn
      <3> QED BY <2>1, <3>3 DEF ArmCounts, RunsOn, Runs
    <2> QED BY <2>1 DEF ArmCounts
  <1>2. ArmIsWatched /\ (selected = arm.thread => ArmIsBannered)
        /\ (arm.turn = NoTurn =>
              \A call \in calls : Runs(call.thread, call.turn) => call.thread # arm.thread)
    BY <1>1 DEF ArmsAreAnnounced
  <1>3. ArmIsWatched'
    <2>1. CASE arm.turn # NoTurn
      BY <1>2, <2>1 DEF ArmIsWatched
    <2>2. CASE arm.turn = NoTurn /\ seen.idle /\ seen.thread = arm.thread
      BY <2>2 DEF ArmIsWatched
    <2>3. CASE arm.turn = NoTurn /\ early /\ selected = arm.thread /\ View.idle
      <3>1. ~turn'[selected].running /\ selected \in session'
        BY <2>3
      <3>2. RunningTurn(selected)' = NoTurn
        BY <3>1 DEF RunningTurn
      <3>3. View'.idle
        BY <3>1, <3>2 DEF View
      <3> QED BY <2>3, <3>3 DEF ArmIsWatched
    <2> QED BY <1>2, <2>1, <2>2, <2>3 DEF ArmIsWatched
  <1>4. selected = arm.thread => ArmIsBannered'
    BY <1>1, <1>2 DEF ArmIsBannered
  <1>5. arm.turn = NoTurn =>
          \A c \in calls' : turn'[c.thread].running /\ turn'[c.thread].n = c.turn
                              => c.thread # arm.thread
    BY <1>0, <1>2, NoNewCalls
  <1> QED BY <1>0, <1>3, <1>4, <1>5

LEMMA NoArmLeft ==
  ASSUME ~arm'.live
  PROVE  ArmsAreAnnounced'
  BY DEF ArmsAreAnnounced, ArmCounts

LEMMA ArmSet ==
  ASSUME ThreadsOK, ComposerOK, CallsOK, NEW n \in {NoTurn, Shown},
         n = NoTurn => View.idle, n # NoTurn => Shown # NoTurn,
         arm' = [thread |-> selected, turn |-> n, live |-> TRUE],
         banner'.thread = selected, banner'.turn = n,
         n = NoTurn => banner'.kind = "confirmSession",
         early' = (seen # View),
         UNCHANGED <<selected, turn, session, seen, calls>>
  PROVE  ArmsAreAnnounced'
  <1>0. arm'.thread = selected /\ arm'.turn = n /\ selected \in Threads
    BY DEF ComposerOK
  <1>1. ArmIsWatched'
    <2>1. View' = View
      BY DEF View, RunningTurn
    <2>2. CASE seen # View
      BY <1>0, <2>1, <2>2 DEF ArmIsWatched
    <2>3. CASE seen = View
      <3>1. seen.thread = selected /\ (View.idle => seen.idle) /\ seen.run = Shown
        BY <2>3 DEF View, Shown
      <3> QED BY <1>0, <3>1 DEF ArmIsWatched
    <2> QED BY <2>2, <2>3
  <1>2. ArmIsBannered'
    BY <1>0 DEF ArmIsBannered
  <1>3. ASSUME n = NoTurn, NEW c \in calls, turn[c.thread].running, c.thread = selected
        PROVE  FALSE
    BY <1>3, IdleIs
  <1> QED BY <1>0, <1>1, <1>2, <1>3 DEF ArmsAreAnnounced, Runs

LEMMA ArmsStep ==
  ASSUME ThreadsOK, ComposerOK, CallsOK, ArmIsOld, ArmsAreAnnounced, [Next]_vars
  PROVE  ArmsAreAnnounced'
  <1>0. CASE CancelStop
    BY <1>0, NoArmLeft DEF CancelStop, NoArm
  <1>1. CASE PressConfirm
    <2>1. /\ arm' = [thread |-> selected, turn |-> Shown, live |-> TRUE]
          /\ banner' = [kind |-> "confirmBackground", thread |-> selected, turn |-> Shown]
          /\ early' = (seen # View) /\ Shown # NoTurn
          /\ UNCHANGED <<selected, turn, session, seen, calls>>
      BY <1>1 DEF PressConfirm, Pressing
    <2>2. banner'.thread = selected /\ banner'.turn = Shown
      BY <2>1
    <2> QED BY <2>1, <2>2, ArmSet
  <1>2. CASE PressSession /\ ~CancelStop
    <2>1. /\ arm' = [thread |-> selected, turn |-> NoTurn, live |-> TRUE]
          /\ banner' = [kind |-> "confirmSession", thread |-> selected, turn |-> NoTurn]
          /\ early' = (seen # View) /\ View.idle
          /\ UNCHANGED <<selected, turn, session, seen, calls>>
      BY <1>2 DEF PressSession, Pressing
    <2>2. banner'.thread = selected /\ banner'.turn = NoTurn /\ banner'.kind = "confirmSession"
      BY <2>1
    <2> QED BY <2>1, <2>2, ArmSet
  <1>3. CASE WindowPasses
    <2>1. ~arm'.live
      BY <1>3 DEF WindowPasses, ComposerOK
    <2> QED BY <2>1, NoArmLeft
  <1>4. CASE RunEffects /\ ~CancelStop
    <2>1. /\ seen' = View /\ early' = FALSE
          /\ UNCHANGED <<selected, turn, session, calls, arm, banner>>
          /\ seen.run # NoTurn => <<seen.thread, seen.run>> = <<selected, View.run>>
          /\ seen.idle => View.idle /\ seen.thread = selected
      BY <1>4 DEF RunEffects, threadVars
    <2>2. CASE ArmCounts
      <3>0. ArmIsWatched /\ (arm.turn # NoTurn => Runs(arm.thread, arm.turn))
            /\ arm.thread \in Threads
        BY <2>2 DEF ArmsAreAnnounced, ArmCounts
      <3>1. ArmIsWatched'
        <4>1. CASE arm.turn = NoTurn
          <5>1. View.idle /\ selected = arm.thread
            BY <2>1, <3>0, <4>1 DEF ArmIsWatched
          <5>2. seen'.idle /\ seen'.thread = arm.thread
            BY <2>1, <5>1, IdleIs
          <5> QED BY <2>1, <4>1, <5>2 DEF ArmIsWatched
        <4>2. CASE arm.turn # NoTurn
          <5>1. selected = arm.thread /\ View.run = arm.turn
            <6>1. CASE seen.run = arm.turn /\ seen.thread = arm.thread
              BY <2>1, <4>2, <6>1
            <6>2. CASE early /\ selected = arm.thread
              BY <3>0, <4>2, <6>2, IdleIs DEF Runs
            <6> QED BY <3>0, <4>2, <6>1, <6>2 DEF ArmIsWatched
          <5>2. seen'.run = arm.turn /\ seen'.thread = arm.thread
            BY <2>1, <5>1, IdleIs
          <5> QED BY <2>1, <4>2, <5>2 DEF ArmIsWatched
        <4> QED BY <4>1, <4>2
      <3> QED BY <2>1, <2>2, <3>1 DEF ArmsAreAnnounced, ArmIsBannered, Runs
    <2>3. CASE ~ArmCounts
      BY <2>1, <2>3 DEF ArmsAreAnnounced, ArmCounts, Runs
    <2> QED BY <2>2, <2>3
  <1>5. ASSUME NEW h \in Threads, SelectThread(h)
        PROVE  ArmsAreAnnounced'
    <2>1. /\ seen = View /\ h # selected /\ selected' = h
          /\ UNCHANGED <<turn, session, seen, early, calls, arm, banner>>
      BY <1>5 DEF SelectThread, threadVars, effectVars, controllerVars
    <2>2. CASE ArmCounts
      <3>0. ArmIsWatched /\ (arm.turn # NoTurn => Runs(arm.thread, arm.turn))
        BY <2>2 DEF ArmsAreAnnounced, ArmCounts
      <3>1. seen.thread = arm.thread /\ arm.thread = selected
            /\ (arm.turn = NoTurn => seen.idle) /\ (arm.turn # NoTurn => seen.run = arm.turn)
        BY <2>1, <3>0, IdleIs DEF ArmIsWatched, Runs
      <3>2. ArmIsWatched'
        BY <2>1, <3>1 DEF ArmIsWatched
      <3> QED BY <2>1, <2>2, <3>1, <3>2 DEF ArmsAreAnnounced, Runs
    <2>3. CASE ~ArmCounts
      BY <2>1, <2>3 DEF ArmsAreAnnounced, ArmCounts, Runs
    <2> QED BY <2>2, <2>3
  <1>6. ASSUME NEW call \in calls, SettleInterrupt(call), ~CancelStop
        PROVE  ArmsAreAnnounced'
    <2>1. /\ UNCHANGED <<selected, turn, session, seen, early, arm>>
          /\ \/ banner' = banner
             \/ /\ call.thread = selected /\ Runs(call.thread, call.turn)
                /\ banner' = [kind |-> "interrupting", thread |-> call.thread,
                              turn |-> call.turn]
      BY <1>6, Settling
    <2>2. ASSUME banner' # banner, ArmCounts, selected = arm.thread
          PROVE  arm.turn # NoTurn /\ banner'.thread = arm.thread /\ banner'.turn = arm.turn
      <3>1. call.thread = selected /\ Runs(call.thread, call.turn)
            /\ banner'.thread = call.thread /\ banner'.turn = call.turn
        BY <2>1, <2>2
      <3>2. arm.turn # NoTurn
        BY <2>2, <3>1 DEF ArmsAreAnnounced
      <3>3. arm.turn = call.turn
        BY <2>2, <3>1, <3>2 DEF ArmCounts, Runs
      <3> QED BY <2>2, <3>1, <3>2, <3>3
    <2>3. ~PressInterrupt
      BY <1>6 DEF PressInterrupt
    <2>4. View.idle => ~turn'[selected].running /\ selected \in session'
      BY <2>1, IdleIs
    <2> QED BY <2>1, <2>2, <2>3, <2>4, ArmStays
  <1>7. ASSUME NEW call \in calls, AnswerInterrupt(call)
        PROVE  ArmsAreAnnounced'
    <2>1. UNCHANGED <<selected, turn, session, seen, early, arm, banner, presses>>
      BY <1>7 DEF AnswerInterrupt, threadVars, effectVars, controllerVars
    <2>2. ~PressInterrupt
      BY <2>1 DEF PressInterrupt, Pressing, CallsOK
    <2>3. View.idle => ~turn'[selected].running /\ selected \in session'
      BY <2>1, IdleIs
    <2> QED BY <2>1, <2>2, <2>3, ArmStays
  <1>8. ASSUME NEW h \in Threads, TurnStarts(h) \/ TurnEnds(h) \/ SessionEnds(h)
        PROVE  ArmsAreAnnounced'
    <2>1. UNCHANGED <<selected, seen, early, arm, banner, presses>> /\ MayRender(h)
      BY <1>8 DEF TurnStarts, TurnEnds, SessionEnds, Elsewhere, effectVars, controllerVars
    <2>2. ~PressInterrupt
      BY <2>1 DEF PressInterrupt, Pressing, CallsOK
    <2>3. early /\ View.idle => ~turn'[selected].running /\ selected \in session'
      <3> SUFFICES ASSUME early, View.idle
                   PROVE  ~turn'[selected].running /\ selected \in session'
        OBVIOUS
      <3>1. h # selected /\ ~turn[selected].running /\ selected \in session
            /\ selected \in Threads
        BY <2>1, IdleIs DEF MayRender, ComposerOK
      <3>2. turn'[selected] = turn[selected]
        BY <1>8, <3>1 DEF TurnStarts, TurnEnds, SessionEnds, ThreadsOK
      <3>3. selected \in session'
        BY <1>8, <3>1 DEF TurnStarts, TurnEnds, SessionEnds
      <3> QED BY <3>1, <3>2, <3>3
    <2> QED BY <2>1, <2>2, <2>3, ArmStays
  <1>9. ASSUME NEW h \in Threads, TurnProceeds(h)
        PROVE  ArmsAreAnnounced'
    <2>1. UNCHANGED <<selected, session, seen, early, arm, banner, presses>>
      BY <1>9 DEF TurnProceeds, Elsewhere, effectVars, controllerVars
    <2>2. ~PressInterrupt
      BY <2>1 DEF PressInterrupt, Pressing, CallsOK
    <2>3. turn'[selected].running = turn[selected].running
      BY <1>9, Proceeding DEF ThreadsOK, ComposerOK
    <2>4. View.idle => ~turn'[selected].running /\ selected \in session'
      BY <2>1, <2>3, IdleIs
    <2> QED BY <2>1, <2>2, <2>4, ArmStays
  <1>10. (PressHard \/ PressInterrupt \/ StopNow \/ KeepRunning \/ StopTasks \/ TimerFires)
           => CancelStop
    BY DEF PressHard, PressInterrupt, StopNow, HardStop, KeepRunning, StopTasks, TimerFires
  <1>11. CASE UNCHANGED vars
    <2>1. UNCHANGED <<selected, turn, session, seen, early, arm, banner, presses>>
      BY <1>11 DEF vars, threadVars, effectVars, controllerVars
    <2>2. ~PressInterrupt
      BY <2>1 DEF PressInterrupt, Pressing, CallsOK
    <2>3. View.idle => ~turn'[selected].running /\ selected \in session'
      BY <2>1, IdleIs
    <2> QED BY <2>1, <2>2, <2>3, ArmStays
  <1> QED BY <1>0, <1>1, <1>2, <1>3, <1>4, <1>5, <1>6, <1>7, <1>8, <1>9, <1>10, <1>11
          DEF Next, Progress, Press

----------------------------------------------------------------------------
(* The theorems.                                                            *)

LEMMA StopInitially ==
  ASSUME Init
  PROVE  StopInvariant
  <1> USE DEF Init, NoTurn
  <1>1. ThreadsOK
    BY StopControllerAssumption DEF ThreadsOK, NotYet
  <1>2. ComposerOK
    BY DEF ComposerOK, NoArm, NoBanner
  <1>3. CallsOK
    BY StopControllerAssumption DEF CallsOK
  <1>4. \A e : ~Contains(interrupted, e)
    BY DEF Contains
  <1>5. MemoryOK
    <2>1. Len(interrupted) = 0 /\ interrupted \in Seq(Entries)
      OBVIOUS
    <2> QED BY <2>1, StopControllerAssumption DEF MemoryOK, OnePerThread
  <1>6. CallsWereAsked /\ CallsAreShown /\ MemoryWasAsked /\ UrgentIsKept
    BY <1>4 DEF CallsWereAsked, CallsAreShown, MemoryWasAsked, UrgentIsKept, Remembered
  <1>7. HardStopsMatchPresses
    BY DEF HardStopsMatchPresses, StopsOnlyWhatWasAsked, SecondPressStops
  <1>8. ArmIsOld /\ ArmsAreAnnounced
    BY <1>1 DEF ArmIsOld, ArmsAreAnnounced, ArmCounts, NoArm, NotYet
  <1> QED BY <1>1, <1>2, <1>3, <1>5, <1>6, <1>7, <1>8 DEF StopInvariant

LEMMA StopStep ==
  ASSUME StopInvariant, [Next]_vars
  PROVE  StopInvariant'
  <1>1. ThreadsOK' /\ ComposerOK' /\ CallsOK' /\ MemoryOK'
    BY ThreadsStep, ComposerStep, CallsStep, MemoryStep DEF StopInvariant
  <1>2. CallsWereAsked' /\ CallsAreShown' /\ MemoryWasAsked' /\ UrgentIsKept'
    BY AskedStep, ShownStep, RememberedStep, UrgentStep DEF StopInvariant
  <1>3. HardStopsMatchPresses' /\ ArmIsOld' /\ ArmsAreAnnounced'
    BY HardStopsStep, ArmIsOldStep, ArmsStep DEF StopInvariant
  <1> QED BY <1>1, <1>2, <1>3 DEF StopInvariant

(* The inductive invariant: what the presses asked for is marked, remembered or left behind, *)
(* and an arm that counts is watched by the effects of the view it was set on.              *)
THEOREM StopInvariance == Spec => []StopInvariant
  BY StopInitially, StopStep, PTL DEF Spec

(* Type correctness: what is armed, shown and awaited belongs to threads and turns there    *)
(* are, and an awaited interrupt has its call (pendingInterruptRef).                        *)
THEOREM StopTypes == Spec => []TypeOK
  <1>1. StopInvariant => TypeOK
    <2> SUFFICES ASSUME StopInvariant PROVE TypeOK
      OBVIOUS
    <2>1. selected \in Threads /\ seen.thread \in Threads /\ early \in BOOLEAN
      BY DEF StopInvariant, ComposerOK
    <2>2. \A h \in Threads : /\ turn[h].n \in 0..MaxTurns[h]
                             /\ turn[h].foreground \/ turn[h].tasks => turn[h].running
      BY StopControllerAssumption DEF StopInvariant, ThreadsOK
    <2>3. arm = NoArm \/ (arm.thread \in Threads /\ arm.turn \in 0..MaxTurns[arm.thread])
      BY DEF StopInvariant, ComposerOK
    <2>4. banner.kind \in {"none", "confirmBackground", "confirmSession", "interrupting"}
      BY DEF StopInvariant, ComposerOK
    <2>5. Len(interrupted) <= MaxRemembered
      BY DEF StopInvariant, MemoryOK
    <2>6. /\ attempt # 0 => \E call \in calls : call.id = attempt
          /\ presses \in 0..MaxPresses /\ switches \in 0..MaxSwitches
      BY DEF StopInvariant, CallsOK
    <2>7. session \subseteq Threads
          /\ \A h \in Threads : marks[h] \subseteq Marks /\ (marks[h] # {} => turn[h].running)
      BY DEF StopInvariant, ThreadsOK
    <2> QED BY <2>1, <2>2, <2>3, <2>4, <2>5, <2>6, <2>7 DEF TypeOK
  <1> QED BY <1>1, StopInvariance, PTL

(* decideAgentStop and settleInterrupt stop a turn hard for presses of its own only, and     *)
(* the second press does, however many threads, turns, late answers and evictions there are. *)
THEOREM HardStopsArePressedFor == Spec => []HardStopsMatchPresses
  <1>1. StopInvariant => HardStopsMatchPresses
    BY DEF StopInvariant
  <1> QED BY <1>1, StopInvariance, PTL

(* What NothingDiesUnconfirmed says of a step.                              *)
ConfirmedStep ==
    \A thread \in Threads :
      /\ "stopped" \in marks'[thread] \ marks[thread]
         /\ ~turn[thread].foreground /\ turn[thread].tasks =>
           \/ "urgent" \in marks[thread]
           \/ banner.thread = thread /\ banner.turn = turn[thread].n
      /\ thread \in session \ session' /\ presses' # presses =>
           banner.kind = "confirmSession" /\ banner.thread = thread /\ arm.live

LEMMA StepIsConfirmed ==
  ASSUME StopInvariant, [Next]_vars
  PROVE  ConfirmedStep
  <1>0. /\ ThreadsOK /\ ComposerOK /\ CallsOK /\ MemoryOK
        /\ CallsWereAsked /\ MemoryWasAsked /\ ArmsAreAnnounced
    BY DEF StopInvariant
  <1>1. ASSUME NEW h \in Threads, "stopped" \in marks'[h], "stopped" \notin marks[h],
               ~turn[h].foreground, turn[h].tasks
        PROVE  "urgent" \in marks[h] \/ (banner.thread = h /\ banner.turn = turn[h].n)
    <2>1. "stopped" \notin PressMarks \cup {"urgent"}
      BY DEF PressMarks
    <2>2. \/ PressHard /\ h = selected
          \/ StopNow /\ h = selected
          \/ \E call \in calls : h = call.thread /\ Runs(call.thread, call.turn)
      BY <1>0, <1>1, <2>1, MarksComeFrom
    <2>3. CASE PressHard /\ h = selected
      <3>1. /\ Shown # NoTurn /\ Shown = turn[h].n /\ turn[h].running
            /\ StopsAtOnce
        BY <1>0, <1>1, <2>3, RunningTurnIs DEF PressHard, Shown
      <3>2. CASE ArmLive(selected, Shown)
        <4>1. ArmCounts /\ arm.thread = selected /\ arm.turn = Shown
          BY <2>3, <3>1, <3>2 DEF ArmLive, ArmCounts, Runs
        <4> QED BY <1>0, <2>3, <3>1, <4>1 DEF ArmsAreAnnounced, ArmIsBannered
      <3>3. CASE Remembered(selected, Shown)
        <4>1. Shown \in Nat
          BY <1>0, <2>3, RunningTurnType DEF Shown
        <4> QED BY <1>0, <2>3, <3>1, <3>3, <4>1 DEF MemoryWasAsked, Runs
      <3> QED BY <3>1, <3>2, <3>3 DEF StopsAtOnce
    <2>4. CASE StopNow /\ h = selected
      <3>1. Visible /\ Shown # NoTurn /\ Shown = turn[h].n /\ View.run = Shown /\ ~View.idle
        BY <1>0, <2>4, RunningTurnIs, IdleIs DEF StopNow, Shown
      <3> QED BY <2>4, <3>1 DEF Visible
    <2>5. CASE \E call \in calls : h = call.thread /\ Runs(call.thread, call.turn)
      BY <1>0, <2>5 DEF CallsWereAsked
    <2> QED BY <2>2, <2>3, <2>4, <2>5
  <1>2. ASSUME NEW h \in Threads, h \in session, h \notin session', presses' # presses
        PROVE  banner.kind = "confirmSession" /\ banner.thread = h /\ arm.live
    <2>1. PressSession
      <3>1. ASSUME NEW call \in calls, SettleInterrupt(call) \/ AnswerInterrupt(call)
            PROVE  presses' = presses
        BY <3>1 DEF SettleInterrupt, AnswerInterrupt
      <3>2. (UNCHANGED vars \/ KeepRunning \/ StopTasks \/ WindowPasses \/ TimerFires
               \/ RunEffects) => presses' = presses
        BY DEF vars, KeepRunning, StopTasks, WindowPasses, TimerFires, RunEffects, Untouched
      <3>3. ASSUME NEW g \in Threads, TurnStarts(g) \/ TurnProceeds(g) \/ TurnEnds(g)
                                       \/ SessionEnds(g) \/ SelectThread(g)
            PROVE  presses' = presses
        BY <3>3 DEF TurnStarts, TurnProceeds, TurnEnds, SessionEnds, SelectThread, Elsewhere
      <3>4. (PressHard \/ PressInterrupt \/ PressConfirm \/ StopNow) => session' = session
        BY DEF PressHard, PressInterrupt, PressConfirm, StopNow
      <3> QED BY <1>2, <3>1, <3>2, <3>3, <3>4 DEF Next, Progress, Press
    <2>2. ArmLive(selected, NoTurn) /\ h = selected
      BY <1>2, <2>1 DEF PressSession
    <2>3. ArmCounts /\ arm.thread = selected /\ arm.turn = NoTurn
      BY <2>2 DEF ArmLive, ArmCounts
    <2> QED BY <1>0, <2>2, <2>3 DEF ArmsAreAnnounced, ArmIsBannered, ArmCounts
  <1> QED BY <1>1, <1>2 DEF ConfirmedStep

(* The second press that kills background work comes under the banner that asked about this *)
(* very turn or session, or after an urgent press, although one armRef and one banner serve *)
(* all threads and the effects that withdraw them lag behind.                               *)
THEOREM BackgroundIsConfirmed == Spec => NothingDiesUnconfirmed
  <1>1. StopInvariant /\ [Next]_vars => [ConfirmedStep]_vars
    BY StepIsConfirmed
  <1>2. Spec => [][ConfirmedStep]_vars
    BY <1>1, StopInvariance, PTL DEF Spec
  <1> QED BY <1>2 DEF ConfirmedStep, NothingDiesUnconfirmed
=============================================================================
