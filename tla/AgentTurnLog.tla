----------------------------- MODULE AgentTurnLog -----------------------------
(****************************************************************************)
(* The durable log of one agent turn: the renderer's writer                 *)
(* (src/application/agentTurnLogWriter.ts), the window of rows it has not   *)
(* stored yet (src/domain/agentTurnWindow.ts), the mounts of the React      *)
(* component that own a writer (useAgentTurnLogging.ts), and the SQLite     *)
(* store behind the IPC boundary (src-tauri/src/agent_turn_log/).           *)
(*                                                                          *)
(* Every mount has a writer of its own, with at most one slot for the turn. *)
(* A slot takes a lease (an epoch and the next sequence number) from the    *)
(* store, and appends batches that name both.  A call of the gateway is     *)
(* three steps: the renderer sends it, the store executes it, the renderer  *)
(* takes the reply; a handler of the renderer runs without interruption.    *)
(*                                                                          *)
(* An event is its number in the order of arrival, the content of a row is  *)
(* the set of events merged into it, and a loss is recorded or not (the     *)
(* seven degrees of agentTurnLogLossSeverity are one).                      *)
(****************************************************************************)
EXTENDS Naturals, FiniteSetsExt, SequencesExt

CONSTANTS
    Kinds,        \* kinds of event that arrive, among EventKinds
    MaxEvents,    \* bound of the model: events of the turn
    MaxMounts,    \* bound of the model: mounts of the owning component
    Disturbances, \* what may disturb the turn, among AllDisturbances
    MaxDisturbances, \* bound of the model: how often something disturbs it
    MaxAttempts,  \* MAX_AGENT_TURN_LOG_TRANSPORT_ATTEMPTS
    MaxBatch      \* AGENT_TURN_LOG_LIMITS.appendOps

EventKinds == {"text", "other", "snapshot", "oversized"}

(* A call that fails before it commits, a reply lost after the commit, a    *)
(* loss the supervisor reports, a new mount of the owning component, a new  *)
(* generation of the project, and its closing.                              *)
AllDisturbances == {"fail", "lose", "report", "remount", "generation", "close"}

ASSUME TurnLogAssumption ==
    /\ Kinds \subseteq EventKinds
    /\ Disturbances \subseteq AllDisturbances
    /\ {MaxEvents, MaxDisturbances, MaxAttempts} \subseteq Nat
    /\ {MaxMounts, MaxBatch} \subseteq Nat \ {0}

VARIABLES
    slot,         \* per mount, the WriterSlot of the turn
    store,        \* the turn's row and events in the database
    live,         \* the mount whose writer is live, 0 between two mounts
    mounts,       \* how many mounts there have been
    retiring,     \* the mount whose writer is flushing before its disposal
    openRequest,  \* is the turn among the lifecycle's openRequests?
    gen,          \* generation of the project that owns the turn, 0 if closed
    recorded,     \* events that were taken into a slot so far
    terminal,     \* has the turn ended?
    disturbed     \* how often the turn has been disturbed

vars == <<slot, store, live, mounts, retiring, openRequest, gen, recorded,
          terminal, disturbed>>

Disturb(kind) ==
    /\ kind \in Disturbances /\ disturbed < MaxDisturbances
    /\ disturbed' = disturbed + 1

Mounts == 1..MaxMounts

----------------------------------------------------------------------------
(* The window of rows. *)

NoRow == [seq |-> 0, events |-> {}, text |-> FALSE]
NoWindow == [next |-> 0, dirty |-> <<>>, tail |-> NoRow, snapshot |-> NoRow]
createAgentTurnWindow(firstSeq) == [NoWindow EXCEPT !.next = firstSeq]

MarkDirty(win, seq, events) ==
    [win EXCEPT !.dirty =
        [s \in DOMAIN win.dirty \cup {seq} |->
            IF s = seq THEN events ELSE win.dirty[s]]]

AppendRow(win, kind, e) ==
    LET row == [seq |-> win.next, events |-> {e}, text |-> kind = "text"]
    IN [MarkDirty(win, win.next, {e}) EXCEPT
            !.next = win.next + 1,
            !.tail = row,
            !.snapshot = IF kind = "snapshot" THEN row ELSE @]

(* Text joins the text row at the tail; a snapshot replaces the row of the  *)
(* one it supersedes, wherever that row is, unless text is still growing.   *)
CoalesceIntoTail(win, e) ==
    LET events == win.tail.events \cup {e}
    IN [MarkDirty(win, win.tail.seq, events) EXCEPT !.tail.events = events]

SupersedeInPlace(win, e) ==
    LET events == win.snapshot.events \cup {e}
    IN [MarkDirty(win, win.snapshot.seq, events) EXCEPT !.snapshot.events = events]

AcceptEvent(win, kind, e) ==
    CASE kind = "text" /\ win.tail.text -> CoalesceIntoTail(win, e)
      [] kind = "snapshot" /\ win.snapshot.seq # 0 /\ ~win.tail.text ->
            SupersedeInPlace(win, e)
      [] kind = "oversized" -> win
      [] OTHER -> AppendRow(win, kind, e)

(* The first n dirty rows, in the order of their sequence numbers.          *)
TakeBatch_newest(win, n) ==                                            \* mutant
    LET seqs == DOMAIN win.dirty
    IN [s \in {x \in seqs : Cardinality({y \in seqs : y >= x}) <= n} |-> win.dirty[s]]
TakeBatch(win, n) ==
    LET seqs == DOMAIN win.dirty
    IN [s \in {x \in seqs : Cardinality({y \in seqs : y <= x}) <= n} |-> win.dirty[s]]

(* A row that changed since it was taken stays dirty.                       *)
CommitBatch_blind(win, ops) ==                                         \* mutant
    [win EXCEPT !.dirty = [s \in DOMAIN win.dirty \ DOMAIN ops |-> win.dirty[s]]]
CommitBatch(win, ops) ==
    LET kept == {s \in DOMAIN win.dirty : s \in DOMAIN ops => ops[s] # win.dirty[s]}
    IN [win EXCEPT !.dirty = [s \in kept |-> win.dirty[s]]]

(* CLIPPED_AGENT_TURN_LOG_ROW carries no event any more.                    *)
ClipRow(win, seq) ==
    [MarkDirty(win, seq, {}) EXCEPT
        !.tail = IF win.tail.seq = seq THEN [NoRow EXCEPT !.seq = seq] ELSE @]

----------------------------------------------------------------------------
(* A slot of a writer. *)

NoCall == [kind |-> "none", epoch |-> 0, expected |-> 0, ops |-> <<>>,
           seal |-> FALSE, loss |-> FALSE, reply |-> "none", next |-> 0]

Unopened == [state |-> "none", gen |-> 0, buffered |-> <<>>, win |-> NoWindow,
             epoch |-> 0, expected |-> 0, maxBatch |-> MaxBatch,
             flushRequested |-> FALSE, sealRequested |-> FALSE,
             reopenPending |-> FALSE, attempts |-> 0, timer |-> "none",
             loss |-> FALSE, call |-> NoCall, note |-> NoCall,
             skipped |-> {}, unsaid |-> {}]

Alive(s) == s.state \in {"opening", "writing", "retrying"}
HasWindow(s) == s.win.next # 0

EventsOf(rows) == UNION {rows[i] : i \in DOMAIN rows}
Pending(s) == EventsOf(s.win.dirty) \cup {s.buffered[i].e : i \in DOMAIN s.buffered}

(* stop, release and retire: what is pending is dropped, and unless the log *)
(* is sealed or was never leased, one append that carries only the loss is  *)
(* sent; the slot is forgotten when that append is answered.                *)
(* Auxiliary: `skipped` are the events given up for a loss that the next    *)
(* append will carry, `unsaid` those dropped with no loss stored.  A stop   *)
(* because the log is sealed adds nothing to `unsaid`: what it drops has to *)
(* be stored or covered.  A stop before the lease does, nothing is sent.    *)
IncompleteNote(s) ==
    [NoCall EXCEPT !.kind = "note", !.epoch = s.epoch, !.expected = s.expected,
                   !.loss = TRUE, !.reply = "sent"]

Stop(s, reason) ==
    LET silent == reason = "sealed" \/ s.epoch = 0
    IN [s EXCEPT !.state = IF silent THEN "gone" ELSE "stopped",
                 !.win = NoWindow, !.buffered = <<>>, !.timer = "none",
                 !.loss = FALSE,
                 !.note = IF silent THEN NoCall ELSE IncompleteNote(s),
                 !.unsaid = IF reason = "sealed" THEN @
                            ELSE @ \cup Pending(s) \cup s.skipped,
                 !.skipped = {}]

(* alive: a writer whose project was closed stops; one whose project has a  *)
(* new generation adopts it and takes a new lease before it writes again.   *)
Checked(s) ==
    IF gen = 0 THEN Stop(s, "ownerMismatch")
    ELSE IF s.gen = gen THEN s
    ELSE [s EXCEPT !.gen = gen, !.reopenPending = TRUE]

OpenCall(kind) == [NoCall EXCEPT !.kind = kind, !.reply = "sent"]

AppendCall_seal_early(s, ops, complete) ==                             \* mutant
    [NoCall EXCEPT !.kind = "append", !.epoch = s.epoch, !.expected = s.expected,
                   !.ops = ops, !.seal = s.sealRequested,
                   !.loss = s.loss, !.reply = "sent"]
AppendCall_silent(s, ops, complete) ==                                 \* mutant
    [NoCall EXCEPT !.kind = "append", !.epoch = s.epoch, !.expected = s.expected,
                   !.ops = ops, !.seal = s.sealRequested /\ complete, !.reply = "sent"]
AppendCall(s, ops, complete) ==
    [NoCall EXCEPT !.kind = "append", !.epoch = s.epoch, !.expected = s.expected,
                   !.ops = ops, !.seal = s.sealRequested /\ complete,
                   !.loss = s.loss, !.reply = "sent"]

NothingToWrite_despite_seal(s) == s.win.dirty = <<>>                   \* mutant
NothingToWrite(s) == s.win.dirty = <<>> /\ ~s.sealRequested

(* runFlush and flushOnce, the possible results: a batch ends at maxBatch   *)
(* rows or, after at least one, at the byte target of an append.            *)
RunFlush(s) ==
    LET dirty == Cardinality(DOMAIN s.win.dirty)
        most == IF dirty < s.maxBatch THEN dirty ELSE s.maxBatch
    IN IF ~HasWindow(s) THEN {s}
       ELSE IF s.call # NoCall THEN {[s EXCEPT !.flushRequested = TRUE]}
       ELSE IF s.reopenPending THEN {[s EXCEPT !.call = OpenCall("reopen")]}
       ELSE IF NothingToWrite(s) THEN {s}
       ELSE {[s EXCEPT !.call = AppendCall(s, TakeBatch(s.win, n), n = dirty),
                       !.timer = "none"] :
                n \in IF dirty = 0 THEN {0} ELSE 1..most}

CheckedFlush(s) == LET c == Checked(s) IN IF Alive(c) THEN RunFlush(c) ELSE {c}

ScheduleFlush(s, immediate) ==
    IF s.state = "retrying" \/ ~HasWindow(s) THEN {s}
    ELSE IF immediate THEN CheckedFlush([s EXCEPT !.timer = "none"])
    ELSE {[s EXCEPT !.timer = "flush"]}

(* settleFlush, after an append was answered or recognised as committed.    *)
SettleFlush(s, ops, seal, next) ==
    LET c == [s EXCEPT !.win = CommitBatch(s.win, ops), !.attempts = 0,
                       !.expected = next, !.state = "writing"]
        chase == c.flushRequested \/ c.sealRequested \/ c.win.dirty # <<>>
        quiet == [c EXCEPT !.flushRequested = FALSE]
    IN IF seal THEN {Stop([c EXCEPT !.skipped = {}], "sealed")}
       ELSE IF chase THEN RunFlush(quiet) ELSE {quiet}

(* retryLater: too many transport failures in a row, or a retry window that *)
(* is over (which takes at least a second failure), stop the slot.          *)
RetryLater(s, error) ==
    LET attempts == s.attempts + 1
        failed == Stop([s EXCEPT !.attempts = attempts], "failed")
        later == [s EXCEPT !.attempts = attempts, !.state = "retrying", !.timer = "retry"]
    IN IF error = "unavailable" /\ attempts > MaxAttempts THEN {failed}
       ELSE IF attempts > 1 THEN {later, failed} ELSE {later}

(* shrinkBatch: half of the rows, or the only row clipped. *)
ShrinkBatch(s, ops) ==
    LET seq == CHOOSE x \in DOMAIN ops : TRUE
    IN CASE ops = <<>> -> {Stop(s, "failed")}
         [] Cardinality(DOMAIN ops) > 1 ->
               RunFlush([s EXCEPT !.maxBatch = Cardinality(DOMAIN ops) \div 2])
         [] OTHER ->
               IF seq \notin DOMAIN s.win.dirty \/ s.win.dirty[seq] = {}
               THEN {Stop(s, "failed")}
               ELSE RunFlush([s EXCEPT !.win = ClipRow(s.win, seq), !.loss = TRUE,
                                             !.skipped = @ \cup s.win.dirty[seq]])

(* reconcileSequenceGap: the store is exactly where this batch would have   *)
(* brought it, so an earlier try of it must have been committed.            *)
Explains(s, ops, next) ==
    /\ ops # <<>>
    /\ next = Max({s.expected, Max(DOMAIN ops) + 1})

ReconcileSequenceGap(s, call) ==
    IF ~Explains(s, call.ops, call.next) THEN {Stop(s, "sequenceGap")}
    ELSE SettleFlush([s EXCEPT !.unsaid = @ \cup (EventsOf(call.ops) \ EventsOf(store.rows))],
                     call.ops, FALSE, call.next)

AppendReplied(s, call) ==
    CASE call.reply = "ok" ->
            SettleFlush([s EXCEPT !.maxBatch = MaxBatch], call.ops, call.seal, call.next)
      [] call.reply = "tooLarge" -> ShrinkBatch(s, call.ops)
      [] call.reply = "sequenceGap" -> ReconcileSequenceGap(s, call)
      [] call.reply \in {"busy", "unavailable"} -> RetryLater(s, call.reply)
      [] OTHER -> {Stop(s, call.reply)}

Oversized(buffered) ==
    {buffered[i].e : i \in {j \in DOMAIN buffered : buffered[j].kind = "oversized"}}

(* runOpen, once the lease is granted: the buffered events enter the window *)
(* in the order in which they came.                                         *)
Replay(first, buffered) ==
    LET win[i \in 0..Len(buffered)] ==
            IF i = 0 THEN createAgentTurnWindow(first)
            ELSE AcceptEvent(win[i - 1], buffered[i].kind, buffered[i].e)
    IN win[Len(buffered)]

OpenReplied(s, call) ==
    IF call.reply # "ok" THEN RetryLater(s, call.reply)
    ELSE LET win == Replay(call.next, s.buffered)
             opened == [s EXCEPT !.epoch = call.epoch, !.expected = call.next,
                                 !.attempts = 0, !.state = "writing", !.win = win,
                                 !.buffered = <<>>, !.skipped = Oversized(s.buffered),
                                 !.loss = @ \/ Oversized(s.buffered) # {}]
         IN UNION {ScheduleFlush(opened, urgent) :
                      urgent \in IF s.sealRequested THEN {TRUE}
                                 ELSE IF s.buffered = <<>> THEN {FALSE} ELSE BOOLEAN}

(* reopenLease: the store must be where the writer left it.                 *)
ReopenReplied(s, call) ==
    IF call.reply # "ok" THEN RetryLater(s, call.reply)
    ELSE IF call.next # s.expected THEN {Stop(s, "sequenceGap")}
    ELSE RunFlush([s EXCEPT !.epoch = call.epoch, !.attempts = 0, !.reopenPending = FALSE])

----------------------------------------------------------------------------
(* openTurn: on a mount whose predecessor is still retiring the request is  *)
(* held back until that writer is disposed.                                 *)
OpenedSlot(held) ==
    [Unopened EXCEPT !.state = "opening", !.gen = gen,
                     !.call = [OpenCall("open") EXCEPT !.reply =
                                  IF held THEN "held" ELSE "sent"]]

(* The first mount has just opened the turn, which has just started.        *)
Init ==
    /\ gen = 1
    /\ slot = [m \in Mounts |-> IF m = 1 THEN OpenedSlot(FALSE) ELSE Unopened]
    /\ store = [epoch |-> 0, next |-> 1, rows |-> <<>>, sealed |-> FALSE, loss |-> FALSE]
    /\ live = 1 /\ mounts = 1 /\ retiring = 0 /\ openRequest = TRUE
    /\ recorded = 0 /\ terminal = FALSE
    /\ disturbed = 0

(* onStatus: a slot of the live writer that stops is not opened again.      *)
SlotBecomes(m, s) ==
    /\ slot' = [slot EXCEPT ![m] = s]
    /\ openRequest' = (openRequest /\ ~(m = live /\ s.state \in {"stopped", "gone"}))

Surroundings == <<live, mounts, retiring, gen>>

(* recordEvents: an event that finds no slot is not taken. *)
RecordEvents(kind) ==
    /\ ~terminal /\ recorded < MaxEvents
    /\ live # 0 /\ Alive(slot[live])
    /\ recorded' = recorded + 1
    /\ LET s == slot[live]
           e == recorded + 1
           accepted == [s EXCEPT !.win = AcceptEvent(s.win, kind, e)]
           skipped == [s EXCEPT !.loss = TRUE, !.skipped = @ \cup {e}]
       IN IF ~HasWindow(s)
          THEN SlotBecomes(live, [s EXCEPT !.buffered = Append(@, [kind |-> kind, e |-> e])])
          ELSE \E urgent \in BOOLEAN :
                  \E r \in ScheduleFlush(IF kind = "oversized" THEN skipped ELSE accepted,
                                         urgent) :
                      SlotBecomes(live, r)
    /\ UNCHANGED <<store, Surroundings, terminal, disturbed>>

(* reportLoss: the supervisor reports that output is missing. *)
ReportLoss ==
    /\ ~terminal /\ live # 0
    /\ Alive(slot[live]) /\ ~slot[live].loss
    /\ Disturb("report")
    /\ \E r \in ScheduleFlush([slot[live] EXCEPT !.loss = TRUE], FALSE) : SlotBecomes(live, r)
    /\ UNCHANGED <<store, Surroundings, recorded, terminal>>

(* sealTurn, when the turn has ended; no event follows.  Between two mounts *)
(* the call goes nowhere.                                                   *)
SealTurn ==
    /\ ~terminal
    /\ terminal' = TRUE
    /\ IF live = 0 \/ ~Alive(slot[live]) THEN UNCHANGED <<slot, openRequest>>
       ELSE \E r \in ScheduleFlush([slot[live] EXCEPT !.sealRequested = TRUE], TRUE) :
                SlotBecomes(live, r)
    /\ UNCHANGED <<store, Surroundings, recorded, disturbed>>

FlushTimer(m) ==
    /\ slot[m].timer = "flush"
    /\ \E r \in CheckedFlush([slot[m] EXCEPT !.timer = "none"]) : SlotBecomes(m, r)
    /\ UNCHANGED <<store, Surroundings, recorded, terminal, disturbed>>

(* The timer of retryLater opens again or flushes again. *)
Retried(s) ==
    IF HasWindow(s) THEN RunFlush([s EXCEPT !.state = "writing"])
    ELSE {[s EXCEPT !.state = "opening", !.call = OpenCall("open")]}

RetryTimer(m) ==
    /\ slot[m].timer = "retry"
    /\ LET c == Checked([slot[m] EXCEPT !.timer = "none"])
       IN \E r \in IF Alive(c) THEN Retried(c) ELSE {c} : SlotBecomes(m, r)
    /\ UNCHANGED <<store, Surroundings, recorded, terminal, disturbed>>

(* flushAll, on quit or while a writer retires: one round of drainSlot.     *)
DrainSlot(m) ==
    /\ m \in {live, retiring}
    /\ Alive(slot[m]) /\ HasWindow(slot[m])
    /\ slot[m].call = NoCall /\ slot[m].win.dirty # <<>>
    /\ \E r \in CheckedFlush([slot[m] EXCEPT !.timer = "none"]) : SlotBecomes(m, r)
    /\ UNCHANGED <<store, Surroundings, recorded, terminal, disturbed>>

----------------------------------------------------------------------------
(* The store. *)

Sent(call) == call.reply = "sent"

(* open_lease: every lease has a new epoch.                                 *)
ExecuteOpen(m) ==
    LET call == slot[m].call
        granted == [call EXCEPT !.reply = "ok", !.epoch = store.epoch + 1, !.next = store.next]
    IN /\ Sent(call) /\ call.kind \in {"open", "reopen"}
       /\ store' = [store EXCEPT !.epoch = @ + 1]
       /\ \/ slot' = [slot EXCEPT ![m].call = granted] /\ UNCHANGED disturbed
          \/ slot' = [slot EXCEPT ![m].call.reply = "unavailable"] /\ Disturb("lose")

(* append: only from the holder of the last lease, never to a sealed log,   *)
(* and only where the log ends.                                             *)
Refusal_any_epoch(call) ==                                             \* mutant
    CASE store.sealed -> "sealed"
      [] call.expected # store.next -> "sequenceGap"
      [] OTHER -> "ok"
Refusal(call) ==
    CASE call.epoch # store.epoch -> "supersededWriter"
      [] store.sealed -> "sealed"
      [] call.expected # store.next -> "sequenceGap"
      [] OTHER -> "ok"

Appended(call) ==
    [store EXCEPT
        !.rows = [s \in DOMAIN store.rows \cup DOMAIN call.ops |->
                     IF s \in DOMAIN call.ops THEN call.ops[s] ELSE store.rows[s]],
        !.next = @ + Cardinality({s \in DOMAIN call.ops : s >= store.next}),
        !.sealed = @ \/ call.seal,
        !.loss = @ \/ call.loss]

ExecuteAppend(m) ==
    LET call == slot[m].call
        result == Refusal(call)
        after == IF result = "ok" THEN Appended(call) ELSE store
        answered == [call EXCEPT !.reply = result, !.next = after.next]
    IN /\ Sent(call) /\ call.kind = "append"
       /\ store' = after
       /\ \/ slot' = [slot EXCEPT ![m].call = answered] /\ UNCHANGED disturbed
          \/ /\ result = "ok" /\ Disturb("lose")
             /\ slot' = [slot EXCEPT ![m].call.reply = "unavailable"]

(* The loss-only append of a slot that was given up. *)
ExecuteNote(m) ==
    LET note == slot[m].note
        result == Refusal(note)
    IN /\ Sent(note)
       /\ store' = IF result = "ok" THEN Appended(note) ELSE store
       /\ slot' = [slot EXCEPT ![m].note.reply = result]
       /\ UNCHANGED disturbed

(* A batch may be too large to send; "busy" stands for diskFull and         *)
(* unreadable, which are retried alike.                                     *)
FailCall(m) ==
    /\ Sent(slot[m].call) /\ Disturb("fail")
    /\ \E reply \in {"busy", "unavailable"} \cup
             (IF slot[m].call.kind = "append" THEN {"tooLarge", "budgetExhausted"} ELSE {}) :
          slot' = [slot EXCEPT ![m].call.reply = reply]
    /\ UNCHANGED store

FailNote(m) ==
    /\ Sent(slot[m].note) /\ Disturb("fail")
    /\ slot' = [slot EXCEPT ![m].note.reply = "unavailable"]
    /\ UNCHANGED store

Execute(m) ==
    /\ ExecuteOpen(m) \/ ExecuteAppend(m) \/ ExecuteNote(m) \/ FailCall(m) \/ FailNote(m)
    /\ UNCHANGED <<Surroundings, openRequest, recorded, terminal>>

----------------------------------------------------------------------------
(* The reply reaches the writer; a slot that is not alive takes none.       *)
Answered(call) == call.reply \notin {"none", "held", "sent"}

Replied(s, call) ==
    CASE call.kind = "open" -> OpenReplied(s, call)
      [] call.kind = "reopen" -> ReopenReplied(s, call)
      [] call.kind = "append" -> AppendReplied(s, call)

TakeReply(m) ==
    /\ Answered(slot[m].call)
    /\ LET s == [slot[m] EXCEPT !.call = NoCall]
           c == Checked(s)
       IN \E r \in IF ~Alive(s) THEN {s}
                   ELSE IF Alive(c) THEN Replied(c, slot[m].call) ELSE {c} :
              SlotBecomes(m, r)
    /\ UNCHANGED <<store, Surroundings, recorded, terminal, disturbed>>

(* retire: the slot is forgotten, whatever became of the loss.              *)
TakeNote(m) ==
    /\ Answered(slot[m].note)
    /\ SlotBecomes(m, [slot[m] EXCEPT !.state = "gone", !.note = NoCall,
                           !.unsaid = IF slot[m].note.reply = "ok" THEN {} ELSE @])
    /\ UNCHANGED <<store, Surroundings, recorded, terminal, disturbed>>

----------------------------------------------------------------------------
(* The component that owns the writer. *)

(* unmount: the writer flushes what it can (bound: one retires at a time).  *)
Unmount ==
    /\ live # 0 /\ mounts < MaxMounts /\ retiring = 0 /\ Disturb("remount")
    /\ live' = 0 /\ retiring' = live
    /\ UNCHANGED <<slot, store, mounts, openRequest, gen, recorded, terminal>>

(* mount, liveWriter and reopenLiveTurns. *)
Mount ==
    /\ live = 0
    /\ live' = mounts + 1 /\ mounts' = mounts + 1
    /\ openRequest' = (openRequest /\ gen # 0)
    /\ slot' = IF openRequest /\ gen # 0
               THEN [slot EXCEPT ![mounts + 1] = OpenedSlot(retiring # 0)] ELSE slot
    /\ UNCHANGED <<store, retiring, gen, recorded, terminal, disturbed>>

(* dispose, when the flush is done or its budget is spent: what is pending  *)
(* is dropped without a word, and the next mount's request goes out.        *)
Disposed_timer_armed(s) ==                                             \* mutant
    [s EXCEPT !.state = "gone", !.win = NoWindow, !.buffered = <<>>,
              !.loss = FALSE, !.unsaid = @ \cup Pending(s) \cup s.skipped, !.skipped = {}]
Disposed(s) ==
    [s EXCEPT !.state = "gone", !.win = NoWindow, !.buffered = <<>>, !.timer = "none",
              !.loss = FALSE, !.unsaid = @ \cup Pending(s) \cup s.skipped, !.skipped = {}]

Dispose ==
    /\ retiring # 0
    /\ retiring' = 0
    /\ slot' = [m \in Mounts |->
                   IF m = retiring THEN Disposed(slot[m])
                   ELSE IF slot[m].call.reply = "held"
                        THEN [slot[m] EXCEPT !.call.reply = "sent"] ELSE slot[m]]
    /\ UNCHANGED <<store, live, mounts, openRequest, gen, recorded, terminal, disturbed>>

(* The project is trusted anew, which gives it a new generation, or closed. *)
ChangeProject ==
    /\ gen # 0
    /\ \/ Disturb("generation") /\ gen' = gen + 1
       \/ Disturb("close") /\ gen' = 0
    /\ UNCHANGED <<slot, store, live, mounts, retiring, openRequest, recorded, terminal>>

----------------------------------------------------------------------------
Renderer(m) == FlushTimer(m) \/ RetryTimer(m) \/ TakeReply(m) \/ TakeNote(m)

Next ==
    \/ \E kind \in Kinds : RecordEvents(kind)
    \/ ReportLoss \/ SealTurn
    \/ \E m \in Mounts : Renderer(m) \/ DrainSlot(m) \/ Execute(m)
    \/ Unmount \/ Mount \/ Dispose \/ ChangeProject

(* As long as a call is unanswered, a reply not taken, a timer armed or a   *)
(* retiring writer not disposed, one of these happens.  Nothing makes       *)
(* events arrive, the turn end or the component mount again.                *)
Progress == Dispose \/ \E m \in Mounts : Renderer(m) \/ Execute(m)
Fairness == WF_vars(Progress)

Spec == Init /\ [][Next]_vars
FairSpec == Spec /\ Fairness

----------------------------------------------------------------------------
Events == 1..MaxEvents
AreRows(rows) == DOMAIN rows \subseteq Events /\ EventsOf(rows) \subseteq Events
IsRow(row) == row.seq \in 0..MaxEvents /\ row.events \subseteq Events

IsCall(call) ==
    /\ call.kind \in {"none", "open", "reopen", "append", "note"}
    /\ call.epoch <= store.epoch
    /\ AreRows(call.ops)
    /\ call.reply \in {"none", "held", "sent", "ok", "busy", "unavailable", "tooLarge",
                       "budgetExhausted", "supersededWriter", "sealed", "sequenceGap"}

IsSlot(s) ==
    /\ s.state \in {"none", "opening", "writing", "retrying", "stopped", "gone"}
    /\ s.gen \in Nat
    /\ AreRows(s.win.dirty) /\ IsRow(s.win.tail) /\ IsRow(s.win.snapshot)
    /\ s.timer \in {"none", "flush", "retry"}
    /\ s.state = "retrying" <=> (s.timer = "retry" \/ (s.state = "retrying" /\ s.call # NoCall))
    /\ s.maxBatch \in 1..MaxBatch
    /\ IsCall(s.call) /\ IsCall(s.note)

(* Every variable has its type; a slot that waits to retry has a timer or a *)
(* call of an earlier flush under way, and halving never empties a batch.   *)
TypeOK ==
    /\ \A m \in Mounts : IsSlot(slot[m])
    /\ AreRows(store.rows)
    /\ {store.sealed, store.loss, openRequest, terminal} \subseteq BOOLEAN
    /\ {live, retiring} \subseteq 0..mounts /\ mounts \in Mounts
    /\ gen \in Nat /\ disturbed \in 0..MaxDisturbances /\ recorded \in 0..MaxEvents

Stored == EventsOf(store.rows)

(* The log loses no event behind the reader's back: whatever was recorded   *)
(* is stored, still pending, covered by a recorded loss, or was dropped at  *)
(* one of the four places that agentTurnLogWriter.ts leaves silent:         *)
(*  - the stop of a slot that never had a lease (recordIncomplete returns   *)
(*    at writerEpoch 0, as when the project closes before open is answered),*)
(*  - a stop whose loss-only append was refused (stale expectedNextSeq,     *)
(*    superseded writer, sealed log) or failed,                             *)
(*  - the disposal of a writer past its flush budget,                       *)
(*  - a batch that changed after the reply to its first try was lost.       *)
(* A writer that stops because the log is sealed is not excused.            *)
EveryEventAccountedFor ==
    \/ store.loss
    \/ \E m \in Mounts : Alive(slot[m]) /\ slot[m].loss
    \/ 1..recorded \subseteq
          Stored \cup UNION {Pending(slot[m]) \cup slot[m].unsaid : m \in Mounts}

(* Retries, lost replies and a second writer store no event twice, leave no *)
(* hole in the sequence, and keep the rows in the order their first events  *)
(* arrived.                                                                 *)
StoredOnceInOrder ==
    /\ DOMAIN store.rows = 1..(store.next - 1)
    /\ \A i, j \in DOMAIN store.rows :
          (i < j /\ store.rows[i] # {} /\ store.rows[j] # {}) =>
              /\ store.rows[i] \cap store.rows[j] = {}
              /\ Min(store.rows[i]) < Min(store.rows[j])

(* The writer that holds the last lease knows where the log ends whenever   *)
(* it is about to append, and never claims that more is stored.             *)
LeaseHolderKnowsTheEnd ==
    \A m \in Mounts :
        (Alive(slot[m]) /\ slot[m].epoch = store.epoch) =>
            /\ slot[m].expected <= store.next
            /\ (slot[m].state = "writing" /\ slot[m].call = NoCall)
                   => slot[m].expected = store.next

(* However calls and writers overlap, the store stays a log and its holder  *)
(* agrees with it.                                                          *)
WritersAgreeWithTheStore == StoredOnceInOrder /\ LeaseHolderKnowsTheEnd

(* What a reader was given of a row stays in it: no later batch, retry,     *)
(* clipped row or second writer replaces it by less, unless the log says    *)
(* from then on that something is missing.                                  *)
RowsOnlyGrow ==
    [][store'.loss \/ \A seq \in DOMAIN store.rows :
                         /\ seq \in DOMAIN store'.rows
                         /\ store.rows[seq] \subseteq store'.rows[seq]]_vars

(* A slot that is asked to seal its log comes to an end, by sealing it or   *)
(* by giving it up: no reply, timer, flush or generation leaves it waiting. *)
SealEndsTheSlot ==
    \A m \in Mounts : slot[m].sealRequested ~> slot[m].state = "gone"

(* "never loses an event" (agentTurnLogWriter.test.ts:328), with one writer *)
(* and a reply that was lost: a sealed log without a loss has every event.  *)
SealedLogIsComplete ==
    (store.sealed /\ ~store.loss) => 1..recorded \subseteq Stored
=============================================================================
