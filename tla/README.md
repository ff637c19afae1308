# Codevo: a TLA+ model of how agent tasks are run, stopped, trusted, heard and logged

Codevo is a desktop application (a Tauri shell in Rust, a React renderer in
TypeScript) that runs Claude Code and Codex against a user's projects. Paths
below are relative to `src/` of the repository: `src-tauri/src/` is the native
half, `src/` the renderer.

This directory models the part that runs an agent: starting and stopping its
process, deciding whether it may run, bringing what it writes to the
renderer in order, once, and with an honest ending, and keeping a durable log of it. `PROJECT.json` maps every
definition to the lines it stands for.

## 1. Inventory

| Component | State it keeps | Operations | Hard part |
|---|---|---|---|
| **Event delivery**: `agent_task_output_delivery.rs`, `agent_task_completion.rs`, part of `agent_task_supervisor.rs` | per task a waiting ring of events, the window of unacknowledged output, the phase; the list of finished tasks | publish, acknowledge start, acknowledge output, drain, complete, expire | two mutexes, four kinds of thread, limits that drop things |
| **Renderer output**: `application/agentThreads/agentTurnOutputPipeline.ts`, `agentTurnOutputStream.ts`, `agentOutputAcknowledgement.ts` | the current subscription's epoch, a stream per turn, an acknowledgement owner per stream | subscribe, accept a chunk, flush, acknowledge, settle | listeners attached late, gaps, calls that fail, owners that are stale after an `await` |
| **Supervisor**: `agent_task_supervisor.rs`, `agent_task_process_group.rs`, `agent_task_stop_escalation.rs`, `agent_task_trust_revocation.rs`, `agent_task_pending_stops.rs`, `agent_task_admission.rs` | the registry of tasks, a process group each, pending stops, admissions | start, wait, stop, watch, sweep, revoke, shut down | signals against reaping, stops against starts, failures of threads and system calls |
| **Workspace trust**: `trust.rs`, `trust/`, `agent_trust_revocation.rs`, and its use in `lib_composition/agent_task_start_authority.rs` | trusted, revoked and cloned roots, generations, launch leases, a file | grant, revoke, mark, prune, reserve, save | snapshots used later, saves that fail, a prune thread without the lock |
| Agent start command: `lib_composition/agent_task_commands.rs` | none of its own; holds leases of five registries | prepare, revalidate, reserve, start | early returns that must release everything |
| **Root leases, workspace registry**: `agent_root_lease.rs`, `lib_composition/agent_root_workspace_registration.rs`, `lib_composition/workspace_facade/`, `workspace_registry/` | per root a lease; the admissions that hold its workspace open, whose newest has the authority to change trust; the trust operations under way | acquire, release, open, close, adopt, dispose, operate, start | waits for commits with no lock held, rollbacks against owners, starts against closes, releases that fail half way |
| **Turn log**: `application/agentTurnLogWriter.ts`, `domain/agentTurnWindow.ts`, `application/useAgentTurnLogging.ts`, `agent_turn_log/append.rs`, `open.rs` | per turn a slot: a window of rows not stored yet, a lease, a timer; a SQLite row with a writer epoch | open, record, flush, retry, shrink, reconcile, reopen, seal, dispose | lost replies, a remount whose old writer is still flushing, a new project generation in mid-flight |
| **Turn start**: `application/agentTurnStartRunner.ts`, `application/agentThreads/agentThreadStartFlow.ts`, `agentFollowUpFlow.ts`, `application/useAgentTurnDispatch.ts` | the registered turn, the stop intent, retained worktrees | start, register, acknowledge, release, abandon | ownership lost during any `await`, replies that leave open whether a task runs |
| **Stop controller**: `application/useAgentStopController.ts`, `domain/agentStopPolicy.ts`, `components/agentMode/useAgentComposerStop.ts` | an armed confirmation, a banner, remembered interrupts, the awaited one | press, confirm, dismiss, settle | one controller for all threads, effects that lag behind renders, answers that come late |
| Runtime requests: `agent_runtime_requests/` | a journal of live turns and a projected feed | track, observe, rotate, page | cursors across rotation |
| Input, steering, interrupt: `agent_task_input.rs`, `agent_task_steering.rs`, `agent_task_interrupt.rs` | an input slot per task | steer, close, interrupt | close against write |
| Shared sessions: `agent_task_spawner/` | provider sessions that outlive a task | acquire, route, end | generations of a session |
| Turn checkpoints, thread and history stores, remote replay store, remote runner, terminal sessions, clones | see `PROJECT.json` | | |

How they interact: the **stop controller** interrupts a turn through the supervisor
or calls the dispatcher's hard stop, which leaves an intent for a **turn start** that is
still under way. The turn start calls the **start command**, which
captures the project's **trust**, reserves launch leases, a runtime start in the
**workspace registry** and an admission, and
calls `AgentTaskRegistry::start` (**supervisor**). The task's pump threads write
to **event delivery**, whose sink is a Tauri event; the **renderer** consumes,
acknowledges by a command, and settles the turn when the terminal status
arrives; every event it takes also goes to the **turn log**. The supervisor's waiter is what completes a task in event delivery. A
revocation of trust and the shutdown sweep the supervisor's registry.

What makes each component correct is stated as its properties (section 4); what
can go wrong, line by line, is the `hazards` list of `PROJECT.json`.

## 2. Modules

| Module | What it is |
|---|---|
| `TaskEventChannel` | abstract specification of delivery: per task a log of events handed to a sink, with no queues, windows, locks or threads |
| `AgentTaskDelivery` | the native half of delivery, which implements it |
| `AgentTaskDeliveryProofs` | TLAPS proofs about `AgentTaskDelivery`, among them that it implements `TaskEventChannel` |
| `AgentTurnOutput` | extends `AgentTaskDelivery` with the renderer, composing both ends |
| `AgentTurnOutputProofs` | TLAPS proofs about that composition, over those of delivery |
| `AgentTaskSupervisor` | the life of a task and its process group |
| `AgentTaskSupervisorProofs` | TLAPS proofs about `AgentTaskSupervisor` |
| `WorkspaceTrust` | trust, launches and clones |
| `AgentTurnLog` | the renderer's log writers (one per mount) over the store |
| `AgentTurnStart` | the renderer's start runner over the commands it awaits |
| `AgentStopController` | the Stop button, its confirmations and interrupts |
| `AgentRootLease` | who keeps a project root open: the agents' lease and the editor's tabs over the workspace registry |
| `AgentTurnLogProofs`, `WorkspaceTrustProofs`, `AgentTurnStartProofs`, `AgentStopControllerProofs`, `AgentRootLeaseProofs` | TLAPS proofs about the modules they are named after |
| `MC*` | the instances TLC checks: symmetry sets and constants a `.cfg` cannot write |

An operator named `X_something` with the comment `\* mutant` is `X` with a
plausible mistake. No specification uses it; it shows, in the runs listed under
`mutants`, that a property is not true of any code whatever.

### AgentTaskDelivery

One action is one hold of the registry's `state` mutex. The second mutex,
`output_emission_order`, is the variable `order`: who holds it, for which task,
and the batch that was taken under `state` and is handed to the sink one event at
a time afterwards. Between two of those hand-overs every other thread may run,
which is where the interesting behaviours come from.

`publish` is a pump's chunk (or the empty "incomplete" marker), `acknowledge` the
renderer's acknowledgement of the start, `acknowledge_output` of output,
`finish_batch` and `drain_acknowledgement` the drain, `complete`,
`complete_drain`, `emit_direct`, `emit_expired` the completion by the waiter,
`poll_*` and `interrupt_delivery` its wait for the delivery. An event is its kind and
sequence number; sequence numbers of status events are kept, text is not.

What the code does and the properties respect: the explicit "delivery expired"
status (`lost`) of an evicted task is emitted outside `output_emission_order`, so
output already taken by another thread may follow it (never the task's own
terminal status); an evicted task that was never acknowledged gets no status; a
delivered task whose drain was interrupted may stay in `terminal_order` until it
is evicted, which that list's limit bounds.

`TaskEventChannel` states what a sink may see of a task: outputs with increasing
numbers, at most `Limit` of them unconsumed when acknowledgements are in use, running
before any terminal status, and one end, after which nothing comes; an own terminal status comes
only when everything handed over before was consumed. `Channel` instantiates it with `produced`,
`consumed` and `log` mapped to the last number issued, the last acknowledgement and the emitted
events. `MCAgentTaskDelivery` starts with either kind of sink (`SinkSpec`: with
and without acknowledgements), so one run checks both.

### AgentTurnOutput

The webview dispatches emitted events in order (`cursor`). `listener` follows the
two Tauri listeners of each run of the subscribing effect from the request to
attachment, resolution and disposal. A chunk is its stream and where its lines
break, the parser is the unfinished line it holds for each stream; that is what
"a torn record" means here. `ack` is the acknowledgement owner with its retries,
`wire` the calls under way; a call that fails may have been applied.

### AgentTaskSupervisor

`owner[t]` is the program counter of the one thread that owns the child: the
starting thread until the start commits, the waiter afterwards. `stopper[t]` holds
those of the user's stop, the watchdog, and one sweep. One action is one hold of
`state`, or one hold of the process group's mutex; a send through the group's mutex
is two actions (`SignalKill` reads the state, `SendKill` sends) with `groupLock` held
in between, so that only the lock, and not the model's grain, keeps a reap out.
`Cleanup`, `BeginReaping`, `ReapChild` and `SettleGroup` are the four steps of
`AgentProcessGroup::reap`.

With `SharedSessions` a spawn may also put the task on a shared session, which has no
group to signal: a stop then only asks for a force that the waiter carries out.

Failures are constants: `SignalsFail` (a signal is refused), `ReapFails` (the exit
cannot be observed or the child not reaped; once broken it stays so),
`WorkersFail` (spawn or thread creation fails, or the waiter panics).

Abstractions: a reservation or pending stop refused at its limit is a request
without effect. What the agent does with TERM is free (`Exit` may or may not
happen); a process group is its leader and "somebody else". `stop_signalled` and
the clean-exit grace only shorten a wait and are left out. A sweep of a task
starts when its previous one is over.

### WorkspaceTrust

The service is behind one mutex, so each operation is an action; each has the
outcome where the save fails and the operation undoes itself. A start command is
`Capture`, `ReserveTrust`, `StartTask`, `DropLeases`. A revocation command is
`RevokeTrust` and, later, `Sweep`. A clone is `CloneProject` (the folder exists) and
`MarkClone`. `PruneBatch`, `PruneLook`, `Forget` are the prune thread. `Restart` loads
the file. `disk` is the set of images the file parses to: empty when a save tore it.

The history variables `fresh`, `withdrawn` and `outdated` record what the properties
speak of. A folder that is deleted and made again is the same root; the code
compares directory identities and refuses some launches the model allows.

### AgentTurnLog

A slot is the `WriterSlot` of one mount. A call of the gateway is three steps: sent
(by a handler of the renderer, which runs without interruption), executed by the store,
taken by the continuation; `alive` is asked again where the code asks it, and `Checked` is
that question with its effects (a closed project stops the slot, a new generation
makes it renew its lease). `Unmount`, `Mount` and `Dispose` are the owner's: the new
mount's open request is held back until the old writer is disposed.

An event is its number of arrival and a row is the set of events merged into it, so
that coalescing, superseding, clipping and a batch that changed after it was sent are
visible, and text is not. A loss is recorded or not: the seven degrees of
`AgentTurnLogLoss` are one. "busy" stands for the three codes that are retried alike.
All disturbances (failed calls, lost replies, reported losses, remounts, generations, closing)
share the bound `MaxDisturbances`.

`unsaid` collects the events dropped at the four places the code leaves silent, which
`EveryEventAccountedFor` excuses, and no others: the stop of a slot that never had a lease
(`recordIncomplete` returns at `writerEpoch === 0`, `agentTurnLogWriter.ts:182`: the project
closes while the first open is unanswered, or its retries are exhausted); a stop whose
loss-only append is refused (its `expectedNextSeq` is stale after a lost reply, the writer
was superseded, the log is sealed) or whose call fails; `dispose` after the flush budget;
and a batch that changed between a lost reply and its retry, which is the first finding
below. A stop because the log is sealed sends no loss either, and is not excused: what the
writer still holds then must be stored or covered by a stored loss. Left out: digests, prompts, back-pressure, status publication,
the subagent lifecycle, `closeTurn`.

### AgentTurnStart

`runner` and `call` are the continuation of `runAgentTurnStart` and the one call it awaits;
each action of `Runner` is the code between two awaits. The Stop button's own call
(`userStops`) travels beside it. The backend is what the commands do to one task:
`stop_owned` with its recorded stops for unknown tasks, `start` in the steps the
supervisor has, the acknowledgement, and the status events, which flow only after
it. Each turn of a thread has a place: the repository, a worktree made for it,
or one used before.

Abstractions: checks before the start call are left out, they return without having
done anything; a reply that names another task is kept although the Tauri gateway cannot
produce it. History: `hosted` turns were put in a worktree by `StartThread`, `asked` were
stopped by the user. `RetainedWhileRunning` is about `hosted` turns of a thread that has not
vanished: the worktree in which a follow-up runs is protected in the code by the registration of its
thread alone, which is not modelled.
`told`, `warned`, `unstopped`, `detached` say which failure the user was shown, or, for
`unstopped`, that `abandon` discarded the failure of its own stop call.
What holds only with an excuse: an unregistered start in the repository that loses its
authority leaves no trace if its stop is lost (`unstopped`); a turn whose acknowledgement was refused
stays pending, with a notice (`detached`). That the Stop button's own call failed (`warned`)
excuses neither `NoForgottenAgent` nor `WorktreesAreSafe`. A finished turn archived while its acknowledgement is awaited has
its worktree retained for nothing.

### AgentStopController

The controller lives in the mode view, not in the thread, so one `arm`, one `banner`
and one awaited `attempt` serve all threads, and `readRunningTurn` knows only the
selected one. `RunEffects` is the clean-up of the composer's two effects; a press may
come between a change and it, but React runs the effects of a view before it renders the
next one, so after such a press (`early`) the view does not change until they have run
(`MayRender`). Without this guard `NothingDiesUnconfirmed` fails, with three presses and three
switches, in a schedule React does not produce. An interrupt's answer is one of accepted, refused,
or refused after the backend stopped the agent itself (its input could not be written). `foreground`
and `tasks` stand for what `projectAgentBackgroundState` reads from the turn's events.
`marks` records, per running turn, what was asked of it and what it felt.
A clock that runs backwards is not modelled, and the memory of interrupts holds one
thread instead of 64, so that eviction happens. How a hard stop reaches the agent is `AgentTurnStart`'s
subject. An interrupt that was accepted after the user left is forgotten, so that a later press
interrupts once more instead of stopping; this is within what the properties allow.

### AgentRootLease

One root and the one path selected for it. An action is what a command does under one hold of
the registry's locks, or of the leases' mutex; `job` says where each command is. A workspace id is named
by the registration token that created it, and a lease by the token of its registration: the
code issues each once. `admissions`, `latest` and `closing` are the `ManagedWorkspace`, `current` and
`live` the `RegistrationOperationState`. `BeginTransition` is the common part of every change of
owners: the authority and the operations under it are withdrawn, and `awaited` holds the
commits the command must wait for, with no lock held, before its second half (`Publish`, `Republish`,
`FinishRollback`, `FinalizeUnregister`) looks at the registry again. `ReadHolds`, `FinishRelease`
and `AbortRelease` are the settling of a lease's release, which happens whatever became of the close.
The history is `opened` (tokens an editor was given), `given` (those it asked to
give up), `told` (workspace ids a window has seen).

Left out: registered path aliases and their owners, the directory identity of a root,
shutdown, poisoned locks. An operation or start refused at its limit is a request without
effect; the limit of leases, which other roots fill, is `TakeRefused`, possible at any time.

What the code does and the properties respect: `BeginTransition` awaits the commits it revokes, not
those an earlier change revoked and still awaits, so of two overlapping changes the second may
return while the first one waits for an old commit (`CommitsAreAwaited` says that one
of them does). An editor token that a newer one of the same path superseded is refused by
`unregister` and has to be adopted or rolled back.

## 3. Findings

**A signal after the reap** (`supervisor_anchor`). The comment on
`AgentProcessGroup::reap` (`agent_task_process_group.rs:144`) calls the unreaped leader
"the identity anchor that makes this group signal safe" and asks to clean the group
"before surrendering that anchor on every exit path". If the cleanup signal is
refused while the child is reaped, the group becomes `CleanupUncertain` and `reap`
fails; `run_waiter_inner` answers with `child.force_kill()`, and
`StdAgentChild::force_kill` (`agent_task_spawner.rs:888`) sends
`kill(-pgid, SIGKILL)` without asking for the group's state. By then the number may
belong to a group that is not the task's. `SignalsAnchored`, the same property
for every signal sent through `AgentProcessGroup`, holds.

**Text lost after a lost reply** (`turn_log_lost_reply`). An append commits and its reply is
lost. Text that arrives before the retry coalesces into the last row, which is dirty again
under the same number. The retry's `expectedNextSeq` is behind, the store answers
`sequenceGap`, and `reconcileSequenceGap` (`agentTurnLogWriter.ts:323`) takes its next number
as proof that *this* batch was committed: the window drops the row, the text is stored
nowhere, no loss is recorded, and the log is sealed as complete. The tests promise that the
writer "never loses an event" (`agentTurnLogWriter.test.ts:328`) and "treats a lost reply
as committed and keeps writing" (`:567`); they let no event arrive in between.

Two more departures are not among the runs; adding the named invariant to the `.cfg` of the
run shows each.

**A refused interrupt nobody hears of** (`RefusedInterruptHardStops` in `stop_controller`). Press Stop, show another thread, and
let the interrupt be refused or fail: `settleInterrupt` (`useAgentStopController.ts:101`) asks
`readRunningTurn`, which answers null for a thread that is not selected
(`useAgentComposerStop.ts:61`), concludes that the turn is over, and forgets the
interrupt. The agent goes on. The tests say it "hard-stops at once when the runtime cannot
interrupt" and "hard-stops when the interrupt request fails"
(`useAgentStopController.test.tsx:174`, `:192`), with one thread.
`PressIsFelt` is the same promise as long as the user stays, and holds.

**A start loses its workspace** (`StartKeepsItsWorkspace` in `root_lease`). A close asks `has_runtime_start` before it takes
a workspace down (`workspace_registry/unregister.rs:140`, `:309`);
`rollback_registration` (`workspace_registry/registration.rs:469`) does not. An acquired lease registers first
and rolls back when it is refused. If the other owners leave in between, which they may while
its admission remains, the rollback takes the workspace down under an agent start that
has reserved it. The test of `runtime_start.rs` expects that an "active start blocks
unregister" (`:213`), and a test of the lease commands is named
`agent_release_racing_a_runtime_start_keeps_the_lease_and_its_admission`; both have one owner.
`CloseWaitsForStarts`, the same for closes, holds.

## 4. Runs

All runs finish within five minutes. `CHECK_DEADLOCK FALSE` is set everywhere but in
`trust` and `root_lease`: elsewhere everything may end, when the tasks are done, the log is sealed or the
user stops pressing.

| Run | Instance | Shows |
|---|---|---|
| `delivery` | two tasks, of three chunks and of none, window 1, ring 3, one terminal entry, both kinds of sink | `TypeOK`, `SinkImplementsChannel` (the refinement of `TaskEventChannel`: order, window, one end, nothing after it), `CompletedIsClosed`: a renderer that never acknowledges, or an eviction in the middle of a flush, does not keep a task open |
| `turn_output` | one task, 3 chunks, lines that end in or after a chunk, two acknowledgement attempts, listeners in place | `RendererTypeOK`, `CompleteMeansNothingLost`, `NoTornLine`, `WindowReleased`, `CompletedTurnSettles` |
| `turn_output_subscriptions` | two runs of the subscribing effect, listeners attached late, 2 chunks | `CompleteMeansNothingLost` |
| `supervisor_failures` | one task, with its own group or on a shared session, all failures | seven invariants: signals only to an anchored group, honest exits, no shutdown that misses a start, no admission returned before its process, attribution of the outcome |
| `supervisor_live` | one task with its own group, no failures | `StopTakesEffect` (also for a stop that comes before the group is published), `TimeoutReleasesAdmission` |
| `supervisor_anchor` | one task, refused signals | finding 1 (expected violation of `NoSignalAfterReap`) |
| `trust` | two roots, two launches, a revoked list of one, two changes of trust per session, one clone per session, saves that fail or tear | `TypeOK`, `RevocationStopsAgents` ("Revoking a project's trust stops its running agents", `docs/agent-mode.md`), `OvertakenLaunchNeverStarts`, `FreshCloneStaysUntrusted`, `DiskMatchesMemory` |
| `turn_log` | two events (text, snapshot, oversized), two mounts, two disturbances, batches of two | `TypeOK`, `EveryEventAccountedFor`, `WritersAgreeWithTheStore` (`StoredOnceInOrder`, `LeaseHolderKnowsTheEnd`), `RowsOnlyGrow`, `SealEndsTheSlot` |
| `turn_log_lost_reply` | two text events, one mount, one lost reply | finding 2 (expected violation of `SealedLogIsComplete`) |
| `turn_start` | two turns, three places, two troubles | `TypeOK`, `NoForgottenAgent`, `WorktreesAreSafe` (`RetainedWhileRunning`, `RemovedWorktreeIsIdle`), `StopIsKept` (`StopTakesHold`, `StoppedTurnSettles`) |
| `stop_controller` | two threads with two turns and one, two presses, one switch, one remembered interrupt | `TypeOK`, `HardStopsMatchPresses` (`StopsOnlyWhatWasAsked`, `SecondPressStops`), `NothingDiesUnconfirmed`, `PressIsFelt` |
| `root_lease` | three commands, four tokens, two admissions | `TypeOK`, `UsersKeepTheirWorkspace`, `NothingIsLeftBehind`, `AuthorityFollowsOwners`, and no deadlock: no commands ever wait for each other |

`MCWorkspaceTrust` also has an assumption TLC evaluates: over all revoked lists of at most two
of three names, undoing an insertion, the evicted root included, and restoring a removed
one give the list back in its order (`ListsAreRestored`).

Why the bounds are enough. In delivery the cases are: window full, ring full, ring
full with a status in the middle, two terminal entries competing for one place;
each occurs with one more chunk or task than the limit. In the renderer a gap needs a
chunk before, in and after it. In the supervisor tasks
share only the registry's flags and the sweeps, which act on each task separately, so
one task against a stop, a watchdog and a sweep has every race there is; two tasks
only multiply them. In trust two roots distinguish project and worktree and two launches
compete for `RootLaunches` = 1.
Generations and epochs restart with the session, so their bounds limit one
session and not the number of sessions. In the turn log two events make a row that is merged, superseded
or clipped and a batch of more than one, and two disturbances make every pair of
faults; a third would repeat a pair while a slot has at most one call under way. In the
turn start the second turn is the follow-up, registered before its start and not after; two
troubles let the runner's stop and the user's both be lost. In the stop controller a
second turn on one thread is what late answers and old confirmations meet, and a second press
is what an interrupt or a confirmation waits for. In the root lease three commands are one that closes,
one that registers and one that commits or starts in their midst; four tokens make two owners
twice, so that tokens of a workspace that is gone meet its successor.

Fairness. In delivery and renderer: threads that hold a lock release it, a thread
that asks for a lock gets it, timers fire, promises settle; nothing makes the agent
write or end, or the renderer acknowledge, beyond what its own code does.
In the supervisor: strong fairness of the owner and of each stopper, because they
contend for a mutex that is released over and over; weak fairness of the exit of a process
that was sent SIGKILL. Nobody has to ask for a stop. In `WorkspaceTrust` and `AgentRootLease` only safety is
stated; there, `HalfwayHasACommand` and the absence of deadlocks stand for the promise that a release
and a closing come to an end.
In the three renderer modules weak fairness of their progress only: calls are answered (with
success or failure), continuations run, armed timers fire, effects run after a render, and an
agent that was told to stop ends, which is what `supervisor_live` shows of the supervisor.
Users, networks, projects and agents promise nothing.

`WindowReleased` is checked with one subscription. With a second one it fails:
`subscribe` forgets the acknowledgement owners, and if a full window went to the old
listener unacknowledged, no event is left to trigger an acknowledgement until the
task ends. In production the effect's dependencies are stable for the session
(`useAgentTurnDispatch.ts:145`).

## 5. Proofs

`AgentTaskDeliveryProofs` proves, for every set of tasks, window, ring size, limit of terminal
entries and number of chunks (the named assumptions of `AgentTaskDelivery` only ask
that the ring holds three events and the other limits one), with and without
acknowledgements:

- `TypeCorrect`: `Spec => []TypeOK`. Its part about acknowledgements is not a typing
  fact: what is outstanding is newer than the last acknowledgement and was produced.
- `OutputsOrdered`: `Spec => []OutputsInOrder`, the order of the channel stated by itself (the run checks it as part of
  `SinkImplementsChannel`).

`OutputsInOrder` speaks of emitted events only and is not inductive. An event travels
through three places, the ring, the batch in a thread's hands, and the log of the sink, so
`OrderInvariant` says of each that its outputs are sorted, and of each pair that
what is further along is older (`StagesInOrder`). The batch is only safe because its
holder has the lock (`BatchHeld`). And since acknowledgements may be late or invented,
`WindowCovers` ties what left the queue to the window. The proof has a lemma per effect on the sequences
(`PushOuts`, `SplitOuts`, `TailOuts`, `AppendOuts`) and then one step per action. That a ring which drops its oldest
*output* rather than its oldest event stays sorted is `RemoveAtOuts`.

The same module then proves `DeliveryImplementsChannel`, `Spec => Channel!ChannelSpec`,
under the same assumptions and for either value of `AckRequired`; the run `delivery` checks
the same statement, `SinkImplementsChannel`, for two tasks and both kinds of sink in one state
space. The channel lets an event go to the sink only at the right moment, so the invariant
(`DeliveryInvariant`) has to say where every event is on its way and what that place rules out:

- `HolderOK`: who may hold the batch: an acknowledged start holds it for a task that is flushing,
  the later holders exist only with acknowledgements.
- `EvictionOK`: `terminal_order` names registered, completed tasks, each once, and an evicted
  one expires with one waiter.
- `LedgerAt`: a status of a task is in one of the log, the batch and the ring (or is about to be emitted
  directly by the waiter, with nothing else left); the terminal one is taken out only when the ring
  and the window are empty, and after it nothing is left; `lost` is for a removed entry whose
  terminal status is still queued, and comes once.
- `WindowAt`: what is outstanding was handed over or is in the batch, finite and at most `Window`, and
  nothing without acknowledgements; the batch is newer than the last acknowledgement.
- `Counted`: status events are numbered by the phase.
- `Prompt`: a sink without acknowledgements is handed whatever is queued at once, unless the
  acknowledgement of the start is being flushed.

`DeliveryInvariance` proves it inductive, one lemma per action and part. The simulation then takes
the actions one at a time: those that hand an event to the sink map to the channel's step for
that kind of event, those that produce or consume to its bookkeeping, the others to a stutter.

`AgentTurnOutputProofs` is about both ends together: any set of tasks and streams, any ring of at
least three events, any window, number of resubscriptions and retries, and both kinds of sink. It gives
`RendererTypeCorrect`, `NothingLostUnreported` (`CompleteMeansNothingLost`) and `LinesStayWhole`
(`NoTornLine`). Neither property is about the renderer alone. That a turn may be called complete
rests on a fact of the native end, `NewestChunkSurvives`: the ring drops chunks, but the newest one
is always still on its way or was handed over, so a loss shows as a gap in the numbers of what does
arrive, and nothing follows the terminal status (`EndsLast`). This is what `MaxQueued >= 3` is for: `complete`
may push a missing Running status and the terminal one behind the newest chunk (`CompletionKeeps`), and
a smaller ring would drop it, with nothing after it to show the gap. The invariant has the parts

| Part | Says | Needed for |
|---|---|---|
| `NativeInvariant` | `DeliveryInvariant`, `NewestAt`, `EndsLast`, nothing of a task is handed over before its start is acknowledged | every chunk that was lost shows |
| `SubscriptionOK` | the subscription is ready exactly while the output listener of the present run is | a stream of the present epoch receives |
| `Marked` | a chunk says truly whether it starts a line, across all chunks of its stream before it | the parser may trust `starts` |
| `StreamOK`, `ParserOK` | a stream that is not resynchronising holds the unfinished line itself (`Unfinished`), a stream still called complete was fed every number up to the last, and a stream of the present epoch has accepted whatever was dispatched | `LinesStayWhole` |
| `TurnOK` | metrics that say "complete" were taken when nothing was missing, and nothing was accepted since | `NothingLostUnreported` |
| `AckOK` | acknowledged, consumed, accepted follow each other, and no call of an earlier epoch passes for one of the present owner | `RendererTypeCorrect` |

A native step reaches the renderer's part only through the log of emitted events, which it extends
(`EmittedGrows`, `RendererIdle`); a chunk is fed by `AcceptOK`, and a terminal status finds the newest
chunk accepted by `TerminalIsLast`.

`AgentTaskSupervisorProofs` proves every property of the run `supervisor_failures` for all
sets of tasks and roots, with and without shared sessions, and with any of the failures
(`SharedSessions`, `SignalsFail`, `ReapFails` and `WorkersFail` may be anything
the assumptions of `AgentTaskSupervisor` allow). The properties share one inductive invariant,
`SupervisorInvariant`, in layers; a layer's step lemma assumes only the layers it needs:

| Layer | Says | Gives |
|---|---|---|
| `TypeOK` | types, and that the stopper about to send is the holder of the group's mutex | `SupervisorTypes` |
| `StartsOnce` | a stop that is accepted, or a watchdog that is spawned, finds its stopper idle, and so never a holder of the mutex; `TypeOK` is not inductive without it | |
| `Anchored` | the owner takes the group out of "active" before it reaps and cannot while a stopper holds the mutex: an active group's leader is unreaped | |
| `SignalsAnchored` | itself | `SignalsStayAnchored` |
| `Vouched` | a vouched cleanup (the flag, or the result the owner carries) means an empty group that nobody can fork into; a failed reap never releases | `ReleaseIsSound` |
| `Reported` | the owner reaches completion with "exited" only over a reap | `ReportsAreReal` |
| `Admission` | the owner gives the admission back after it has seen the exit or killed the child | `AdmissionIsHeld` |
| `Present`, `Swept` | an entry is claimed before it leaves the live ones, a process nobody killed has a live entry, and the shutdown sweeps after the starts are closed | `ShutdownIsComplete` |
| `Blamed` | the flags of a live entry tell what came first | `RevocationIsAttributed` |

Each step lemma has one step per action that touches the layer's variables, one for all
actions that leave them alone, and a QED over `Next`. `Vouched` is the subtle one: the flag
`cleanup_verified` is also raised on groups that are not active, where nothing was
killed, and is harmless there only because such a group has no members or is never
released.

`WorkspaceTrustProofs` is about any set of roots and launches, any limits
and any bound of generations and clones. `InsertionIsUndone` and `RemovalIsUndone` prove for every list what
`ListsAreRestored` evaluates for short ones: the undo of a failed save gives the list back in its
order. `TrustInvariant` then has the layers

| Layer | Says | Gives |
|---|---|---|
| `ServiceOK` | types; no duplicates in the list, no root both trusted and revoked | `TrustTypes` |
| `DiskMatchesMemory` | itself; what a save writes and a refused save leaves | `MemoryIsOnDisk` |
| `GenerationsOK`, `EpochsOK` | a root's generation is at most the service's; a prune batch is of a clone there was | |
| `AgentsOK`, `ReservedAreTrusted` | a reserved launch has leases of its root and its directory, and its root is trusted: no revocation gets in between reservation and registration | |
| `RevocationStopsAgents` | itself: an agent of a revoked root is still to be swept or is stopped | `RevokedAgentsAreStopped` |
| `SnapshotsAge` | a snapshot taken before a revocation never again has the current generation | `OvertakenLaunchesEnd` |
| `FreshAreMarked` | a fresh clone is marked, not trusted, and not among the missing of a prune batch that may still be carried out | `ClonesStayUntrusted` |

`AgentTurnStartProofs` is about any number of turns and troubles and any set of places.
`StartInvariant` says what the runner may rely on at each of its awaits (`CallKnows`: a definite
rejection left no task, a confirmed stop reached one with the right name, nobody else settles a turn
whose start is awaited), that a turn still to come has left nothing (`AheadIsEmpty`,
`UnshownHasNoThread`), and that every way out leaves the agent stopped, shown or announced and its
worktree kept (`NoForgottenAgent`, `RetainedWhileRunning`, `RemovedIsOver`). It gives
`StartTypes`, `AgentsAreAnnounced` and `WorktreesStaySafe`.

`AgentStopControllerProofs` is about any threads, turns, presses, switches and limit of the memory. Its
first part is the memory itself (`OthersStay`, `Remembering`, `Forgetting`): one entry for a thread,
within the limit, the newest always there. `StopInvariant` then says that an awaited interrupt was
pressed for and is shown or left behind (`CallsWereAsked`, `CallsAreShown`), that a remembered one
was pressed for and an urgent press is stopped, remembered or left behind (`MemoryWasAsked`,
`UrgentIsKept`), and that an arm a second press can meet still has its banner
(`ArmsAreAnnounced`). The last one needs more than it says: one `armRef` and one banner serve all
threads and a late answer may replace the banner, so the arm has to be watched by the effects of
the view it was set on (`ArmIsWatched`), and an arm of a session rules out an interrupt under way
for its thread. It gives `StopTypes`, `HardStopsArePressedFor`, and, as an action property,
`BackgroundIsConfirmed`.

`AgentRootLeaseProofs` is about any set of commands and any limit of tokens and admissions.
`LeaseInvariant` has what the registry, the ledger and the commands hold (`RegistryOK`,
`LedgerOK`, `JobsOK`, `Shape`, `OperationsOK`), that a token has one holder, a release
one command and a close one command (`TokensApart`, `OneRelease`, `OneClose`), that admissions are
kept and owned (`AdmissionsKept`, `AdmissionsHaveOwners`), that closes wait for starts
(`CloseWaitsForStarts`), and who may change trust (`AuthorityFollowsOwners`). It gives
`LeaseTypes`, `UsersAreKept`, `EverythingHasAnOwner` and `AuthorityIsPassedOn`. By the way it shows
that the retained admission with token 0, which the registry's types allow, is never made.

`AgentTurnLogProofs` is about any number of events, mounts, disturbances and attempts and any size of
a batch. It gives `TypesAreKept`, `WritersAndStoreAgree` (`WritersAgreeWithTheStore`),
`NoEventIsLostUnseen` (`EveryEventAccountedFor`) and, as an action property, `StoredRowsStay`
(`RowsOnlyGrow`). A row exists in several versions at a time: stored, in a batch under way, dirty in
the window, and as the tail or snapshot that still grows. That the log stays ordered when any
of them is written next is not a fact about the store, so the invariant `Inv` speaks of them all:

| Part | Says | Needed for |
|---|---|---|
| `LifeOK`, `CallOK`, `Settled` | what a slot of each state may hold and await; between two steps a writer with no call under way knows the end of the log | `TypeOK`, `LeaseHolderKnowsTheEnd` |
| `AppendOK` | a batch under way continues the log without a hole, covers what is stored of its rows or carries the loss, and its answer tells what the store did | `RowsOnlyGrow`; a retry may trust a reply |
| `WindowOK` | every row from the end of the log on is dirty; the tail and the snapshot contain what is stored or under way of their rows (`Held`, `Covers`) | no hole, and coalescing loses nothing |
| `InOrder(SlotVersions(...))` | all versions of all rows: those of one row have the same first event, rows of a smaller number have an earlier one and share none; claimed only of a writer that may still append (`InForce`) | `StoredOnceInOrder` |
| `EpochsOK` | epochs are distinct, a living writer with a lease has the newest, and a lease that was granted and not taken is newer than all and names the end | a retired writer is refused |
| `ArrivalsOK` | whatever is stored, dirty or under way is older than the buffered events, which are in the order of their arrival, also across mounts | events that waited for a lease enter in order |
| `MountsOK` | only the live and the retiring mount have living slots, and the live one waits while the other retires | `EpochsOK`, `ArrivalsOK` |
| `SealOK`, `SealsOK` | the log is sealed only by a batch that holds all that is pending, so whatever a living slot still has when the log is sealed is stored or covered by a stored loss; nothing asks for a seal before the turn has ended, and no other slot holds events back then | `EveryEventAccountedFor`: a stop at a sealed log drops nothing unseen |
| `Accounted` | every recorded event is stored, or kept by a slot (`Kept`), or the stored loss covers it | `EveryEventAccountedFor` |

The lemmas go from the window (`AcceptShape`, `AcceptOrder`, `TakeBatchFields`, `CommitBatchFields`) to the
handlers on one slot (`RunFlushOK`, `SettleFlushOK`, `ShrinkBatchOK`, `ReconcileOK`, ...), each of which says
that the slot stays well-formed and what the others see of it (`Move`, `Step`), and from there to one
lemma per action (`...Inv`). `Replay`, the events that enter a new window one by one, is a recursive function;
that the last of its values is well-formed (`ReplayOK`) is shown by taking the least index
at which one is not (`LeastNumber`, from the well-foundedness of the natural numbers), which needs no
induction over a predicate. TLC found `Inv` to hold on the instance of `turn_log` before it was proved.

Only model-checked: every liveness property (outside this prover's reach, as is `ENABLED`): the
endings in `CompletedIsClosed`, `WindowReleased`, `CompletedTurnSettles`,
`StopTakesEffect`, `TimeoutReleasesAdmission`, `SealEndsTheSlot`, `StopIsKept`, `PressIsFelt`. Every
invariant and every action property that a passing run checks is also a theorem.

## 6. Not modelled

Provider output parsers, text decoding and chunk splitting (pure conversions),
the user interface, the packaging, and Git itself. After a
crash within `fs::write` the trust file is taken for empty on the next start, so revocations and
clone marks are gone; no document claims otherwise, and `FreshCloneStaysUntrusted`
excuses the clones of before such a restart. `shutdown_all` does not wait for a child spawned between the
check and the publication of its group; the starting thread drops it
(`ShutdownCoversEveryStart`), possibly after `shutdown_all` has returned. A stop that
arrives after the exit was observed and before completion reports "stopped" for a task that
ended by itself; `RevocationAttribution` constrains revocations only.

Of the renderer: the checks and preparations before a start call, the queue of deferred
sends, the steering of running turns, worktree leases, and the reading side of the turn
log. The components listed as `not_modelled` in `PROJECT.json` each say why.

## 7. Plan

Next, in this order:

1. `AgentTaskInput` with the renderer's queue of steered messages, then the runtime request
   journal, the shared-session registries, the remote runner's connection leases, terminal
   sessions.
2. `AgentTurnStart` over `AgentTaskSupervisor` instead of over its commands.
