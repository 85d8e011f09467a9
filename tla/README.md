# A TLA+ verification of lele

lele is a personal agent gateway written in Go: channels (Telegram, Discord, a
native web client and others) bring messages in, an agent loop answers them with
the help of language-model providers, tools and background subagents, and what
must survive a crash is kept in SQLite. This directory holds TLA+ models of the
parts of it whose correctness depends on the order in which things happen, the
TLC configurations that check them on small instances, and TLAPS proofs of the
properties that matter most.

Paths below are relative to the repository's root. `PROJECT.json` maps every
definition to the lines it models and lists components, hazards, runs, findings
and theorems in a form a script can read.

Contents: [1 The system](#1-the-system) ·
[2 Plan](#2-plan) ·
[3 Inbound messages](#3-inbound-messages) ·
[4 Subagent tasks](#4-subagent-tasks) ·
[5 Replies](#5-replies) ·
[6 Group chats](#6-group-chats) ·
[7 Sessions](#7-sessions) ·
[8 Cron](#8-cron) ·
[9 Instance lock and teardown](#9-instance-lock-and-teardown) ·
[10 What the runs found](#10-what-the-runs-found) ·
[11 Proofs](#11-proofs) ·
[12 Limits](#12-limits) ·
[13 How to run](#13-how-to-run)

## 1 The system

| Component | Source | State it keeps | Operations | Hard behaviour | What makes it correct |
|---|---|---|---|---|---|
| Durable inbound spool | `pkg/durable/inbound.go`, `pkg/store/spool.go`, `pkg/bus/bus.go`, `pkg/channels/base.go` | rows with id, claim and attempts; dedupe ledger; a bounded in-memory bus | Enqueue, Release, Drain, pump, ShouldSkip, Finish, ReleaseClaims | crash or shutdown anywhere; a full bus; a failing database; stale claims of live work | an accepted message is kept until settled; one copy at a time; pending is settled |
| Agent loop, gateway lifecycle | `pkg/agent/loop.go`, `cmd/lele/gateway.go` | running flag, turn goroutines, contexts | Run, Shutdown, boot and shutdown hooks | turns in flight at teardown; hooks with budgets | teardown leaves unanswered messages for the successor |
| Subagent tasks | `pkg/tools/subagent_manager.go`, `subagent_runner.go`, `wait_for_subagent.go`, `pkg/agent/subagent_helpers.go`, `tool_coordinator.go` | status, run, cancel entries, done channels, result claim and waiters | spawn, run, retry, continue, wait, callback, stop, seal | two goroutines of one task; a wait's timer against a completion; claim against seal | each result reaches the parent, and one it has read starts no turn; nobody waits for good |
| Durable outbound spool | `pkg/durable/outbound.go`, `pkg/channels/manager.go` | outbound rows, per-channel queues, dead letters | Enqueue, Complete, Release, Forget, Drain, pump, dispatch, ReloadConfig | partial sends; a reload under replies in hand; a full queue | a reply is sent, kept or given up for a recorded reason; no process sends it twice |
| Group chats | `pkg/group/` | transcript, status, finalize-once, wait group, retention | Start, Stop, run loop, finalize, Wait, Drain, LoadHistorical, history | stop, panic, error and convergence racing to end a run; parallel turns | one end, told truthfully and kept; bounded transcript |
| Sessions | `pkg/session/`, `pkg/store/sessions.go` | resident sessions, watermarks, epochs, boundaries | append, edit, exclude, save, evict, compact, load | statements outside the lock; eviction against mutation | clean flags mean saved rows; what leaves memory is on disk |
| Cron | `pkg/cron/service.go`, `cmd/lele/cron.go` | jobs in memory and in rows, executing set, wait group | Start, Stop, tick, execute, RunJobNow, edits, command line | edits and stop during an execution; crash between clear and run | no job lost, no reminder twice, a due job runs |
| Instance lock | `pkg/lockfile/` | a locked inode under one path | Acquire, Release | release, removal and acquisition of several processes | at most one holder |
| Shutdown coordinator, restart | `pkg/update/shutdown.go`, `restarter.go`, `cmd/lele/gateway.go` | hooks, run-once flag, a restart child | Register, RunAll, Restart | a hook past its budget; a child waiting for its parent | bounded teardown, a successor serves |
| Exec approvals | `pkg/channels/approval_manager.go` | pending approvals, reply channels | create, answer, timeout, wait | answer against timeout against a waiter that left | one decision, seen alike by both sides |
| Provider fallback, cooldown | `pkg/providers/fallback.go`, `cooldown.go` | counters and deadlines per provider | Execute, MarkFailure, MarkSuccess | concurrent calls over shared counters | an unavailable provider is skipped, the last hope is tried |
| Turn markers and resume | `pkg/agent/turn_state.go`, `message_processor.go` | a marker per session beside the spool row | seed, checkpoint, resume, clear | crash between two stores | a resumed turn repeats no finished tool |
| Background processes | `pkg/tools/background_exec.go` | process table, output buffers | Register, Stop, MarkCompleted, cleanup | stop against exit; table at its limit | stopped stays stopped |
| MCP connections | `pkg/mcp/manager.go` | connection cache, load flights, fingerprints | LoadServer, CallRemote, config change, Close | a flight or a dial that outlives its configuration | no stale connection or tool list is cached |
| Everything else | providers' wire code, channel adapters, config, routing, skills, keyring, logging, TUI, web, desktop | | | sequential code, network protocols or presentation | left to tests |

How the parts meet: a channel spools a message and publishes it on the bus; the
loop takes it off the bus and starts a turn goroutine; the turn reads and writes
its session and runs the tool loop, which may spawn subagents, start a group or
schedule a job; a subagent's completion re-enters as an inbound message or is
returned by a wait inside the parent's turn; the answer goes to the outbound
spool and bus, whose dispatcher hands it to its channel's sender. At shutdown the
coordinator's hooks stop the loop, hand the spool's claims back, stop channels
and services and release the instance lock, in that order, while the child of a
restart polls for it.

## 2 Plan

Done: `Spool`, `DurableInbound` with its abstract specification
`InboundPromise`, and `SubagentTask`; then `DurableOutbound` (over the same
`Spool`), `GroupRun`, `SessionPersist`, `Cron`, and `Handoff`, which takes the
instance lock, the shutdown coordinator and the restart together because their
hazards lie in what one process does to the next. Each component
has a proof module (`SpoolProofs`, `DurableInboundProofs`,
`DurableOutboundProofs`, `SubagentTaskProofs`, `CronProofs`, `GroupRunProofs`,
`HandoffProofs`, `SessionPersistProofs`).

To come:

| Module | Composes with | Main properties | Bounds foreseen |
|---|---|---|---|
| `Approval` | | the answer's callback and the waiter agree | 2 approvals |
| `FallbackChain` | | a cooldown is not shortened by an older call | 2 providers, 2 calls |
| `TurnResume` | `DurableInbound` | a replayed turn resumes its own marker | 2 messages, 2 boots |
| `BackgroundExec` | | stopped is final; the table keeps its limit | 2 processes |
| `McpConnections` | | no stale entry; no flight fails for another's context | 2 configurations |

Theorem to come: `EvictKeeps` of `SessionPersist` (11.8).
Every module keeps the form the proofs need: constants
with named assumptions, an action per operation, invariants as conjunctions of
named parts, no RECURSIVE operator.

In all runs below a bound on processes, events or calls is a guard, and
`CHECK_DEADLOCK FALSE` says that the system may really stop: the last process
has ended, or nobody calls any more. Some properties hold only where a known
weakness of the code has not struck: a model then records in a ghost, `hurt`,
which of its named hazards struck, `Excused` names those under which its
properties claim nothing, and the constraint `Unhurt` cuts the behaviours where
they claim nothing anyway. Section 10 shows that each hazard, taken out of
`Excused`, breaks a property: the list is not longer than the code makes it.

## 3 Inbound messages

### 3.1 Modules

`Spool` holds the repository of `pkg/store/spool.go` as operators on a table
of rows and a set of ledger keys: each SQL statement is one atomic operator,
because SQLite serialises writers. A row is its id, whether it is there, its
claimant, the age class of the claim and its attempts; the payload is the
message.

`DurableInbound` is the gateway around it. A message is named by a model value
and arrives once; its dedupe key `Key[m]` may be shared. It may arrive whenever
there is a process (`Accepting`): the HTTP server listens before the drain and
until after the channels have stopped (`gateway.go`), so that its messages are
spooled and published during the boot and the teardown as well.

| State | Code |
|---|---|
| `row`, `nextId`, `ledger` | tables `spool_queue`, `processed_messages` |
| `phase`, `inst`, `loop` | the point reached in `gatewayCmd` or `runGracefulShutdown`, the instance id, whether `AgentLoop.Run` consumes |
| `bus` | `MessageBus.inbound`, a channel of capacity `BusCap` |
| `ch` | `BaseChannel.publishInbound` of each message: enqueue, publish, release when refused |
| `turn` | the goroutine `AgentLoop.Run` starts for a message |
| `pass` | the one `claimPass` under way, the drain's or the pump's |
| `answers`, `fate` | ghosts: how often a message was answered, what settled it |

| Actions | Code |
|---|---|
| `ChannelEnqueue`, `ChannelPublish`, `ChannelRelease` | `Inbound.Enqueue`, `MessageBus.PublishInbound`, `Inbound.Release` |
| `Boot`, `DrainReclaim`, `StartChannels`, `GoLive` | the boot order of `gatewayCmd` with the drains of both directions |
| `PumpTick`, `PassClaim`, `PassItem`, `PassPublish`, `PassDelete`, `PassRelease`, `Prune` | `pumpOnce`, `claimPass`, `republish`, `handlePoison`, the ledger prune |
| `TurnStart`, `TurnCheck`, `TurnAnswer`, `TurnCancel`, `TurnMark`, `TurnComplete` | the loop body of `AgentLoop.Run` with `ShouldSkip` and `Finish` |
| `ShutdownBegin`, `PumpStop`, `ShutdownRelease`, `ChannelsStop`, `ProcessEnd` (an exit or a crash) | the hooks of `gateway.go` and `AgentLoop.Shutdown` |
| `Age` | a claim becomes older than `StaleClaimTimeout`, in the phases `SlowPhases` allows to last that long |

`InboundPromise` is what a user is promised: an accepted message is kept on disk
until it is settled or carried in memory after a replay, and a carried message is
lost only by a teardown. `DurableInbound` instantiates it with a mapping from
rows, bus and turns to `state` and `serving` and has it as the property `Promise`.

### 3.2 Runs

| Run | Instance | Shows |
|---|---|---|
| `inbound_replay` | fair; 2 messages, 2 turn goroutines, bus of 1, 2 processes, no database failure | `TypeOK`; `AcceptedKept`: a row goes only when its turn ended, the ledger knew it, it was dead-lettered or replayed; `SingleCopy`: never two workers on one message; `ClaimHasWorker`: a claim of a process that starts up or serves has somebody who will finish or release it; `PendingSettled`: whatever the live process may claim is settled while it stays live |
| `inbound_faults` | the same with one failing database call anywhere, a shared key, an undecodable payload and one pruned key | `SkipAnswered`: what is skipped has an answered or recorded twin; `Promise`: the refinement of `InboundPromise` survives failures |

### 3.3 Bounds

Two messages are what it takes for one to overtake, share a key with, or fill the
bus in front of another. `BusCap` 1 makes a full bus common. `ClaimLimit` 1 makes
a pass of two rows two batches. `MaxBoots` 2 gives one crash or shutdown with a
successor; a third process meets the same disk states. `AttemptCap` 2 with
`PoisonLimit` 2 reaches the dead letter on the second try. One failing call
(`MaxFaults` 1) reaches each error path; two failures are the same paths twice.
`MaxPrunes` 1 forgets a key once. The proofs of section 11 have none of these
bounds.

### 3.4 Fairness

Weak fairness of each channel's publish and release, of the pump's tick and of
each step of a pass, of each turn, and of the boot sequence: the Go scheduler
abandons no goroutine, a ticker keeps firing, and every provider call and tool
has a timeout, so `processMessage` returns. Nothing obliges a message, a crash or
a shutdown to happen.

## 4 Subagent tasks

### 4.1 Module

`SubagentTask` models the tasks of one manager and the parent's
`wait_for_subagent` calls. A run is an execution: the spawn starts run 1, each
`ContinueTask` the next, each with a goroutine of its own (`pc[t][r]`). The
status is guarded by `sm.mu`, the delivery bookkeeping by `task.mu`, a context
and a channel by neither, so each critical section is an action.

| State | Code |
|---|---|
| `status`, `result`, `retries`, `transient` | `task.Status`, `Result`, `RetryCount`, the class of `lastErr` |
| `run` | the current execution, which also names the current `doneCh` |
| `handle`, `ctx` | `sm.cancels[task.ID]`, by the run that put it there; the runs whose context is cancelled |
| `done` | the closed channels |
| `claimed`, `waiters` | `resultClaimed`, `resultWaiters` |
| `call`, `target`, `seen` | a wait's place, its task and the snapshot it holds |
| `stopper` | a stop request between its critical sections |
| `halted`, `injected`, `read`, `told` | ghosts: what a stop acted on, what the callback injected, what a wait returned, which runs published their event |
| `refused`, `crossed`, `missed` | ghosts: results the bus did not take from the callback, tasks continued while something of an earlier run was still moving, dependencies that were absent at the spawn |

| Actions | Code |
|---|---|
| `Spawn`, `Continue` | `SpawnWithOptions`, `ContinueTask` |
| `DepsMet`, `DepsCancelled` | the polling goroutine of a pending task |
| `Begin`, `Check`, `Finish`, `Callback`, `Decide`, `BackoffOver`, `BackoffCancelled` | `runTaskImpl`, `handleTaskCompletion`, the injector of `subagent_helpers.go`, the retry loop of `runTask` |
| `Panic`, `Recover`, `Cleanup`, `Signal` | the deferred calls of `runTask` and `safeGoroutine` |
| `StopTask`, `StopCancel`, `StopSeal`, `StopAll`, `CancelSession` | `StopTask`, `SealResult` after it, `StopAll`, a cancelled session |
| `WaitLook` to `WaitRelease`, `WaitTimeout` | `wait_for_subagent`: look, register, block, fetch, claim, answer or give up |

The callback claims the result before it publishes it, and ignores what
`PublishInbound` answers (`subagent_helpers.go`); the bus refuses when it is full
or closed (`bus.go`). In the model it may refuse at any time, and the outcome is
then `refused`: claimed and lost.

Abstractions: a result is the run that produced it and its kind; `not_done` is
folded into `completed`, which the code treats alike; the time limit of a child's
context and a failing model override are outcomes of `Finish`; a panic happens in
the tool loop only, the one place where code of others runs. Not modelled: the
sweep that forgets old finished tasks, the write of a terminal status to the
session store, and the probing for a free task id.

### 4.2 Runs

| Run | Instance | Shows |
|---|---|---|
| `subagent_run` | fair; 1 task, 2 waits, 1 run, 1 retry | `NothingLost`: once nothing of a task moves, its outcome has reached the parent, unless a stop took it, the bus refused it, or the task was retried or `crossed`; `NoHungWaiter`: a waiter is answered without its timer |
| `subagent_resume` | 1 wait, 2 runs, 1 retry | `TypeOK`; `OneLoop`: two goroutines never drive one session together, even when two runs overlap; `FreshInv`: the final result is in the parent's hands only under a claim; `FreshSignal`: a channel is closed only by the end of the run it belongs to or by a stop, unless the task was `crossed`; `InjectFresh`: what a wait has returned is not claimed for a message as well |
| `subagent_chain` | fair; 2 tasks, one depending on the other, limit 1 | `StartsAfterDeps`: when a task leaves its dependencies behind, each has ended, was stopped, is being tried again or was absent at the spawn; `PendingLeaves`: a task whose dependencies ended does not stay pending |

Deadlock is checked in all of them: a state without a step other than the
explicit rest `Quiet` would be a goroutine, a wait or a stop request stuck.

The instances divide what one would be too large for. Two waits matter for the
claim, a retry for the signal: `subagent_run` has both with a single run.
Overlapping goroutines, and a second run with a signal of its own, need two runs,
so `subagent_resume` has them with one wait; dependencies are in
`subagent_chain`. The exceptions `refused` and `crossed` are weaknesses of the
code: without them TLC refutes the properties (`ResumedIsOwed`,
`EveryRunItsSignal`, `NothingLostAnyway` of section 10). A task that is continued
once its last run and every wait for it have ended is not `crossed`, and what the
properties say holds of each of its runs.

Fairness is weak fairness of each goroutine's step, of a stop request's remaining
steps and of a wait's steps other than its timer. A tool loop ends because its
iterations and its context are bounded. No wait relies on its own timer, so that
`NoHungWaiter` speaks of the signal.

## 5 Replies

### 5.1 Module

`DurableOutbound` is the life of a reply over the same `Spool`. A gateway is one
process at a time; each `StartAll` or `ReloadConfig` begins a generation `gen` of
queues and dispatchers, and `cur` is the generation whose context is live.

| State | Code |
|---|---|
| `row`, `nextId` | table `spool_queue`, direction outbound |
| `pub`, `bus` | `MessageBus.PublishOutbound` of each reply; the channel `outbound` |
| `present`, `mapped`, `reload` | `m.channels`, `m.dispatchQueues`, a `ReloadConfig` between its two critical sections |
| `queue`, `disp`, `sender` | the dispatch queues, `dispatchOutbound`, `startChannelDispatcher` with what each holds |
| `pass` | the `claimPass` under way: the drain's, then the pump's |
| `wire`, `fate` | ghosts: how often each process sent a reply, what became of it |

| Actions | Code |
|---|---|
| `PublishSpool`, `PublishBus`, `PublishRelease` | `PublishOutbound`: a row born claimed, the bus, the row handed back when the bus is full |
| `Boot`, `StartAll`, `GoLive` | the boot order of `gatewayCmd` with the outbound drain |
| `DispatchTake`, `DispatchRoute` | `dispatchOutbound`: route, or give the row back |
| `SenderTake`, `SenderSend`, `SenderSettle` | `startChannelDispatcher`: send in parts; `Complete`, `Forget` or `Release` |
| `ReloadStop`, `ReloadStart` | `ReloadConfig` |
| `PumpTick`, `PassClaim`, `PassPoison`, `PassExpired`, `PassSend`, `PassCount`, `PassSettle`, `PassRelease` | `pumpOnce`, `claimPass`, `sendResult` |
| `PumpStop`, `ShutdownRelease`, `ChannelsStop`, `ProcessEnd`, `Age` | the shutdown hooks, an exit or a crash, the stale timeout |

### 5.2 Run

`outbound_all`, fair: two replies to one or two channels (one enabled at start),
one with an undecodable payload, the other old enough to expire; bus and queues of
one place; two processes; one mishap, a reload or a failing database call. It
shows `TypeOK`; `ReplyKept`: a row goes only after the reply or a part of it went
out, or it expired, was poisoned or was given up; `SentOnce`: no process sends a
reply twice; `ClaimHasWorker`: a claimed row is `Tended` by a publisher, a dispatcher that reads
its queue or the pass, or a reload has `LeftBehind` its copy; `ReplySettles`: while the gateway lives a spooled
reply leaves the spool, unless a reload stranded it or a call failed.

Two replies are what it takes for one to fill the queue before the other; one
mishap puts a reload, or an error path, anywhere; `MaxAttempts` and `PoisonLimit`
2 reach both dead letters on the second try; the second process meets what the
first left.

Fair are each goroutine's step under a live context, the boot, the second half of
a reload, and the pump's tick and pass: every `Send` has a timeout and the ticker
keeps firing. Nobody is obliged to publish, to reload or to stop.

## 6 Group chats

### 6.1 Module

`GroupRun` follows a group from `Start` to its last save. What a turn says is
left open but for whether a stop keyword, the budget or repetition may end the
group there; a profile fixes the strategy, the team and the limits.

| State | Code |
|---|---|
| `mem` | `GroupManager.groups`: snapshot, reserved index, cancelled context, closed `done` |
| `run` | by group `Start`'s caller and then the goroutine of `runGroup`, with the batch and the turns in flight |
| `store`, `expired` | table `groups_state`, the groups past retention |
| `stage`, `drain` | the process's life; the wait groups `DrainAllRunGoroutines` copied |
| `reader` | `SnapshotsForSession` between its read of memory and that of the store |
| `told`, `missed` | ghosts: published events; groups not launched when the drain looked |

| Actions | Code |
|---|---|
| `Register`, `Announce`, `SaveStarted`, `Launch` | `Start` |
| `LoopTop`, `TurnBegin`, `TurnEnd`, `TurnFail`, `TurnPanic`, `BatchEnd` | `runGroup`, `runTurn`, `recordTurn` with `StopReason` and the four strategies |
| `FinalMark`, `FinalSave`, `FinalStatus`, `FinalComplete`, `LastSave` | `finalize` and the deferred save |
| `Stop`, `Expire`, `ReadMemory`, `ReadStore` | `Stop`, the retention sweep, `SnapshotsForSession` |
| `Boot`, `CancelRoot`, `DrainCopy`, `DrainWait`, `CloseStore`, `DrainTimeout`, `ProcessEnd` | `LoadHistorical`, `StopWithin`, a crash |

### 6.2 Run

`group_run`, with each goroutine's step fair (the executor of a turn returns):
one group, started with any of five panels (a moderated
MoA panel of three, a round robin with early stops, a panel of two talking at
once under a cap of 2, a pipeline, a single aggregator), two processes. It shows `TypeOK`;
`IndexUnique`: no two turns have the same index; `TurnsBounded`: the cap is passed
by at most the proposers of one batch; `CardKept`: who reads the history after the
terminal signal finds the group with the status that was told, over retention
and restart; `SilentAfterEnd`: nothing is recorded or told twice after it;
`EveryGroupEnds`. Groups share nothing but the drain, so one is enough; three
speakers give a layer whose turns overlap and an aggregator after them.

## 7 Sessions

### 7.1 Module

`SessionPersist` has one session key under several goroutines. A message is an id
and a version of its text; an edit is a new version. `Session` objects are
numbered, because an evicted object may still be saved while another is resident.

| State | Code |
|---|---|
| `rows`, `column` | table `session_messages` by seq; `sessions.first_in_memory_seq` |
| `obj`, `live` | the `Session` objects with messages, watermark, dirty flags, excluded range and boundary; `sm.sessions[key]` |
| `op` | the call of each goroutine: its snapshot, and marks for `saveEpoch` and `accessTimes` |
| `torn`, `hurt`, `folded` | ghosts: an older write landed over a newer, the hazards that struck, messages folded into the summary |

| Actions | Code |
|---|---|
| `Load`, `LoadRead`, `LoadInstall`, `Create`, `CreateBlank` | `loadSessionFromDisk` with and without another session to evict, `getOrCreateUnlocked`, which makes a blank session when there is none or when a read failed (`NotFound`) |
| `AddFullMessage`, `AppendChunk`, `AppendFlush`, `AttachFiles`, `RemoveLast`, `TruncateHistory`, `SetHistoryCalls`, `Exclude` | the mutators |
| `Save`, `FlushDraft`, `Evict`, `EvictExcluded` | the decision under the lock |
| `WriteMeta`, `WriteRows`, `WriteUpdate` | the statements of the five kinds of save, without the lock |
| `Settle` | the flags under the lock again, and the next branch of `saveUnlocked` |
| `Restart` | the process ends anywhere |

### 7.2 Runs

| Run | Instance | Shows |
|---|---|---|
| `session_persist` | 2 goroutines, 2 objects, 3 events (a mutation, a failing statement, an end of the process), all nine hazards excused | `TypeOK`; `CleanIsSaved`: when no save is due and none in flight, the rows are the messages in memory; `EvictKeeps`: a session leaves memory with every message and edit on disk; `ContextReloads`: a load brings back every message in context |
| `session_removed` | one goroutine, without the excuse `skipped` | a finding, section 10 |

Two goroutines make every overlap of two saves and of a save with an eviction, a
compaction or a load; three events give a message, a change during its save and a
second one or a failure. They are interchangeable, hence the symmetry; there is no
liveness here and no fairness.

The hazards: `skipped`, a delete declares later appends saved; `raised`, a
removal after appends lifts the seq from which a delete is pending; `swallowed`, a
save that ends settles a full rewrite ordered meanwhile; `wiped`, a compaction
clears flags that were owed, or cuts an object over which an overtaken save has
written or is still to write; `reordered`, an overtaken save or one of an evicted
object writes its rows or its boundary last, or the rows it left out of order, or
with a hole in them, are what the next load reads; `overlapped`, an exclusion overwrites the unsaved range of
another; `installed`, a load installs rows read before another goroutine's work;
`renumbered`, a full rewrite counts the evicted rows it puts in front of its own
(`evicted + i` in `writeFullUnlocked`) when some of them have been deleted;
`unread`, a read of the store fails, `loadSessionFromDisk` answers as if there were
no session, and a blank one is installed over the rows (`manager.go`), which its
next full save replaces.

`renumbered`, the hole and the overtaken save of `wiped` were found by the proof of
`CleanIsSaved` (11.7): no run reaches them, for they need six mutations and
failures or more. The shortest history known of `renumbered` has nine: three
messages are written, the first two are folded and evicted, but the statement that
stores the boundary fails; a truncation orders a full rewrite, whose goroutine
pauses before its statements; the session is evicted, its save failing; loaded
again, now from seq 0; and loses its last two messages, and their rows. The paused
rewrite then looks for two evicted rows and finds one. The late boundary of
`reordered` was found by the proof of `ContextReloads`, and needs nine
events as well: the statement that stores the boundary of a compaction fails, and a
save of the shortened object pauses before its own; the session is evicted, that
save failing, and loaded again from the older boundary; a message that had been
excluded is pinned, comes back into context and is saved; the paused save then
stores a boundary behind it, and the next load leaves it out.

## 8 Cron

### 8.1 Module

`Cron` has jobs that recur and jobs that run once. Of the clock it keeps which
next runs are due and which one-shots lie ahead.

| State | Code |
|---|---|
| `mem`, `disk` | `cs.store`, table `cron_jobs` |
| `executing`, `run` | `cs.executing`; by job the goroutines of the ticks (from 1) and `RunJobNow` (0) |
| `edit`, `cli` | an `UpdateJob` with its caller's copy; a `lele cron` process with the rows it loaded |
| `stage` | down, idle, up, draining, drained or expired |
| `fate`, `fired`, `hurt` | ghosts: what clients were told, handlers called, hazards that struck |

| Actions | Code |
|---|---|
| `Tick` | `checkJobs`: collect, clear the next runs, save, launch |
| `Enter`, `Lookup`, `Call`, `Settle`, `Leave` | `executeJobByID`: marked as executing, looked up under the lock, the handler called without it, settled under it |
| `RunJobNow`, `RanNow` | the run by hand |
| `AddJob`, `RemoveJob`, `EnableJob`, `EditRead`, `EditWrite` | the API |
| `CliLoad`, `CliAdd`, `CliRemove`, `CliEnable` | `cmd/lele/cron.go` |
| `Start`, `StopBegin`, `StopDrained`, `StopExpired`, `Exit`, `Elapse` | the life of the service and the clock |

A save upserts job by job and sweeps the rows it does not know; when it fails,
`SaveFails` leaves any prefix of it done.

### 8.2 Run

`cron_jobs`, fair: a recurring and a one-shot job, one goroutine per job and tick,
three calls in any mix, one failing load or save, two processes, the five hazards
excused (`staleEdit`, `unscheduled`, `foreign`, `emptied`, `overdue`, explained in
the module). It shows `TypeOK`; `JobsKept`: an accepted job has its row until it is
removed or has run; `EnabledIsScheduled`: the scheduler forgets no job;
`OneShotOnce`: the scheduler calls a one-shot's handler once at most, whatever
fails and whenever the process dies; `DueRuns`: a due job is run. Between `Lookup` and `Call` the lock is free, and a
removal may be reported: the handler is called all the same (`RemovedNeverCalled`,
section 10). Fairness: the ticker fires, goroutines are scheduled, handlers return. Three calls are what it
takes to create a job, take a copy of it and write the copy back.

## 9 Instance lock and teardown

### 9.1 Module

`Handoff` has several gateway processes, their lock files and a clock. The lock
is `flock` on an inode, the path names one inode or none, and `Release` unlocks
before it removes the file. An action takes no time, so what happens within a
unit happens in any order; `Tick` is not enabled while something is due.

| State | Code |
|---|---|
| `pc`, `child`, `waited` | where a process is; `LELE_RESTART_CHILD`; the time since its first attempt in `acquireInstanceLock` |
| `hook`, `spent`, `age` | the place in `RunAll`'s order, the time in it, the time since the teardown began |
| `busy`, `calls` | turns in flight; who called `runGracefulShutdown` |
| `fd`, `path`, `holder`, `files` | open lock file, inode of the path, holder of each flock |
| `hurt` | ghost: a lock file was removed under another process that had it open |

| Actions | Code |
|---|---|
| `Launch`, `OpenFile`, `LockExclusive` | `Acquire`, `acquireInstanceLock` with a child's poll |
| `Signal`, `Restart` | the signal handler; `Restarter.Restart` by self-exec |
| `RunHook`, `SkipHook`, `Unlock`, `Unlink` | `RunAll`, its critical hooks, `Release` |
| `StopWithin`, `Exit`, `Kill`, `TurnEnds` | the join of the turns, the exit, a death, a turn's end |

### 9.2 Runs

| Run | Instance | Shows |
|---|---|---|
| `handoff` | fair; 3 processes, 3 files; units of five seconds, hooks of `CoarseHooks`, budget 3, child's timeout 4, grace 1; hazard `unlinked` excused | `TypeOK`; `OneServing`: two gateways never serve or run their hooks at a time; `TeardownBounded`: whatever hangs, the lock is let go and the process is ready to exit within the sum of the limits; `TeardownEnds` |
| `handoff_late` | 2 processes, the gateway's own hooks and timeouts in seconds | a finding, section 10 |

Three processes are what it takes for one to release, one to lock the old inode
and one a new one; a fourth repeats them. `CoarseHooks` keeps the order and the
proportions of the gateway's hooks, with the two durable shutdowns as one, so that
each way to hit the budget occurs. Fairness: the processes run and time passes; a
hook that hangs is left behind by its own limit.

## 10 What the runs found

Two runs state what a comment of the repository says and end in a
counterexample; the quotes are in `PROJECT.json`.

| Run | Property | In short |
|---|---|---|
| `session_removed` | `CleanIsSaved` | a message is removed, another takes its seq before the save; the save deletes from that seq on and marks the new message saved (`persist.go`, `saveDeleteLastUnlocked`) |
| `handoff_late` | `HandsOver` | hooks that use the whole budget, 15 s, and an `mcp-stop` of 5 s take all of the child's 20 s: the child gives up, the parent exits, nothing serves. It is the boundary case: the child's clock starts a little after the spawn |

The modules state more such sentences, in their last sections or beside the
properties of the runs. TLC refutes each of them on an instance that a reader
gets from a cfg by putting the property in the place of its properties,
`SPECIFICATION Spec` unless said otherwise, and changing what the last column says:

| Property | In short | Instance |
|---|---|---|
| `NothingLost` (DurableInbound) | a replayed row is deleted once its message is on the in-memory bus, so a second end of the process before the turn is over loses it | `inbound_replay` |
| `RestartReplays` | a restart within the stale timeout never replays the dead process's rows | `inbound_replay` under `FairSpec` |
| `SkippedWasProcessed` | the ledger key has no chat in it; a channel whose message ids are per chat gets a fresh message skipped (`ShouldSkip`) | `inbound_replay`, `Key <- TwinKeys` |
| `SkippedIsReleased` | a turn that skips a duplicate returns before `Finish` is deferred (`loop.go:1025`), so its row stays claimed by the live process, against the comment of `claimPass` (`inbound.go:457`) | `inbound_replay`, `Key <- TwinKeys` |
| `UnmarkedIsPending` | after a failed ledger write the row stays claimed, where the pump does not see it (`Finish`) | `inbound_replay`, `MaxFaults = 1` |
| `AnsweredOnce` | when starting the channels outlasts the stale timeout, the outbound drain frees live inbound claims and the pump publishes them again | `inbound_replay`, `SlowPhases = {"channels"}`, `MaxBoots = 1` |
| `ReplayFirst` | a message of the HTTP server is spooled and published before the rows of the previous run are replayed, against the comment at the drain (`gateway.go`) | `inbound_replay` |
| `ResumedIsOwed` | the injector claims the result and ignores that the bus refused the message: the outcome reaches nobody (`subagent_helpers.go`) | `subagent_run` |
| `NothingLostAnyway` | a wait that times out between an attempt and its retry claims the interim failure | `subagent_run` |
| `TerminalIsFinal` | a task stopped before its goroutine begins is marked running again (`runTaskImpl`) | `subagent_run` |
| `EveryRunTold` | a panic or an early cancel ends a run without its event (`runTask`) | `subagent_run` |
| `StoppedNeverResumes` | the callback may claim between the stop and the seal | `subagent_run` |
| `EveryRunItsSignal` | "Each (re)execution gets a fresh completion signal" (`ContinueTask`): the first run's deferred signal closes the resumed run's channel (`safeGoroutine`) | `subagent_resume` |
| `NothingLostAnyway` | the late callback of a run, or a wait that still holds its result, takes the claim `ContinueTask` has just reset: the outcome of the continued run is delivered to nobody | `subagent_resume`, `MaxRetries = 0` |
| `ConcurrencyLimit` | continued and dependent tasks are not counted against the limit | `subagent_chain`, `DependsOn <- NoDeps`, `MaxRuns = 2` |
| `SentOnce`, `GoneIsSilent` | a boot slower than the stale timeout lets the outbound drain free rows this process published, and sends them beside their copies | `outbound_all`, `SlowPhases = {"boot"}` |
| `NothingAbandoned` | a reload leaves what waits in the old queues claimed and unserved (`ReloadConfig`) | `outbound_all` |
| `SentOnceAnyway` | a failing delete of a sent row leaves it to be sent again, by the live process or the next | `outbound_all` |
| `PeerOrder` | a deferred row is overtaken by the next rows of its peer (`claimPass`) | `outbound_all`, `Corrupt = {}` |
| `HardCap` | the cap is tested once per batch, and the speakers of a parallel batch may pass it together | `group_run` |
| `DrainCoversAll` (GroupRun) | a group registered but not launched is unknown to the drain | `group_run` |
| `NotBuried` | a group that starts between the two reads of the history is shown as an error | `group_run` |
| `MoASynthesizes` | without a moderator the first proposer's proposal counts as the synthesis | `group_run`, `Profile <- JustHeadless` |
| `NoOverlap` | a run by hand and a tick's goroutine call the handler together | `cron_jobs` |
| `DrainCoversAll` (Cron) | `Stop` returns before goroutines the tick has collected are counted | `cron_jobs` |
| `RemovedNeverCalled` | a job removed between the lookup and the call of its handler is called after the removal was reported (`executeJobByID`, `RunJobNow`) | `cron_jobs` |
| `FailedNeverRuns` | a job whose creation was reported as failed stays in memory and runs | `cron_jobs` |
| `OneShotNotLost` | a reminder that came due while the service was down is enabled without a next run | `cron_jobs` |
| `OneShotOnce` | an edit writes an old copy back and arms the reminder again | `cron_jobs` without `staleEdit` in `Excused`, `MaxSpawned = 2` |
| `OneShotOnce` | an edit enables a reminder that was given before a restart, the removal not saved, and whose time has come | `cron_jobs` without `overdue`, `Job = {at}`, `MaxOps = 5`, `MaxFaults = 3` |
| `EnabledIsScheduled` | an edit writes back a copy without the next run a tick has set meanwhile | `cron_jobs` without `staleEdit` |
| `EnabledIsScheduled` | enabling by `UpdateJob` computes no next run | `cron_jobs` without `unscheduled` |
| `JobsKept`, `RemovedNeverRuns` | `lele cron` and a running service sweep each other's rows | `cron_jobs` without `foreign` |
| `JobsKept` | a service that could not load its jobs saves without them | `cron_jobs` without `emptied` |
| `CleanIsSaved` | the hazards of section 7, one by one | `session_persist` without one of `skipped`, `swallowed`, `wiped`, `reordered`, `installed`; without `raised` or `overlapped`, `Saver = {s1}`, `MaxEvents = 5`; `renumbered` is beyond any bound TLC can exhaust (7.2) |
| `ContextReloads` | a failing read installs a blank session over rows in context | `session_persist` without `unread` |
| `OneServing` | `Release` removes a file that another process has just locked, and a third locks a new one | `handoff`, `Excused = {}` |
| `TurnsHandedOver` | the next gateway serves while turns of the last are still joined | `handoff` |
| `SignalStops` | a restart asked for during a signal's teardown starts a child | `handoff` |

Some more hold on these instances and are kept out of the runs, being weaker than
what the runs check or orders within one step: `RecordedNotAnswered` on
`inbound_replay`; `OnlyStopCancels`, `SealedSilent` and
`InjectFresh` on `subagent_run`; `EndStays`, `OnlyStopCancels` and, with
`MaxRetries = 0`, `NothingLost` and (under `FairSpec`) `NoHungWaiter` on
`subagent_resume`; `StartsAfterDeps` on `subagent_chain` with `MaxRetries = 1` and
`MaxConcurrent = 0`; `GoneIsSilent`
on `outbound_all`; `LayersClose`, `StoppedMeansCancelled` and `DrainedIsQuiet` on
`group_run`; `RemovedNeverRuns` on `cron_jobs`. Of these `OnlyStopCancels`, `GoneIsSilent`, `StoppedMeansCancelled`,
`DrainedIsQuiet` and `RemovedNeverRuns` are proved.

## 11 Proofs

All theorems hold for every value of the constants that satisfies the named
assumption of its module. These fix the constants' types (`SpoolAssumption`,
`InboundAssumption`, `OutboundAssumption`, `SubagentAssumption`, `CronAssumption`,
`GroupAssumption`, `HandoffAssumption`, `SessionAssumption`), say that there are finitely many turn
goroutines or waits where the code counts them, that a group has a team, and that
the lock's release is the hook registered first, as `gateway.go` has it.

| Theorem | States | Under |
|---|---|---|
| `DurableInboundProofs!TypeCorrect` | `Spec => []TypeOK` | |
| `!AcceptedAreKept` | `Spec => []AcceptedKept` | |
| `!SkippedAreAnswered` | `Spec => []SkipAnswered` | |
| `!KeepsItsPromise` | `Spec => Promise`, the refinement of `InboundPromise` | |
| `!OneCopyEach` | `Spec => []SingleCopy` | `PromptStart` |
| `!ClaimsHaveWorkers` | `Spec => []ClaimHasWorker` | |
| `DurableOutboundProofs!TypeCorrect` | `Spec => []TypeOK` | |
| `!RepliesAreKept` | `Spec => []ReplyKept` | |
| `!ClaimsHaveWorkers`, `!SentOncePerProcess`, `!GoneStaysSilent` | `[]ClaimHasWorker`, `[]SentOnce`, `GoneIsSilent` | `PromptBoot` |
| `SubagentTaskProofs!TypeCorrect` | `Spec => []TypeOK` | |
| `!ReadIsClaimed`, `!NeverReadThenInjected` | `[]FreshInv`, `InjectFresh` | |
| `!OneAtATime` | `[]OneLoop` | |
| `!SignalsAreFresh`, `!ContextsAreOwn`, `!OutcomesArrive` | `[]FreshSignal`, `[]OnlyStopCancels`, `[]NothingLost` | |
| `!DependenciesFirst` | `StartsAfterDeps` | |
| `CronProofs!TypeCorrect` | `Spec => []TypeOK` | |
| `!AcceptedJobsKept` | `[]JobsKept` | `foreign`, `emptied` excused |
| `!EnabledAreScheduled` | `[]EnabledIsScheduled` | `staleEdit`, `unscheduled` excused |
| `!RemindersOnce` | `OneShotOnce` | `staleEdit`, `overdue` excused |
| `!RemovedAreNotRun` | `RemovedNeverRuns` | `foreign` excused |
| `GroupRunProofs!TypeCorrect` | `Spec => []TypeOK` | |
| `!IndexesUnique`, `!TranscriptsBounded` | `[]IndexUnique`, `[]TurnsBounded` | |
| `!CardsKept`, `!EndIsSilent` | `[]CardKept`, `SilentAfterEnd` | |
| `!DrainsAreQuiet`, `!StopsAreCancels` | `[]DrainedIsQuiet`, `[]StoppedMeansCancelled` | |
| `HandoffProofs!TypeCorrect` | `Spec => []TypeOK` | |
| `!OneGateway` | `[]OneServing` | `unlinked` excused |
| `!TeardownsAreBounded` | `[]TeardownBounded` | |
| `SessionPersistProofs!SessionTypes` | `Spec => []TypeOK` | |
| `!SessionCleanIsSaved` | `Spec => []CleanIsSaved` | `Excused = Hazard` |
| `!SessionContextReloads` | `Spec => ContextReloads` | `Excused = Hazard` |

What stands in the last column is no convenience: without it TLC refutes the
property, on an instance of section 10 (the outbound `ClaimHasWorker` alone is not
refuted there; its proof shares the invariant of its neighbours; and `renumbered`
is reached by the history in 7.2). `PromptStart` says that a gateway gets from the
first message it may accept to the outbound drain within `StaleClaimTimeout`, which
is 30 seconds (`inbound.go`), `PromptBoot` that it gets within them from the
wiring of the bus to the outbound drain; where a process is slower its drain
frees rows it has itself claimed. A gateway that connects many channels, or has a
long spool to replay, may well be slower: these two theorems say nothing of it,
and `AnsweredOnce` and `SentOnce` (section 10) what happens then. The exceptions
of the subagent properties (`refused`, `crossed`, `missed`, a retry) are in their
statements, and section 10 has the statements without them. No other bound of a run is in a theorem: each
holds for any number of crashes, restarts, failing calls, tasks, groups, jobs,
processes and capacities, and those that promise something only "while no call has
failed" say so in the property.

Each invariant below was checked by TLC on the runs' instances before it was
proved.

### 11.1 Inbound

**AcceptedKept** is not inductive: a pass deletes the row it has decided about one
step earlier, and finds it as the batch's oldest. `KeptInv` adds that ids are
unique (`IdsUnique`, so that *the oldest* is one row), that a batch holds spooled
rows only (`BatchSpooled`), that a pass about to delete has recorded why
(`DeleteDecided`), and that a turn about to mark or complete has ended
(`FinishDecided`). The lemmas of `SpoolProofs` say what every statement of the
repository does to the rows; `RowsOnlyGo`, `FateGrows` and `PassChange` carry each
conjunct over each action.

**SkipAnswered** adds to `FinishDecided` that a key in the ledger is of a message
whose turn ended (`LedgerEnded`).

**Promise.** `Carrying` is what the mapping needs: while the gateway serves, a
message without a row, and the one whose row the pass is about to delete, has a
copy on the bus or in a turn. `Resting` says what a phase of the boot cannot have
yet. A step moves a message's abstract state in one of few ways (`Kind`,
`KindStep`), and each kind is a step of `InboundPromise` or none.

**SingleCopy.** A message has copies at *stages*: not yet sent, with its channel,
on the bus, in a turn, in a pass. `OneStage` and `NoTwins` say one stage and once
there. They are preserved because of `Owned`: a copy outside a pass has its row
claimed by the process that has the copy, hence no pass claims it; which holds
through a drain only if no claim of this process is stale while it starts up
(`Fresh`), hence `PromptStart`: messages arrive from the boot on, and both drains
reclaim what is stale.

**ClaimHasWorker** (`ServedInv`). The attempt to prove it found that it was false
where two messages share a key: a turn that skips its message returns before it
has deferred `Finish`, and the row stays claimed. The property now excuses skipped
messages, and `SkippedIsReleased` (section 10) states what the code's comment does.

### 11.2 Replies

`Wiring` ties the generations of dispatchers to the reloads, which bounds them.
**ReplyKept** needs that who is about to delete a row has recorded a fate
(`Decided`). **ClaimHasWorker** says that a claimed row is `Tended` or was
`LeftBehind` by a reload; that a process without a reload has a reader for every
queue, and one with a reload for the queue it has for a channel now, is `Readers`.
**ClaimHasWorker**, **SentOnce** and **GoneIsSilent** rest on
`CopyInv`, the stages again: `OneStage`, `NoTwins`, `Unstarted` (no reply is in a
generation yet to start) and `Owned` (a copy outside the pass has a row that is
there and claimed by the process; a process that has ended has none). `SentInv`
adds that a reply a process has sent is about to be settled or has no row.

### 11.3 Subagent tasks

**InjectFresh.** An injection needs the claim to be free. `FreshInv` says that
whenever a parent holds, or a wait is about to answer with, the final result of
the current run, the claim is taken; and that nothing bears the number of a run
that has not begun, so that the reset of the claim in `ContinueTask` is harmless.

**OneLoop.** The status is a token. A goroutine in `Active` may enter the tool
loop without looking at the status again; a task is `Open` when a continuation or
a retry may take it up. `TokenInv`: one goroutine is active at most, and none
while the task is open. It holds for any number of continuations, although the
cancel entry, the channel and the claim are shared.

**FreshSignal, OnlyStopCancels.** Both fail of a task that is continued while
something of an earlier run still moves, because two goroutines then share
`sm.cancels[task.ID]` and `task.doneCh`. `SignalInv` is of the others, in whatever
run they are: every earlier run is over, the entry and the channels are the
current run's or theirs, and only a stop has cancelled it (`OwnRun`). A
continuation of a task that is `Still` begins this anew (`ContinueSignals`).

**NothingLost.** `LossInv` follows the current run of an undisturbed task: up to
`Finish` there is nothing to claim (`Before`); from then on the outcome is with the
parent, with the wait that claimed it, with the callback, or with a registered wait
that will find it unclaimed, or the bus has refused it (`Owed`), and what a wait
holds is the outcome (`Truthful`). The count of waiters is the number of registered
waits, so that the last one to leave is the last; this is where there must be
finitely many.

**StartsAfterDeps** is about two critical sections: `checkDependencies` finds the
dependencies ended under one, the next marks the task running. `DependencyInv` says
that what it found stays true between them. A dependency whose status is terminal
has no goroutine that could reopen it, unless it was stopped or is being retried,
because the status is the token of `TokenInv`; and one that is absent when the poll
looks was absent at the spawn (`missed`), since tasks are not forgotten here.

### 11.4 Cron

`Keeping`: an accepted job is in the rows, and in the memory of a service that
runs, so that a save of either over the other loses nothing. `Scheduling`: an
enabled job to come has a next run or a goroutine. **OneShotOnce** needs that
every copy of a job, stale ones included, agrees with the clock about its next run
(`TimelyInv`), and that a one-shot still ahead or collectable has neither run nor a
goroutine (`Once`); this attempt found the hazard `overdue`. **RemovedNeverRuns** speaks of
runs that have not yet found the job. `Removing`: a removed job is out of the memory
of a service that runs, and out of the rows of one that does not, so that no lookup
finds it.

### 11.5 Group chats

`Placed` says where in its life a group is when it has a batch, turns, or a place
in the manager; that the MoA panel's layer exists is a pigeonhole argument over
the agents that have spoken. `Numbered` extends **IndexUnique** to indices that
are reserved but not recorded; `Bounded` counts turns in flight and those of the
batch that have not begun, and its proof corrected the bound: it is the cap plus
the *width* of a batch. **CardKept** follows the end of a group through memory,
store and signal (`Closing`), the drain (`Awaited`) and a reader between its two
reads (`Reading`). The retention sweep may drop a group whose `done` is closed while
its goroutine has the deferred save to do (`Leaving`): the drain does not know of it,
and the save finds what `FinalSave` wrote.

### 11.6 Handoff

**OneServing.** Nothing in it speaks of files. `LockInv` adds that a process that
works holds the lock of the file it has open (`WorksUnderLock`), that a process
about to lock has one open (`OpenHasFile`), and that, unless a file was removed
under somebody, every open lock file is the one the path names (`OpenIsNamed`).
So two processes that work hold the lock of one inode, which has one holder.

**TeardownBounded.** `TimeInv` says when the hook under way began: a budgeted one
within the budget, a critical one within the budget and the time of the critical
hooks registered later (`CriticalTime` of all less that of those up to it), and a
join within `Allowance`. `CriticalTime` is a sum over any number of hooks, and that
the order of `RunAll` has a first one is induction too; both are proved with
`SmallestExists`, a smallest counterexample, which needs no induction theorem with
an operator to instantiate.

### 11.7 Sessions

**TypeOK** says that every index a save, an eviction or a load uses lies inside
the list it indexes. `TypeInv` adds what that rests on: the dirty indices, the
excluded range and the boundary of an object end within its messages (`Sane`), a
call's snapshot has rows where its kind needs them (`CallsInv`, `Inside`), and the
seqs on disk stay below twice the number of events (`RowsInv`, `Counts`), which
bounds what a full rewrite puts in front.

**CleanIsSaved** speaks of a session at rest; the invariant `Sound` says what holds
on the way there, for as long as no hazard has struck.

- Of each seq from the object's first on, the dirty flags say two things: that its
  row may be missing or too many (`Missing`: a full rewrite is owed, the seq is
  after a pending delete, or new), and that it may hold an old message (`Stale`:
  that, or changed in place, or in an excluded range). `Main` is that the rows are
  as memory has them wherever the flags do not say otherwise. A mutation only has
  to say more than it spoils (`Mutated`, `Edited`), and a session at rest says
  nothing, so that `Main` becomes `Matches` (`SoundMeans`).
- A save in flight of an object that has not changed since its snapshot carries all
  that the flags say is due (`Exact`), and when its statements have landed has done
  it (`Done`), so that the flags may be cleared. One that has been overtaken
  clears nothing; what it will still write is what memory holds or what the flags
  own up to (`Covered`), unless a newer one wrote, which it knows (`Overtook`).
- In between `Main` may be broken, but only by a save that will order a full rewrite
  when it settles or strike a hazard then (`Pledge`, `Doomed`, together `Loose`);
  `Truth` is `Main` and the two items above for when there is none.
- `Disk`, `Shapes` and `Loading` are of the database, a call and a load by
  themselves: rows have no holes unless they are torn, no statement is half done
  after a failure, and a load not overtaken has read what is still there.

**ContextReloads** is about what lies in front of an object: a load reads no row
before the boundary, so each of these must be out of context or folded into the
summary (`Known`; `Passed` for all rows before a seq). `Recalled`, a conjunct of
`Sound`, says so of the boundary when the session is not resident, of the first seq
of the resident object, and of a load between its read and its insertion
(`LoadPassed` and `OpenedHolds` then give the property). A load that finds the
statement of its own boundary failing, and goes on with the boundary it has read,
loses nothing by it; a failing read does, unless there is nothing to read, and that
is `unread`. What keeps it so:

- A compaction moves the first seq over rows it has not read. That they are what
  memory drops needs `RowsFit`: a row is the object's message of its seq, or its
  flags own up to it. Unlike `Main` this also holds while a full rewrite is owed or
  a save will strike, unless rows are torn.
- A save in flight writes nothing but such rows unless it was overtaken, nothing in
  front of the first seq that is not `Known`, and no boundary behind it (`Fair`:
  `Agrees`, `Under`). One that has written and not been overtaken leaves no row
  wrong whose flag it is about to clear (`Finished`, `Leaves`).
- The boundary on disk is at most the first seq, or was put there by a load of a
  session that came and went since; then every row before it is `Known` as well, and
  the next save writes it anew (`Bounded`).

The proof goes action by action (`AddSound` to `SettleSound`). For a statement,
`WriteSound` asks what it does to the live object's rows by kind of save; for a
settling save, `SettleSound` asks which flags it clears. TLC checked `Sound` on the
whole instance of `session_persist`, with `Nat` cut off above the largest seq, and
on random behaviours with up to three goroutines and nine events. Those, and proof
steps that would not go through, showed that the property, true within the bounds
of its run, was false beyond them; the hazards found last (7.2) are what it lacked.

### 11.8 Only model-checked

The liveness properties `PendingSettled`, `NoHungWaiter`, `PendingLeaves`,
`ReplySettles`, `EveryGroupEnds`, `DueRuns` and `TeardownEnds`: liveness under
fairness is out of the installed provers' reach. And one action property of
`SessionPersist`: `EvictKeeps` claims the texts of a session that leaves memory
after its exclusion flags have changed during the eviction's save: `Sound` says
nothing of a save of an object changed since, and would have to be proved once
more with the flags left out. All invariants and all other action properties of the
runs are proved, some of them under the assumptions in the table.

## 12 Limits

- All but `Handoff` have one gateway process at a time: they rely on the instance
  lock, whose window is the hazard `unlinked`.
- Inbound: the durable feature is modelled switched on; switched off, messages
  have no row and nothing is promised. A turn is a step with an outcome. A turn
  that a user stops during the teardown is not told apart from one the teardown
  cancels, and neither are claims by anything but fresh and stale; wall-clock
  jumps are not modelled.
- SQLite statements are atomic and durable once they return; a failing call
  changes nothing.
- Subagents: the sweep of old tasks, the status write to the session store and
  the choice of a task id are left out. The callback's claim, its event
  and its message are one step, so that what is said of an injection is said of
  its claim: a wait that looks at the task between the claim and the message
  returns the result as well, as does one that looks after the message. A task
  continued between the two is `crossed`.
- Outbound: retries within `Send` are outcomes of one step, the count and the
  delete of a poisoned row one step, `FlushPeer`'s kick an earlier `PumpTick`, and
  a dispatcher that is cancelled while idle one that has gone. The pump ticks every
  250 ms and each tick counts an attempt, so that a channel missing for little
  more than a second uses up the attempts; the model has this as any number of
  ticks.
- Groups: the migration of JSON files and failing saves are left out.
- Sessions: one manager has the store for itself. `load.go` says that
  each agent has a manager of its own on the shared store, and that a subagent's
  session is written through one of them and read through another: two resident
  objects of one key, under two locks. Nothing here speaks of those. Metadata and settings, `PruneExcluded`, `EvictImageContent`,
  `DiscardStreamingDraft`, the display snapshots and corrupted rows are left out.
- Cron: edits of a schedule, the migration of JSON files and rows that do not
  decode are left out. A failing `Start` leaves the service idle, which the
  gateway prints as started. The hook that stops the services has 5 s, the drain
  of `Stop` 10 s; `Exit` may come at any point, which covers both.
- Handoff: the release of the lock takes no time, a child polls once in a unit, a
  failing spawn changes nothing; the pid in the file, the Windows fallback,
  restarts by a supervisor and the dry run are left out.
- Not modelled: what section 2 plans (exec approvals, provider cooldown, turn
  markers, background processes, MCP connections), and the components listed as
  `not_modelled` in `PROJECT.json`, each with its reason: sequential code, wire
  protocols, file formats and presentation, or a provider's text, where a model
  checker adds nothing to the tests. They are most of the repository's lines.

## 13 How to run

    tlc -workers 2 -config inbound_replay.cfg MCInbound
    tlapm HandoffProofs.tla

`inbound_*.cfg` go with `MCInbound`, `subagent_*.cfg` with `MCSubagent`,
`outbound_all.cfg` with `MCOutbound`, `group_run.cfg` with `MCGroup`,
`session_*.cfg` with `MCSession`, `cron_jobs.cfg` with `MCCron`, `handoff*.cfg`
with `MCHandoff`. Each takes at most two minutes or three; the largest,
`subagent_resume`, has 5.6 million states, `inbound_faults` 2.4 and
`session_persist` 1.5 million, the others less. The proofs are those of `SpoolProofs`,
`DurableInboundProofs`, `DurableOutboundProofs`, `SubagentTaskProofs`,
`CronProofs`, `GroupRunProofs`, `HandoffProofs` and `SessionPersistProofs`; each
takes a few minutes, the last one ten.

Operators whose comment calls them a mutant or a likely bug (`ChannelRollback`,
`SettledCount`, `LimitAlone` and others) are plausible mistakes in the code. They
are not used by the specifications; putting one in the place of the definition
`PROJECT.json` names makes the property listed with it fail, which shows that the
property depends on that code.
