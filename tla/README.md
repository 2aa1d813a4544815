# A TLA+ verification of trpc-agent-go

trpc-agent-go is a Go framework for agents: a *runner* drives *agents* (LLM
agents, chains, cycles, parallel groups, graphs), which call *models* and
*tools*, emit *events* into a *session*, and may spawn background *task runs*.
This directory models the parts of it where concurrency, failure and recovery
decide whether it is correct, checks them with TLC on small instances, and
proves theorems about them with TLAPS for all instances.

## 1. Inventory

| component | state | operations | what is hard |
|---|---|---|---|
| in-process task runs (`agent/taskrun/inprocess`) | map of runs, waiters, cancel functions, a Store with a snapshot of all runs | Spawn, Cancel, Wait, Get, List, Close, the run's goroutine, restart | three locks, saves that fail, a snapshot per goroutine, finalizers and observers called without a lock |
| graph BSP engine (`graph/executor.go`) | channels, versions seen, pending writes and tasks, State, checkpoints | plan, run tasks, route, checkpoint, interrupt, resume | three kinds of interrupt, concurrent tasks, a frontier rebuilt from what a checkpoint holds |
| graph DAG engine (`graph/executor_dag.go`) | ready and waiting tasks, in-flight nodes, semaphore | schedule, run, drain, interrupt | no global steps: completions interleave with planning |
| channels (`graph/internal/channel`) | value, version, availability, barrier senders | Update, Acknowledge, ConsumeIfAvailable, SetBarrierSeen | barriers inside loops, barriers across restarts |
| checkpoint savers (`graph/checkpoint`) | checkpoints and writes per lineage and namespace | PutFull, Get, List, Delete | an atomic save of checkpoint and writes |
| model hedging, failover (`model/hedge`, `model/failover`) | launched candidates, winner | launch by delay or failure, choose, cancel | the race for the first meaningful chunk |
| invocation and barrier (`agent/invocation.go`, `internal/state/barrier`) | notice channels, state | add, wait for, notify, clean up notices | a notice before its waiter, a timeout against a notice |
| runner (`runner/`) | active runs, event loop | Run, Cancel, persist events, notify completions | the producer waits until its event is persisted |
| session (`session/`), summaries (`session/internal/summary`) | sessions, state scopes, summaries, worker queues | AppendEvent, UpdateState, EnqueueSummaryJob, Stop | a full queue, a stop racing an enqueue, cascades |
| flush and steer (`internal/state`) | request channels, queued user messages | Flush, Enqueue, Drain, Close | acknowledgement against cancellation |
| composite agents (`agent/chainagent` ...) | sub-agent streams | merge, escalate, loop | closing merged streams |
| LLM flow and processors (`internal/flow`) | request, response, tool calls | preprocess, call, postprocess | parallel tool calls |
| memory (`memory/`) | memories, auto-extraction queue | add, search, enqueue | as summaries |
| OpenClaw cron (`openclaw/internal/cron`) | jobs, the running execution of each, one file | Add, Update, Remove, RunNow, the loop's trigger, execute, finish, Close, restart | overlapping executions told apart by a token, a file written by everyone, limits that hold across crashes |
| servers, knowledge, evaluation, code executors, plugins, skills, the rest of OpenClaw, telemetry | see `PROJECT.json` | | mostly translation and I/O |

How they interact: the runner creates an *invocation* and calls the agent's
`Run`, which returns a channel of events. Graph nodes and LLM flows write
events to that channel; an event that requires completion is followed by a wait
on a notice channel, which the runner notifies after it persisted the event.
The graph executor persists its own checkpoints through a saver; the task run
service runs an agent per run in a goroutine of its own and persists the runs
through a Store. Session services call the summary worker after events were
appended. OpenClaw's scheduler calls the runner as any other user of it does, and
is called through a tool of the agent.

What makes each part correct:

* task runs: a terminal status means the child has exited; it is final, in
  memory and in the Store; an observer only hears of what is stored; the
  finalizer runs once; a cancellation sticks; Wait, Cancel and Close end;
* graph: an interrupted, crashed and resumed execution runs what the
  uninterrupted one would have run, nothing less and nothing twice; joins wait
  for all senders and run once; the workflow ends;
* hedging: one winner, all losers canceled, an answer whenever a candidate has
  one; failover: no fallback after the first chunk;
* runner and notices: no producer waits for ever, no notice is lost;
* summaries: accepted jobs are run, Stop returns;
* scheduler: executions of a job do not overlap unless it asks for that; a slot is
  begun once, limits hold over all processes; what was removed, disabled, replaced
  or closed delivers nothing; the file never falls back; Close returns.

`PROJECT.json` lists every component with its status and, under `hazards`, the
places in the code that a test hardly reaches, with the properties aimed at
them.

## 2. Plan

| order | module | composes / implements | state |
|---|---|---|---|
| 1 | `TaskRunService`, `TaskRunServiceProofs` | | modelled, checked, proved |
| 2 | `GraphChannels`, `GraphChannelsProofs` | what both graph engines share | modelled, a lemma per operation |
| 3 | `GraphBsp` | `GraphChannels`, saver, interrupts, resumption | modelled, checked |
| 4 | `GraphDag` | `GraphChannels`, the eager scheduler and its workers | modelled, checked |
| 5 | `FirstAnswer`; `Hedge`, `HedgeProofs` | what a caller is promised; `Hedge` implements it | modelled, checked, proved with the refinement |
| 6 | `Transcript`; `RunnerLoop`, `RunnerLoopProofs` | what a run promises about its session; the flow, its notices, the forwarder, the event loop, flush, steering and the consumer composed implement it | modelled, checked, proved with the refinement |
| 7 | `GraphDagProofs`, `GraphDagResumeProofs` | the bookkeeping and the types of `GraphDag` and what its resumption owes, for every graph and pool size | proved |
| 8 | `CronService` | the loop, executions, users, the file, Close and restarts | modelled, checked |
| 9 | `CronProofs` | the types, the four safety and both action properties of `CronService`, for any jobs, users and executions | proved |
| 10 | `SummaryWorker` | worker pool with bounded queues, Stop | later |
| 11 | `GraphBspProofs` | the types of `GraphBsp` for every graph; what its resumption owes, its joins and its completion, for executions that resume from no misleading checkpoint, and graphs whose executions never do | proved |
| 12 | `DurableWorkflow` | abstract: a set of owed runs that survives stops; `GraphBsp` on plain graphs implements it | later |
| 13 | `GraphBspProofs` | the same for graphs whose nodes fan out: which pauses find the queue of fan-out tasks empty | later |

The runs: one passing run per component with its crashes, timeouts and full
queues, and a violation run only where code and documentation disagree. Bounds stay at two or three actors of a kind, one failure and one
crash. None of the modules to be proved about declares a RECURSIVE operator.

## 3. The modules and the code

### `TaskRunService` (agent/taskrun/inprocess)

A step is one critical section of `Service.mu`, or one call the code makes
without it: the two halves of `persist` (the snapshot under `persistMu`, then
`Store.Save`), the finalizer, the observer, the child runner. Between any two
steps every other goroutine may move.

| TLA+ | Go |
|---|---|
| `runs`, `running`, `waiters`, `persistMu`, `base` | fields of `Service`; a run is reduced to its status |
| `store` | what `Store.Load` would return |
| `pc`, `tgt`, `view`, `snap` | where each goroutine is, the run it handles, the views it carries between locks |
| `SpawnInsert`, `SpawnRollback`, `SpawnLaunch` | `Spawn`: insert, persist, roll back, launch, notify |
| `Worker` (`MarkRunning` to the wakeup) | `execute`, `finishRun` and what they call |
| `MarkCanceled` ... | `Cancel`, `finalizeCanceledRun` |
| `WaitCall`, `WaitWoken`, `WaitGiveUp` | `Wait` and `removeWaiter` |
| `CloseCancel`, `CloseWaited` | `Close`, `stopAllRunning` |
| `Crash`, `Start` | the process dies; `NewService` normalises what it loads |

`FreshIDs` tells the two ways ids come to be apart: uuids of the service, or ids
that callers choose and may use again.

### `GraphChannels`

The compiled graph as a record (`graph`: nodes, entry, edges, join senders,
breakpoints, what each node's function may do), the channels (version,
availability, barrier senders), pending writes, and the rebuilding of channels
from a checkpoint. `graph` is a variable that never changes: TLC starts from
every graph of the constant `Graphs`, so one run covers graphs of different
shapes. A channel's value is left out: triggering does not depend on it. The
virtual End node is left out because nothing is scheduled for it.

### `GraphBsp` (graph/executor.go)

| TLA+ | Go |
|---|---|
| `pc`, `step`, `tasks`, `err` | `runBspLoop`/`runBspStep`, the tasks of `executeStep` and its first error |
| `saw`, `base`, `resumed` | `versionsSeen`, `lastCheckpoint.VersionsSeen`, `resumed` |
| `pendT`, `pendW`, `nextN`, `skips` | `pendingTasks`, `pendingWrites`, `StateKeyNextNodes`, `StateKeyStaticInterruptSkips` |
| `ckpt` | the latest checkpoint of the lineage, with its pending writes |
| `StartFresh`, `InputCheckpoint`, `Resume` | `executeGraph`, `resumeOrInitWithSaver`, `applyPendingWrites` |
| `Plan` | `planStep`: next nodes, fan-out tasks, entry, or triggered nodes, in that order |
| `RunTask`, `FinishTask`, `ReleaseTask`, `BarrierTimesOut` | `handleNodeResult`, then `updateVersionsSeen` and `processConditionalEdges`, then `emitNodeBarrierAndWait`: three steps that interleave with those of the step's other tasks |
| `InterruptTask`, `FailTask`, `FailCondition`, `CancelTask` | the ways a task ends early |
| `InternalInterrupt`, `ForcedInterrupt`, `StaticInterrupt...`, `ExternalInterruptBeforeStep` | the callers of `handleInterrupt` |
| `LoopCheckpoint` | `createCheckpointAndSave` |

`ckpt.owed` is a history field: what the execution still had to run when the
checkpoint was taken, computed from the live execution. `NothingLost` and
`NothingRepeated` compare it with what the resumed execution has to run.
`replaying`, with its copy `ckpt.replayed`, is history too: the writes that a
resumption replayed are still among `pendingWrites`, as they are until the next loop
checkpoint takes them. Only the proofs read it.

### `GraphDag` (graph/executor_dag.go)

The loop's phases are steps (`loop`, `start`, `plan`, `final`, `wait`,
`select`: one per call in `dagLoop.run`, the two selects of `waitForEvent`
apart), one task is started per step, and each worker takes its own steps: run,
finish, wait for the consumer, give the slot back, send the result. `sem` and
`done` are the semaphore and the bounded result channel; the send blocks when
the buffer is full. `draining` and `intr` are the drain flags and `pendingIntr`.
As a queued task and a trigger of the same node are merged by
`snapshotNextNodes`, what is owed is an interval here (`atLeast`, `atMost`).

### `Hedge` and `FirstAnswer` (model/hedge)

`Hedge` has the loop of `hedgeRun` and one goroutine per launched candidate;
they share the bounded event channel and the context. A response is reduced to
its kind: a chunk without content, a meaningful one, an error. Time is the
number of launch offsets that have passed (`due`), apart from the time the loop
has last read (`now`).

| TLA+ | Go |
|---|---|
| `winner`, `active`, `failures`, `next` | `winnerIndex`, `activeCount`, `failures`, `nextLaunchIndex` |
| `events`, `attempt`, `box` | `eventChan`, where `runAttempt` is, the event it is sending |
| `Say`, `EndStream`, `Send`, `GiveUp`, `Report` | the candidate's stream, and `runAttempt` with `sendAttemptEvent`'s select |
| `Begin`, `Drained`, `Launch`, `NoneToLaunch`, `Check` | `run`, and the parts of `advance` in their order |
| `HandleEvent` (`Choose`, `Forward`) | `handleEvent` without and with a winner |
| `TimerFires`, `ContextDone` | the other cases of `wait`'s select |
| `End` | `finish` and `close`, which cancels whatever is left |

`FirstAnswer` is the caller's view: one candidate's chunks, from its first
meaningful one on, in their order and without a gap, then an end that fits.

### `RunnerLoop` and `Transcript` (runner, llmflow, llmagent, invocation, flush, steer)

Three goroutines per run, the consumer and the user, connected by three bounded
channels. The flow stops at every point where it sends, waits or decides; the
event loop at every send, receive, append and notification.

| TLA+ | Go |
|---|---|
| `fpc`, `round`, `pending` | where `Flow.Run` is, its model step, the drained messages it has yet to emit |
| `awaited`, `woken`, `notice` | `AddNoticeChannelAndWait`, the channel it selects on, `noticeChannels` |
| `flowCh`, `agentCh`, `outCh` | the channels of the flow, of `LLMAgent` and of `Run` |
| `lpc`, `cur`, `flushing` | where `runEventLoop` is, the event it handles, whether inside `handleFlushRequest` |
| `ask` | the flush request of the tool that runs |
| `queue`, `qopen` | the steering queue |
| `attached` | the flusher, the appender and the queue, which the deferred functions of the loop clear |
| `EmitStart`, `AddNotice`, `Woken`, `TimesOut`, `WaitEndsWithContext` | `emitStartEventAndWait` and the wait itself |
| `Drain`, `Say` | `maybeConsumeQueuedUserMessages` |
| `ModelAnswers`, `StepFails`, `StepPanics`, `ToolFlushes`, `ToolsReturn`, `Answer`, `Complain` | one model step and its tool calls |
| `Forward`, `CloseAgent` | `wrapEventChannelWithTelemetry` |
| `TakeEvent`, `Persist`, `Notify`, `Emit` | `processSingleAgentEvent` |
| `TakeFlush`, `FlushEnds` | `handleFlushRequest` |
| `Complete` to `CancelRun` | the completion event and the deferred functions, in their order |
| `Enqueue`, `Discard`, `ContextEnds` | `EnqueueUserMessage`, `CancelQueuedUserMessages`, cancellation or the run's deadline |

An emission (`EmitEvent` looks at the context, then selects) is one step, a
failed append is logged by the code and so lets the event go on, and
`failed` and `late` remember what went wrong. `Transcript` knows nothing of
goroutines: entries are stored in the order of the conversation and once, a
message in its turn and never after it was discarded, and nothing after the
end. Its one exception is in the code as well: past the deadline a flow appends
a tool result itself, while the event of the call may still be on its way.

Whether the run is still in the Runner's map is no variable: `EnqueueUserMessage`,
`CancelQueuedUserMessages` and `Cancel` look the run up under a lock, release it and
use what they found later, so `unregisterRun` keeps nobody from a queue or a cancel
function found before. `Enqueue` is refused by a closed queue only, and `Discard`,
which does not look at `closed`, by nothing: it may empty the queue after the consumer
has seen the end, of messages accepted too late for the run to take them. `Transcript`
allows that. The flow's `Drain` may likewise hold a queue it read before `steer.Clear`.

### `CronService` (openclaw/internal/cron)

A step is one critical section of `Service.mu`, one half of `persist`, or a call
without a lock: the agent's run, the delivery. An execution is known by its token,
and the token is also its goroutine; a token whose execution has ended may be
taken again, as uuids are never compared with an ended run's.

| TLA+ | Go |
|---|---|
| `jobs`, `running`, `canceled`, `suppressed` | `Service.jobs`, `Service.running`, and of each `jobRun` its canceled context and `suppressDelivery` |
| `stopping` | the loop's context, parent of the scheduled runs' contexts, is canceled |
| `persistMu`, `snap`, `file` | `persist`, and `jobs.json` |
| `pc`, `exec`, `call` | where each goroutine is, what `executeJob` was given, what a client carries between two locks |
| `TriggerDue`, `LoopSaved`, `LoopExits` | `loop` and `triggerDue`: register and count under the lock, save, start the goroutines |
| `Begin`, `Deliver`, `FinishRun`, `RunSaved` | `executeJob`, `deliveryAllowed`, `finishRun` |
| `Add`, `Remove`, `UpdateReads`, `UpdateWrites`, `ClientSaved` | the users' changes; `Update` takes the lock twice |
| `RunNow`, `RunNowRefused`, `RunNowSaved`, `RunNowRollback` | `RunNow` and `markRunning` |
| `CloseStops`, `CloseCancels`, `CloseWaited`, `CloseSaved` | `Close`, call by call |
| `Restart`, `Loaded` | the process ends anywhere; `NewService` and `normalizeLoadedJob` |

A job is its schedule, `Enabled`, `NextRunAt` and `RunCount`; a cron expression is an
interval, a patch enables, disables or keeps. The history variables say what a
property needs of the past: which executions were withdrawn, which slots a process
has begun, whether an Update overtook another change.

## 4. What the runs show

| run | shows |
|---|---|
| `taskrun_lifecycle` | safety and liveness of the task run service for every interleaving of one run, two clients, one failing save and one crash |
| `taskrun_reused_id` | violation: see findings |
| `bsp_graphs` | six graphs: resumption loses and repeats nothing, joins run once, finished workflows hold each result once, the workflow ends |
| `bsp_join_resumed`, `bsp_both_ask`, `bsp_second_resume`, `bsp_new_process` | violations: see findings |
| `dag_graphs` | five graphs under the DAG engine with two slots: one task per node, nobody left behind, resumption, every execution ends |
| `dag_run_again` | violation: see findings |
| `hedge` | three candidates, two of which may hang: `activeCount` is exact, a meaningful chunk leads to an answer, losers leave, every run ends; the hedge implements `FirstAnswer`: the caller gets the whole answer of one candidate, or a failure after all have failed |
| `runner_loop` | one run with up to two model steps and two steered messages: each request is built on a session that holds all before it, the session is a `Transcript`, every run ends without a timeout's help |
| `cron` | one job of three kinds, two executions, one user and Close, the clock, and two of: a user's call, a failed save, a restart. Executions do not overlap unasked, a slot is begun once, the clock starts nothing beyond the limits, across restarts as well, nothing unwanted is delivered, the file never falls back, Close returns |

Every property of a passing run has a mutant in `PROJECT.json`: a plausible bug
in one definition (for example a slot that is not given back, a barrier that
keeps its senders, a save outside the lock) under which TLC finds the property
violated.

**Bounds.** Task runs share only the Store, `persistMu` and Close; the races
over one run need its goroutine and two clients, and one client may call any
operation any number of times. One failed save and one crash give every
position of each; the proofs cover any number of runs, clients, failures and
crashes. The graphs are small, but each was chosen for a shape: a barrier half
full between steps, sides of different length, conditional and Command routes,
fan-out, a join in a loop, a node triggered three times while it runs.
Three candidates are the fewest with a launch that is neither the first nor
the last; their streams are chosen so that an empty chunk, an error after
content and a stream without content all occur. In the runner, two messages and
two rounds let a message arrive before, between and after the drains; `Cap = 1`
makes every channel block; the filter hides some events from the consumer, and
the consumer may leave at any time. `MaxTrouble = 1` counts failed appends, timed
out waits and ended contexts together (an append may also fail for free once the
context has ended): 826,338 states. The same properties hold with one message
and two troubles (1,162,293 states).
The scheduler starts at time 1 from a file left at time 0, so a job may be overdue or
come due at 2; the loop's tick, at which nothing needs to be due, is not bounded, and
of the three schedules one is skipped while busy, one replaces, and two end (by a
limit, by a window). Two executions are enough for one that was replaced to end
before, between and after each step of its successor. `MaxEvents = 2`: 294,829
states.
`MaxSteps` is reached by the looping graphs only. `maxPauses`, `maxCrashes` and
`maxFailedSaves` bound the environment per graph; two pauses allow an interrupt
of a resumed execution. Deadlock is not checked: a completed execution and an
idle service stop, a closed scheduler too, and a run of the Runner whose consumer has left and whose
context nobody ends may block on the consumer's channel, as `RunEnds` says.

The passing graphs keep clear of situations in which a finding below shows: no
passing BSP or DAG graph interrupts an execution between the satisfaction of a
join and the planning of its run, has two nodes ask in one BSP step, or crashes twice with loop
checkpoints in between. The violation runs are exactly these situations.

**Fairness.** Task runs: Go's `sync.Mutex` is starvation-free, so a goroutine
that wants `persistMu` again and again gets it (strong fairness of `Persist`);
a run's goroutine and a client that is inside a call proceed (weak fairness); a
child runner returns once its context is canceled, as the agents do. Graph
engines: the engine's goroutines proceed and node functions return (weak
fairness of `Engine`, `Loop` and each worker), and the caller runs the lineage
again after every stop (`Execute`), which is how the documentation tells it to
resume. Hedge: the loop and the goroutines proceed, time passes, and a
candidate that does not hang ends its stream, as every candidate does once its
context is done, because models stop with their context. Runner: the flow, the
forwarder, the loop and the reading consumer proceed, each with weak fairness;
nothing is assumed of timeouts, users and contexts, so `RunEnds` shows that the
notices alone wake the flow. Scheduler: the loop, Close and the goroutines proceed,
and an agent stops once its context is done, but not before; Go's select takes one of
its ready cases at random, so the loop does not prefer its ticker to the end of its
context for ever (strong fairness of `LoopExits`). Nothing is assumed of users, of
the clock, or of an agent that nobody cancels. Liveness of graph workflows is stated for graphs whose nodes cannot
fail (`Once`): nothing obliges a failing node to succeed at last.

## 5. What is proved

`TaskRunServiceProofs` proves, for any sets of runs and clients and any bounds:
`TypeCorrect` without assumptions on ids, and under `FreshIDs` the theorems
`ExitedTheorem`, `DurableTheorem`, `FinalizerTheorem`, `CancelTheorem` and the
two action properties `FinalInMap` and `FinalInStore`.

None of these properties is inductive. The invariant that is, `IInv`, adds

* `TypeInv`: the types, and that a view about to be committed is terminal;
* `Ownership`: which goroutine may write which run. `persistMu` has one holder;
  an id not used has nothing; a Spawn in progress owns its id; a run that was
  accepted stays in the map; at each place in its life a run's goroutine finds
  the statuses it expects; the client that finalizes a canceled run is alone;
* `Settling`: a terminal status in the Store is also the one in the map and in
  every snapshot being saved. This is what `persistMu` around snapshot *and*
  save buys, and why an old snapshot cannot overwrite a newer status;
* `FinalizerAhead`, `FinalizerBehind`: before and after the point where the
  finalizer runs, how often it was called;
* `Canceling`: a cancellation that won is visible wherever the run's goroutine
  decides how the run ends.

Each has a lemma with one step per action; `IInvInit`, `IInvStep` and
`IInvImplies` put them together. `FreshIDs` is needed: `taskrun_reused_id` is the
counterexample without it. The constants' assumptions are that ids, clients
and `None` are disjoint and the bounds are naturals.

`HedgeProofs` proves, for any number of candidates and any streams, `TypeCorrect`,
`CountTheorem`, four properties that the runs need not repeat (a failure is reported
only after all have failed, `FailureTheorem`; a run never ends without anything to
report, `SilentTheorem`; a finished answer is whole, `WholeTheorem`; early launches
follow failures only, `EarlyTheorem`) and `Implements`: initial states
of `Hedge` are initial states of `FirstAnswer` and every step is a step of it or
changes nothing the caller sees. Its invariant follows each candidate from its
launch to the last event the loop reads of it: what a goroutine has said is what
was sent, in the channel and read, so the count of active candidates is the
number of last events still unread.

`RunnerLoopProofs` proves, for any number of messages, rounds and troubles, any
capacity and filter: `TypeCorrect`, `HistoryTheorem` and `Implements`, the
refinement of `Transcript`. Its invariant is

* `Places`: a tool's result is awaited before the last round only;
* `Passage`: every event on its way, stored, or with a notice is one the flow has
  passed and will not send again. Hence nothing is stored twice;
* `Steering`: messages are drained and queued in the order of acceptance, and
  discarded ones are neither. Hence a message keeps its turn;
* `LineOrder`, `StoredFirst`: what is stored, held by the loop, and in the two
  channels, are in this order in the transcript's order. Hence appending the next
  event keeps the order;
* `AwaitedLast`, `Synced`: nothing follows the event the flow waits for, so when
  its notice comes the way to the session is empty; it stays so until the model
  is asked. This is `HistoryTheorem`, and why one notice suffices for all events
  of a step;
* `Leaving`: the order of the deferred functions, by which nothing is accepted or
  stored after the consumer saw the end.

`GraphDagProofs` proves, for any graphs and `MaxConcurrency`, what the loop knows
of its workers: `ReportedTheorem`, `SerializedTheorem`, `LeftBehindTheorem` and
`SlotsTheorem`. The invariant says that `inFlight` is exactly the nodes with a
worker or an unread result, that no node has two of these, and that the
semaphore counts the workers that have not given their slot back. Each step that
moves a task (`StartTask`, `SendDone`, `HandleTaskResult`) has a lemma; all others
leave the bookkeeping alone, build it anew, or end an execution when it is
empty.

`GraphDagResumeProofs` proves what the loop owes. Its types (`TypeCorrect`, for any
finite graph) rest on `GraphChannelsProofs`, a lemma per channel operation: what is
written, consumed, or rebuilt from a checkpoint keeps its type, and a join is available
only when all its senders were seen (`Settled`). The rest follows from `Owing`:

* `StoppedOK`: while the loop runs or drains for an interrupt, the tasks of a node that
  ended with an error are its places in `rerun`, plus one if its question is the
  interrupt, plus one if the loop has yet to read the result. `OneTaskPerNode` and
  `IInv` make that last number at most one;
* `BeforeOK`: the task that a breakpoint stopped is still queued;
* `JoinsOK`: routes taken while running add no joins, so the joins that a checkpoint
  brings back are those the process knew;
* `Kept`: what the checkpoint lists and the joins it brings back are, for each node, no
  more than what was owed at most and no less than what was owed at least.

`NothingRepeatedTheorem` and `NothingLostTheorem` compare that with what `Resume`
rebuilds. Their hypotheses are the situations of section 6: a lineage that is run again
after it completed has a checkpoint with writes (`Again`, finding 6); fan-out tasks are
in no checkpoint (`NoFanOut`); and `AskedAlone` says that the node whose question stopped
the execution was not queued a second time. Without it `LostAtMostOneTheorem` is what is
left: the node that asked loses one run and never its last, the others none.

`GraphBspProofs` proves `TypeCorrect` for any graph, and the four other invariants that
the run checks for every execution that stays `Clean`: it may be paused, stopped at
breakpoints before and after nodes, cut off, asked a question, crash and lose
checkpoints as often as it likes, but it resumes neither from writes that a resumption
had replayed already (`Stale`: finding 4) nor from an interrupt taken when a join was
complete (`ReadyJoin`: finding 2). `Clean` is a condition on executions, not on
graphs. Every reachable state of the six graphs of `bsp_graphs` satisfies it: where
their crashes and breakpoints stand, neither happens.

* `NothingRepeatedTheorem`: if no node fans out (`NoFanOut`; fan-out tasks are in no
  checkpoint), a resumed execution owes nothing that was done.
* `NothingLostTheorem`: nor does it lose anything, if the process does not die or
  conditions follow edges of the compiled graph (`StaticRoutes`: finding 5), if a node
  that asks is the only one that can be cut off (`AsksAlone`: finding 3), and if no node
  was owed two runs at once, of which next nodes list one.
* `JoinRunsOnceTheorem`: a node that is reached by its join alone (`OnlyJoined`; another
  way to it is a run of its own) never outruns a sender, if what a pause cuts off has
  not added its result (`CutEarly`).
* `CompletedOnceTheorem`: in an `Undisturbed` graph an execution that reports completion
  before `MaxSteps` has exactly one result of every node. Undisturbed means that each
  node but the entry is reached by one edge or by one join, conditions take those
  edges, every node can be reached, no node fails or fans out, and what is cut off has
  not run. Whether a node can be reached is said by sets (one that holds the entry
  and is closed under edges and joins is all of the graph), which spares an induction
  over the edges. The graphs `Fork`, `Tree` and `Paused` are such; the scatter of
  `Scatter`, which fans out, stays with TLC.
* `TameGraphsTheorem` says which graphs make every execution clean, so that nothing is
  left to assume: none of their nodes fails or fans out, at most once a save fails or the
  process dies, and either nothing stops a step that has begun (`Gentle`) or no node
  waits at a join (`Joinless`). It gives all four properties for these. `Paused` and
  `Tree` are tame.

The inductive invariant is in three layers. `Steady` is about resumption:

* `Quiet`: a node has at most one task in a step, and is next at most once;
* `Stopped`: why a task was cut off, and that the first error tells what may have been:
  the interrupt of a node that asks, a failure, or a forced pause;
* `Drained`: between steps nothing is available that was not planned, and in a step
  whatever is available was written in it. So a pause before a step finds the frontier
  in the tasks alone, and one at its end in the available channels and what is unfinished;
* `Matched`: no node has seen a version its channel does not have yet, and unless writes
  are being replayed those to save are the step's and have been applied;
* `Faithful`: the last checkpoint owes what it lists as next nodes, or, if it has
  writes, what they trigger when they are applied again, and then no node has seen
  their versions. `resumeOrInitWithSaver` and `applyPendingWrites` rely on this either-or;
* `Untouched`: until it has planned, a resumed execution is what that checkpoint says;
* `Routed`: with `StaticRoutes`, or without a crash, every write is to a channel that the
  resuming process knows.

`Joined` is about joins (`Counted`, and `CountedIn` of the checkpoint): for a join's
node, the runs in the State, the run under way or cut off and to be listed again
(`Left`), the places among the next nodes, and the sender in the barrier's set are
together at most the runs of that sender.

`Flowing` is about completion. It makes an equation of it and adds the edges: what a
node has run, has under way and has listed (`Ahead`), and the write that waits on its
edge, is together what the source of the edge has run, and at most one (`Along`); the
entry is ahead by one from its planning on (`Begun`); nothing is written but the compiled
channels (`Within`); a task that has added its result has written its edges (`Going`); and
a completed execution has nothing left (`Ended`). At the end `Ahead` is `ran`, so the
nodes that ran once hold the entry and are closed under edges and joins: all.

`Tamed` counts: it takes a crash or a failed save to resume from writes (`Spared`), and two
to resume from a checkpoint that a replaying execution wrote; and a checkpoint without
writes is taken when nothing is available, or where there is no join (`Mild`).

`CronProofs` proves all but one of the properties of `CronService` (`CloseReturns` is
liveness), for any jobs, schedules, users and tokens: `TypeCorrect`,
`OneAtATimeTheorem`, `WithinPolicyTheorem`, `RestartTheorem` and, of every step,
`EachSlotOnceTheorem` and `NoUnwantedDeliveryTheorem`. Its invariant is

* `TypeInv`: where each goroutine is and what it knows there, and `CopiesAgree`: the
  jobs in the map, in a copy about to be written, in the file and in the hands of an
  `Update` may differ in state but never in schedule, and an enabled one has a next
  run in its window. Registrations point to executions in flight only because of
  where each step leaves `exec`, `pc` and `running` together;
* `Alone`: an execution that nobody told to stop is the registered one of its job;
  two of them would be one. A removed job's run needs a clause of its own, because
  `finishRun` of any execution of a job that is gone clears the registration;
* `Withdrawn`: a withdrawn execution is suppressed or its registration is another's
  for good, which is why asking once, before sending, is enough;
* `SlotOrder`: while a job is unpatched and skips overlaps its executions are one,
  every slot begun lies behind the one it is at, and the next run is that slot or
  nothing until the run ends;
* `Counts`: begun executions, those counted and not begun, and those of a `RunNow`
  that may be taken back are together at most `RunCount`; and the file, or the copy
  on its way there, has counted at least what begun and what a restart cannot take
  back. The copy of the loop also covers what it will release, the others' do not:
  this is what saving before starting the goroutines buys;
* `Window`: the slot of an execution is inside the window of every copy of its job;
* `Durable`: unless somebody is about to copy the jobs, what is being written, or was,
  resumes to the same as the jobs. A change of the clock keeps this because resuming
  twice is resuming once, later (`ResumedLater`).

Jobs and tokens are assumed finite (the map is, and so are the goroutines of a
process); the tokens of a tick are chosen by `CHOOSE`, and finiteness is what makes
the choice exist (`TokensSuffice`).

The assumptions are those the modules name: natural bounds, at least one
candidate, round, slot and place in a channel, and well-formed graphs.

**Only model-checked:** all liveness (fairness and ENABLED are outside the
prover's reach), and what the hypotheses of the theorems about the two graph engines
leave out, the fan-out of `Scatter` and `Round` above all.

## 6. Findings

1. *Task runs, reused ids* (`taskrun_reused_id`): `finalizeCanceledRun` writes by
   id after dropping the lock; a Cancel of a run that a failed Spawn took back
   can mark a later run of the same id canceled while its child executes.
2. *Join after an interrupt* (`bsp_join_resumed`): an interrupt at the end of the
   step that satisfies a join puts the node into `NextNodes` and leaves the
   barrier satisfied; the resumed execution runs it twice.
3. *Two interrupts in one step* (`bsp_both_ask`): only the first is in the
   checkpoint; the other node never runs again.
4. *Second resumption* (`bsp_second_resume`): replayed writes are saved again with
   the next loop checkpoint and trigger completed nodes when that one is resumed.
5. *New process* (`bsp_new_process`): channels of conditional targets exist only
   in the process that took the route; a resumption elsewhere drops their
   writes and completes without the target.
6. *DAG lineage run again* (`dag_run_again`): the tasks that `planIfIdle` queues
   from replayed writes are not started, and the loop waits for a result that
   no worker will send, until the context ends.

Met as well, in most cases about something no document promises, and so without a
run of their own: fan-out tasks still in `pendingTasks` are in no checkpoint, so an
interrupt right after a fan-out loses them (both engines); a task that a forced pause
cuts off while it waits for its consumer (`emitNodeBarrierAndWait`) has added its result
and is listed to run again; a node that asks while it is also triggered by another is
listed once for its two runs; a Wait on a run that
Spawn takes back is not woken; the DAG engine uses up a breakpoint's skip
before it has a worker slot; when a node of a DAG asks while another task of it is
queued, `handleInterrupt` (`graph/executor.go:4778`) finds the node in `NextNodes` and
does not put it there again, so of the two runs one is resumed; a message that is accepted after a run's last drain,
while the queue is still open, is never consumed. A tool that flushes at once may look
at a session without its own call, although `tool/agent/agent_tool.go` says the flush
covers all events before it: `handleFlushRequest` handles what is buffered in the
Runner's own channel and acknowledges when that is empty, while the event of the call
may still be in the flow's channel or with the forwarder.

In the scheduler: `Update` puts its copy back over what happened between its two
locks, so a count is lost and a removed job returns: a job of one run that the clock
counts, begins and finishes in between is enabled and due again, and runs twice
(without its first exception, `WithinPolicy` fails so); `RunNow` also starts a job that
has disabled itself at its `max_runs` (`retireJobLocked` looks at enabled jobs only),
which is why `WithinPolicy` counts the runs the clock starts; a `RunNow` whose save
fails deletes the registration of its job even if it is another's by then; a `RunNow`
that comes after `Close` has stopped the others hangs on `context.Background()`, and `Close`
waits for it; `triggerDue` leaves `NextRunAt` alone until the run ends, so with the
policy "replace" every tick cancels the run of the slot and begins the same slot again,
and a job whose run lasts longer than a tick never finishes. `OneAtATime`,
`WithinPolicy`, `EachSlotOnce` and `CloseReturns` name these cases and leave them out.

## 7. Not modelled

Inside the graph engines: node retries, the node cache, callbacks, subgraphs,
step timeouts, `MaxConcurrency` of the BSP engine, the per-task input snapshots
of a forced pause, time travel and forking, ephemeral and topic channels,
checkpoint history. Retries and the cache happen inside one task before its
result is known; the others are data that no property reads, or are planned.

Around the runner: streaming (a partial event is not stored and nothing waits for
it), saving an interrupted assistant message, plugins and callbacks, results per
tool call, parallel tools and resumed tool calls, the Ralph loop, events of graph
agents, and the sessions' own storage. Only one agent runs: transfers and
composite agents put further flows and forwarders in a row, each as the one
modelled.

Of the scheduler: the parsing of schedules and of the tool's input, run timeouts (an
agent may end at any time anyway), statistics, runtime profiles, traces, and patches
of anything but `Enabled`.

Not at all: model failover is a sequential loop over candidates; session,
summary, memory and checkpoint backends, servers, providers, knowledge,
evaluation, the rest of OpenClaw, skills and telemetry are translation between data formats
or I/O, and most of the repository's lines. `PROJECT.json` lists each with its
reason.
