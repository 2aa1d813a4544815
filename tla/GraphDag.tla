------------------------------ MODULE GraphDag ------------------------------
(***************************************************************************)
(* The DAG engine of the graph executor (graph/executor_dag.go): one       *)
(* goroutine, the loop, starts a task as soon as its node is triggered and *)
(* a worker slot is free; the workers run concurrently with the loop and   *)
(* report to it through the channel done.  Interrupts drain the workers    *)
(* and save what is left to run; a checkpoint is also saved at the start   *)
(* and at the end.                                                         *)
(*                                                                         *)
(* The loop's phases (pc) and the workers' steps interleave.  Versions     *)
(* seen are recorded by this engine too but never read, and are left out.  *)
(***************************************************************************)
EXTENDS GraphChannels, Integers, Sequences, SequencesExt

CONSTANTS
  MaxConcurrency,  \* ExecutorOptions.MaxConcurrency
  Again            \* the graphs whose lineage is run again after it completed

ASSUME DagAssumption == MaxConcurrency \in Nat \ {0} /\ Again \subseteq Graphs

VARIABLES
  pc,        \* the phase of dagLoop.run, or how the last execution ended
  ready,     \* dagLoop.ready, the nodes of the tasks to start, in order
  inFlight,  \* the keys of dagLoop.inFlight
  waiting,   \* dagLoop.waiting: how many tasks wait behind the one in flight
  sem,       \* the worker slots taken
  done,      \* the results sent to the loop and not yet received
  work,      \* the running goroutines by task id: node, progress, result
  nextStep, executed,
  draining,  \* dagLoop.draining and why: "no", "error", "steps" or "interrupt"
  intr,      \* dagLoop.pendingIntr and pendingIntrStep
  paused,    \* dagLoop.pauseRequested
  rerun,     \* dagLoop.rerunNodes
  pendT,     \* ExecutionContext.pendingTasks
  ran,       \* State: how often each node has added its update
  skips,     \* State[StateKeyStaticInterruptSkips]
  ext,       \* the pause button was pressed
  ctx,       \* the run's context: "live", "forced" by the pause or "canceled"
  ckpt,      \* the last checkpoint of the lineage
  answers,   \* the nodes whose interrupt the human has answered
  crashes, pauses, failedSaves,
  stopped    \* history: tasks of each node that ended with an error

graphVars == <<graph, known, answers>>
loopVars  == <<ready, inFlight, waiting, nextStep, executed>>
drainVars == <<draining, intr, paused, rerun>>
workVars  == <<sem, done, work>>
chanVars  == <<chan, pendW, pendT>>
envVars   == <<ext, ctx, crashes, pauses>>
saveVars  == <<ckpt, failedSaves>>
stateVars == <<ran, skips>>
vars == <<graphVars, loopVars, drainVars, workVars, chanVars, envVars, saveVars, stateVars, pc, stopped>>

NoInterrupt == [kind |-> "none", node |-> "none", step |-> -1]
Interrupted(k, n, stp) == draining' = "interrupt" /\ intr' = [kind |-> k, node |-> n, step |-> stp]
NoWork == [i \in {} |-> [node |-> Entry, st |-> "todo", res |-> "ok", to |-> {}]]
None   == [n \in Nodes |-> 0]
Copies(n, k) == [i \in 1..k |-> n]
Count(n, seq) == Cardinality({i \in DOMAIN seq : seq[i] = n})
-----------------------------------------------------------------------------
(***************************************************************************)
(* What is left to run: queued tasks, tasks that did not complete, and     *)
(* nodes their channels trigger.  A trigger of a node that is queued       *)
(* anyway needs no run of its own.                                         *)
(***************************************************************************)
Tasks(n) == Count(n, ready) + waiting[n] + Count(n, pendT) + stopped[n]
              + Cardinality({i \in DOMAIN work : work[i].node = n /\ work[i].res = "ok"
                                                   /\ work[i].st \in {"todo", "wrote"}})
Trigger(n) == IF n \in GetNextNodes THEN 1 ELSE 0
OwedAtLeast == [n \in Nodes |-> IF Tasks(n) > 0 THEN Tasks(n) ELSE Trigger(n)]
OwedAtMost  == [n \in Nodes |-> Tasks(n) + Trigger(n)]

Snapshot(stp, next, writes, node) ==
  [step |-> stp, next |-> next, writes |-> writes, node |-> node,
   vers |-> [c \in Channels |-> chan[c].ver], seen |-> [c \in Channels |-> chan[c].seen],
   ran |-> ran, skips |-> skips, atLeast |-> OwedAtLeast, atMost |-> OwedAtMost]
NoCheckpoint == [step |-> -2]

\* Mutant of Save: the checkpoint is dropped.
SaveNever(k) == UNCHANGED saveVars
Save(k) == \/ ckpt' = k /\ UNCHANGED failedSaves
           \/ ckpt' = ckpt /\ failedSaves < MaxFailedSaves /\ failedSaves' = failedSaves + 1
\* PutFull under the run's own context also fails when that context is done.
SaveInRun(k) == Save(k) \/ (ctx # "live" /\ UNCHANGED saveVars)
-----------------------------------------------------------------------------
(***************************************************************************)
(* Execute: newDagLoop and seed.                                           *)
(***************************************************************************)
NewLoop(seed, stp) ==
  /\ ready' = seed /\ inFlight' = {} /\ waiting' = None /\ nextStep' = stp /\ executed' = FALSE
  /\ draining' = "no" /\ intr' = NoInterrupt /\ paused' = FALSE /\ rerun' = <<>>
  /\ sem' = 0 /\ done' = <<>> /\ work' = NoWork /\ pendT' = <<>>
  /\ ext' = FALSE /\ ctx' = "live" /\ stopped' = None

Startable == pc \in {"idle", "failed", "interrupted"}
StartFresh ==
  /\ Startable /\ ckpt = NoCheckpoint
  /\ pc' = "input" /\ NewLoop(<<Entry>>, 0)
  /\ chan' = [c \in Channels |-> EmptyChannel] /\ pendW' = EmptyBag
  /\ ran' = None /\ skips' = {}
  /\ UNCHANGED <<graphVars, crashes, pauses, saveVars>>
InputCheckpoint ==
  /\ pc = "input" /\ pc' = "loop"
  /\ SaveInRun(Snapshot(-1, <<Entry>>, EmptyBag, "none"))
  /\ UNCHANGED <<graphVars, loopVars, drainVars, workVars, chanVars, envVars, stateVars, stopped>>

\* applyExecutableNextNodes: the next nodes only count when no write is replayed.
ExecutableNextNodes(k) == IF k.writes = EmptyBag THEN k.next ELSE <<>>
Resume ==
  /\ Startable \/ (pc = "completed" /\ graph \in Again)
  /\ ckpt # NoCheckpoint /\ pc' = "resumed"
  /\ NewLoop(ExecutableNextNodes(ckpt), ckpt.step + 1)
  /\ chan' = [c \in Channels |-> Replayed(ckpt, c)] /\ pendW' = ckpt.writes
  /\ ran' = ckpt.ran /\ skips' = ckpt.skips
  /\ answers' = answers \cup ({ckpt.node} \cap Nodes)
  /\ UNCHANGED <<graph, known, crashes, pauses, saveVars>>
Execute == StartFresh \/ Resume
-----------------------------------------------------------------------------
(***************************************************************************)
(* The loop.                                                               *)
(***************************************************************************)
Scheduling == draining = "no" /\ ~paused

MaybeRequestExternalInterrupt ==
  /\ pc \in {"loop", "resumed"} /\ pc' = "start"
  /\ paused' = (paused \/ (draining = "no" /\ ext))
  /\ UNCHANGED <<graphVars, loopVars, draining, intr, rerun, workVars, chanVars, envVars, saveVars,
                 stateVars, stopped>>

\* startTask of the head of ready.  A breakpoint is looked at, and its skip used
\* up, before the worker slot and the step are taken.
HeadTask == Head(ready)
\* Mutant of InFlight: tasks of one node are not serialized.
InFlightNever(n) == FALSE
InFlight(n) == n \in inFlight
\* Mutant of TryAcquireWorker: one slot too many.
TryAcquireOneMore == sem <= MaxConcurrency
TryAcquireWorker == sem < MaxConcurrency
Breaks(n) == n \in BreakBefore /\ n \notin skips
UNCHANGED_Start == UNCHANGED <<graphVars, executed, paused, rerun, done, chanVars, envVars, saveVars,
                               ran, stopped>>
StartBehind ==
  /\ InFlight(HeadTask)
  /\ ready' = Tail(ready) /\ waiting' = [waiting EXCEPT ![HeadTask] = @ + 1]
  /\ UNCHANGED <<pc, inFlight, nextStep, draining, intr, sem, work, skips>>
StartBreak ==
  /\ ~InFlight(HeadTask) /\ Breaks(HeadTask)
  /\ skips' = skips \cup {HeadTask} /\ Interrupted("before", HeadTask, nextStep)
  /\ UNCHANGED <<pc, ready, inFlight, waiting, nextStep, sem, work>>
StartNoSlot ==
  /\ ~InFlight(HeadTask) /\ ~Breaks(HeadTask) /\ ~TryAcquireWorker
  /\ skips' = skips \ {HeadTask} /\ pc' = "plan"
  /\ UNCHANGED <<ready, inFlight, waiting, nextStep, draining, intr, sem, work>>
StartNoStep ==
  /\ ~InFlight(HeadTask) /\ ~Breaks(HeadTask) /\ TryAcquireWorker /\ nextStep >= MaxSteps
  /\ skips' = skips \ {HeadTask} /\ draining' = "steps"
  /\ UNCHANGED <<pc, ready, inFlight, waiting, nextStep, intr, sem, work>>
Launch ==
  /\ ~InFlight(HeadTask) /\ ~Breaks(HeadTask) /\ TryAcquireWorker /\ nextStep < MaxSteps
  /\ skips' = skips \ {HeadTask} /\ ready' = Tail(ready)
  /\ inFlight' = inFlight \cup {HeadTask} /\ sem' = sem + 1 /\ nextStep' = nextStep + 1
  /\ work' = [i \in DOMAIN work \cup {nextStep} |->
                IF i = nextStep THEN [node |-> HeadTask, st |-> "todo", res |-> "ok", to |-> {}]
                ELSE work[i]]
  /\ UNCHANGED <<pc, waiting, draining, intr>>
StartTask ==
  /\ pc = "start" /\ Scheduling /\ ready # <<>>
  /\ StartBehind \/ StartBreak \/ StartNoSlot \/ StartNoStep \/ Launch
  /\ UNCHANGED_Start
StartedAll ==
  /\ pc = "start" /\ ~(Scheduling /\ ready # <<>>) /\ pc' = "plan"
  /\ UNCHANGED <<graphVars, loopVars, drainVars, workVars, chanVars, envVars, saveVars, stateVars, stopped>>

\* planDagTasks: the fan-out tasks, then the triggered nodes, each channel consumed.
\* The order of the nodes is fixed but of no importance.
Planned == pendT \o SetToSeq(GetNextNodes)
PlanDagTasks ==
  /\ pendT' = <<>>
  /\ chan' = [c \in Channels |-> IF c \in Available \cap known THEN Acknowledge(c) ELSE chan[c]]

PlanIfIdle ==
  /\ pc = "plan" /\ pc' = "final"
  /\ IF Scheduling /\ ready = <<>> THEN ready' = Planned /\ PlanDagTasks
                                   ELSE UNCHANGED <<ready, chan, pendT>>
  /\ UNCHANGED <<graphVars, inFlight, waiting, nextStep, executed, drainVars, workVars, pendW,
                 envVars, saveVars, stateVars, stopped>>
-----------------------------------------------------------------------------
(***************************************************************************)
(* tryFinalize.                                                            *)
(***************************************************************************)
\* Mutant of Drained: a worker that gave its slot back counts as reported.
DrainedSlots == sem = 0
Drained == inFlight = {}
UNCHANGED_Final == UNCHANGED <<graphVars, loopVars, drainVars, workVars, chan, pendT, envVars,
                               stateVars, stopped>>
WaitingTasks == LET ts == SetToSeq(UNION {{n} \X (1..waiting[n]) : n \in Nodes})
                IN [i \in DOMAIN ts |-> ts[i][1]]
SnapshotNextNodes ==
  LET queued == ready \o WaitingTasks \o rerun
  IN queued \o SetToSeq(GetNextNodes \ ToSet(queued))
\* Mutant of WithNode: the node is put first although it is queued.
WithNodeAlways(next, n) == <<n>> \o next
\* handleInterrupt puts the interrupted node first unless it is listed.
WithNode(next, n) == IF n \notin ToSet(next) THEN <<n>> \o next ELSE next

FinalizeInterrupt ==
  /\ pc = "final" /\ Drained /\ draining = "interrupt"
  /\ LET next == IF intr.kind \in {"internal", "before"}
                 THEN WithNode(SnapshotNextNodes, intr.node) ELSE SnapshotNextNodes
         node == IF intr.kind = "internal" THEN intr.node ELSE "none"
     IN Save(Snapshot(intr.step, next, EmptyBag, node))
  /\ pc' = "interrupted" /\ UNCHANGED pendW /\ UNCHANGED_Final
\* startRequestedExternalInterrupt, and the interrupt is finalized at once.
FinalizePause ==
  /\ pc = "final" /\ Drained /\ draining = "no" /\ paused
  /\ Save(Snapshot(nextStep - 1, SnapshotNextNodes, EmptyBag, "none"))
  /\ pc' = "interrupted" /\ UNCHANGED pendW /\ UNCHANGED_Final
FinalizeDrained ==
  /\ pc = "final" /\ Drained /\ draining \in {"error", "steps"}
  /\ pc' = IF draining = "error" THEN "failed" ELSE "completed"
  /\ UNCHANGED <<pendW, saveVars>> /\ UNCHANGED_Final
\* maybeCreateFinalCheckpoint keeps the writes of the whole execution.
FinalCheckpoint ==
  /\ pc = "final" /\ Drained /\ Scheduling /\ ready = <<>>
  /\ \/ /\ executed /\ pendW' = EmptyBag
        /\ SaveInRun(Snapshot(nextStep - 1, SetToSeq(GetNextNodes), pendW, "none"))
     \/ ~executed /\ UNCHANGED <<pendW, saveVars>>
  /\ pc' = "completed" /\ UNCHANGED_Final
NotFinal ==
  /\ pc = "final" /\ (~Drained \/ (Scheduling /\ ready # <<>>))
  /\ pc' = "wait" /\ UNCHANGED <<pendW, saveVars>> /\ UNCHANGED_Final
TryFinalize == FinalizeInterrupt \/ FinalizePause \/ FinalizeDrained \/ FinalCheckpoint \/ NotFinal
-----------------------------------------------------------------------------
(***************************************************************************)
(* waitForEvent: a result of a worker, or the end of the context.          *)
(***************************************************************************)
ResultOk(r, woken) ==
  /\ r.res = "ok" /\ executed' = TRUE /\ UNCHANGED rerun
  /\ \/ /\ draining = "no" /\ r.node \in BreakAfter
        /\ Interrupted("after", r.node, r.id)
        /\ ready' = ready \o woken /\ UNCHANGED <<chan, pendT>>
     \/ /\ Scheduling /\ r.node \notin BreakAfter
        /\ ready' = ready \o woken \o Planned /\ PlanDagTasks /\ UNCHANGED <<draining, intr>>
     \/ /\ ~Scheduling /\ (draining = "no" => r.node \notin BreakAfter)
        /\ ready' = ready \o woken /\ UNCHANGED <<chan, pendT, draining, intr>>

\* Mutant of RerunNode: only the interrupted node is run again.
RerunNodeNever(r) == UNCHANGED rerun
\* recordRerunNode, once pendingIntr is set.
RerunNode(r) == rerun' = Append(rerun, r.node)
ResultError(r, woken) ==
  /\ r.res # "ok" /\ ready' = ready \o woken /\ UNCHANGED <<executed, chan, pendT>>
  /\ \/ /\ draining = "interrupt" /\ RerunNode(r) /\ UNCHANGED <<draining, intr>>
     \/ /\ draining \in {"error", "steps"} /\ UNCHANGED <<draining, intr, rerun>>
     \/ /\ draining = "no" /\ ctx = "forced"
        /\ Interrupted("forced", "none", nextStep - 1) /\ RerunNode(r)
     \/ /\ draining = "no" /\ ctx # "forced" /\ r.res = "interrupt"
        /\ Interrupted("internal", r.node, r.id) /\ UNCHANGED rerun
     \/ /\ draining = "no" /\ ctx # "forced" /\ r.res = "error"
        /\ draining' = "error" /\ UNCHANGED <<intr, rerun>>


\* Mutant of WakeWaiting: the tasks are queued and kept.
WakeWaitingKept(n) == UNCHANGED waiting
WakeWaiting(n) == waiting' = [waiting EXCEPT ![n] = 0]

\* The first select of waitForEvent finds no result; the second takes whichever comes.
PollDone ==
  /\ pc = "wait" /\ done = <<>> /\ pc' = "select"
  /\ UNCHANGED <<graphVars, loopVars, drainVars, workVars, chanVars, envVars, saveVars, stateVars, stopped>>
HandleTaskResult ==
  LET r == Head(done) IN
  /\ pc \in {"wait", "select"} /\ done # <<>> /\ pc' = "loop"
  /\ done' = Tail(done) /\ inFlight' = inFlight \ {r.node}
  /\ WakeWaiting(r.node)
  /\ LET woken == Copies(r.node, waiting[r.node]) IN ResultOk(r, woken) \/ ResultError(r, woken)
  /\ UNCHANGED <<graphVars, nextStep, paused, sem, work, pendW, envVars, saveVars, stateVars, stopped>>
HandleContextDone ==
  /\ pc = "select" /\ ctx # "live" /\ pc' = "loop"
  /\ \/ draining # "no" /\ UNCHANGED <<draining, intr>>
     \/ draining = "no" /\ ctx = "forced" /\ Interrupted("forced", "none", nextStep - 1)
     \/ draining = "no" /\ ctx = "canceled" /\ draining' = "error" /\ UNCHANGED intr
  /\ UNCHANGED <<graphVars, loopVars, paused, rerun, workVars, chanVars, envVars, saveVars, stateVars,
                 stopped>>
-----------------------------------------------------------------------------
(***************************************************************************)
(* The workers: launchTask's goroutine and executeSingleTask in it.        *)
(***************************************************************************)
At(i, st) == work[i].st = st
Progress(i, st, res, to) ==
  work' = [work EXCEPT ![i] = [node |-> @.node, st |-> st, res |-> res, to |-> to]]
UNCHANGED_Work == UNCHANGED <<graph, answers, loopVars, drainVars, envVars, saveVars, skips, pc>>

\* handleNodeResult: the update, then the static edges, the GoTo or the fan-out.
ResultState(i, o) ==
  LET n == work[i].node IN
  /\ o.kind = "state" /\ Progress(i, "wrote", "ok", o.to)
  /\ chan' = WriteAll(Writers(n), n) /\ pendW' = PendingAll(Writers(n), n)
  /\ UNCHANGED <<known, pendT>>
ResultGoTo(i, o) ==
  LET cs == {<<"trigger", m>> : m \in o.to} IN
  /\ o.kind = "goto" /\ Progress(i, "wrote", "ok", {})
  /\ chan' = WriteAll(cs, work[i].node) /\ pendW' = PendingAll(cs, work[i].node)
  /\ known' = known \cup cs /\ UNCHANGED pendT
ResultFanOut(i, o) ==
  /\ o.kind = "fan" /\ Progress(i, "wrote", "ok", {})
  /\ pendT' = pendT \o SetToSeq(o.to) /\ UNCHANGED <<chan, pendW, known>>
RunWorker(i) ==
  /\ At(i, "todo")
  /\ \E o \in Outcomes[work[i].node] : ResultState(i, o) \/ ResultGoTo(i, o) \/ ResultFanOut(i, o)
  /\ ran' = [ran EXCEPT ![work[i].node] = @ + 1]
  /\ UNCHANGED <<sem, done, stopped>> /\ UNCHANGED_Work
\* processConditionalEdges, then the wait for the consumer.
FinishWorker(i) ==
  LET cs == {<<"branch", m>> : m \in work[i].to} IN
  /\ At(i, "wrote") /\ Progress(i, IF NodeBarrier THEN "waiting" ELSE "ended", "ok", {})
  /\ chan' = WriteAll(cs, work[i].node) /\ pendW' = PendingAll(cs, work[i].node)
  /\ known' = known \cup cs
  /\ UNCHANGED <<ran, pendT, sem, done, stopped>> /\ UNCHANGED_Work
ReleaseBarrier(i) ==
  /\ At(i, "waiting") /\ Progress(i, "ended", "ok", {})
  /\ UNCHANGED <<ran, chanVars, known, sem, done, stopped>> /\ UNCHANGED_Work

StopWorker(i, res) ==
  /\ Progress(i, "ended", res, {}) /\ stopped' = [stopped EXCEPT ![work[i].node] = @ + 1]
  /\ UNCHANGED <<ran, chanVars, known, sem, done>> /\ UNCHANGED_Work
InterruptWorker(i) ==
  /\ At(i, "todo") /\ work[i].node \notin answers
  /\ \E o \in Outcomes[work[i].node] : o.kind = "interrupt"
  /\ StopWorker(i, "interrupt")
\* The node's function or, after its writes, the condition of its edge fails.
FailWorker(i) ==
  /\ At(i, "todo") \/ (At(i, "wrote") /\ work[i].to # {})
  /\ \E o \in Outcomes[work[i].node] : o.kind = "fail"
  /\ StopWorker(i, "error")
\* emitNodeBarrierAndWait gives up after defaultBarrierWaitTimeout.
BarrierTimesOut(i) ==
  /\ At(i, "waiting")
  /\ \E o \in Outcomes[work[i].node] : o.kind = "fail"
  /\ StopWorker(i, "error")
CancelWorker(i) ==
  /\ ctx # "live" /\ (At(i, "todo") \/ At(i, "waiting")) /\ StopWorker(i, "error")

\* Mutant of ReleaseWorker: the slot is lost.
ReleaseWorkerNever(i) ==
  /\ At(i, "ended") /\ Progress(i, "released", work[i].res, {}) /\ sem' = sem
  /\ UNCHANGED <<ran, chanVars, known, done, stopped>> /\ UNCHANGED_Work
ReleaseWorker(i) ==
  /\ At(i, "ended") /\ Progress(i, "released", work[i].res, {}) /\ sem' = sem - 1
  /\ UNCHANGED <<ran, chanVars, known, done, stopped>> /\ UNCHANGED_Work
\* The send blocks while the buffer of done is full.
SendDone(i) ==
  /\ At(i, "released") /\ Len(done) < MaxConcurrency
  /\ done' = Append(done, [id |-> i, node |-> work[i].node, res |-> work[i].res])
  /\ work' = [j \in DOMAIN work \ {i} |-> work[j]]
  /\ UNCHANGED <<ran, chanVars, known, sem, stopped>> /\ UNCHANGED_Work
-----------------------------------------------------------------------------
(***************************************************************************)
(* The environment: the pause button, its timeout, the caller's context,   *)
(* and a crash.                                                            *)
(***************************************************************************)
Active == pc \notin {"idle", "failed", "interrupted", "completed"}
UNCHANGED_Env == UNCHANGED <<graphVars, loopVars, drainVars, workVars, chanVars, saveVars, stateVars,
                             pc, stopped, crashes>>
RequestPause ==
  /\ Active /\ ~ext /\ pauses < MaxPauses /\ ext' = TRUE /\ pauses' = pauses + 1
  /\ UNCHANGED ctx /\ UNCHANGED_Env
ForcePause ==
  /\ Active /\ ext /\ CanForce /\ ctx = "live" /\ ctx' = "forced"
  /\ UNCHANGED <<ext, pauses>> /\ UNCHANGED_Env
CancelRun ==
  /\ Active /\ ctx = "live" /\ pauses < MaxPauses /\ ctx' = "canceled" /\ pauses' = pauses + 1
  /\ UNCHANGED ext /\ UNCHANGED_Env
\* The process dies: the graph is compiled anew, only the checkpoint is left.
Crash ==
  /\ Active \/ pc = "interrupted"
  /\ crashes < MaxCrashes /\ crashes' = crashes + 1
  /\ pc' = "idle" /\ known' = Compiled /\ NewLoop(<<>>, 0)
  /\ chan' = [c \in Channels |-> EmptyChannel] /\ pendW' = EmptyBag
  /\ ran' = None /\ skips' = {}
  /\ UNCHANGED <<graph, answers, pauses, saveVars>>
-----------------------------------------------------------------------------
Init ==
  /\ graph \in Graphs /\ known = Compiled /\ answers = {} /\ pc = "idle"
  /\ ready = <<>> /\ inFlight = {} /\ waiting = None /\ nextStep = 0 /\ executed = FALSE
  /\ draining = "no" /\ intr = NoInterrupt /\ paused = FALSE /\ rerun = <<>>
  /\ sem = 0 /\ done = <<>> /\ work = NoWork /\ pendT = <<>>
  /\ ext = FALSE /\ ctx = "live" /\ stopped = None
  /\ chan = [c \in Channels |-> EmptyChannel] /\ pendW = EmptyBag
  /\ ran = None /\ skips = {} /\ ckpt = NoCheckpoint
  /\ crashes = 0 /\ pauses = 0 /\ failedSaves = 0

WaitForEvent == PollDone \/ HandleTaskResult \/ HandleContextDone
Loop == \/ InputCheckpoint \/ MaybeRequestExternalInterrupt \/ StartTask \/ StartedAll
        \/ PlanIfIdle \/ TryFinalize \/ WaitForEvent
Worker(i) == \/ RunWorker(i) \/ FinishWorker(i) \/ ReleaseBarrier(i) \/ InterruptWorker(i)
             \/ FailWorker(i) \/ BarrierTimesOut(i) \/ CancelWorker(i) \/ ReleaseWorker(i) \/ SendDone(i)
Workers == \E i \in DOMAIN work : Worker(i)
Environment == RequestPause \/ ForcePause \/ CancelRun \/ Crash

Next == Execute \/ Loop \/ Workers \/ Environment
Spec == Init /\ [][Next]_vars

(***************************************************************************)
(* The loop runs, node functions return, and the caller runs the lineage   *)
(* again after an interrupt, a failure or a restart.                       *)
(***************************************************************************)
FairSpec == Spec /\ WF_vars(Loop) /\ WF_vars(Execute)
                 /\ \A i \in 0..(MaxSteps - 1) : WF_vars(i \in DOMAIN work /\ Worker(i))
-----------------------------------------------------------------------------
TypeOK ==
  /\ known \subseteq Channels /\ answers \subseteq Nodes
  /\ pc \in {"idle", "input", "resumed", "loop", "start", "plan", "final", "wait", "select",
             "interrupted", "failed", "completed"}
  /\ ready \in Seq(Nodes) /\ inFlight \subseteq Nodes /\ waiting \in [Nodes -> Nat]
  /\ nextStep \in Nat /\ executed \in BOOLEAN
  /\ draining \in {"no", "error", "steps", "interrupt"} /\ (draining = "interrupt" <=> intr # NoInterrupt)
  /\ paused \in BOOLEAN /\ rerun \in Seq(Nodes) /\ pendT \in Seq(Nodes)
  /\ sem \in 0..MaxConcurrency /\ Len(done) <= MaxConcurrency
  /\ DOMAIN work \subseteq 0..(nextStep - 1)
  /\ chan \in [Channels -> [ver : Nat, avail : BOOLEAN, seen : SUBSET Nodes]]
  /\ IsABag(pendW) /\ BagToSet(pendW) \subseteq Channels \X Nodes
  /\ ran \in [Nodes -> Nat] /\ skips \subseteq Nodes
  /\ ext \in BOOLEAN /\ ctx \in {"live", "forced", "canceled"}

(***************************************************************************)
(* A node's instances never overlap: inFlight and waiting serialize the    *)
(* tasks of one node although its worker slot is given back, and its       *)
(* result sent, before the loop hears of it.                               *)
(***************************************************************************)
OneTaskPerNode == \A i, j \in DOMAIN work : work[i].node = work[j].node => i = j

(***************************************************************************)
(* Everything in flight will be reported: the nodes in flight are those    *)
(* whose goroutine still runs or whose result is on its way, so neither    *)
(* the loop's end nor a checkpoint leaves a worker behind.                 *)
(***************************************************************************)
InFlightReported ==
  Active => /\ inFlight = {work[i].node : i \in DOMAIN work} \cup {r.node : r \in ToSet(done)}
            /\ \A n \in Nodes : waiting[n] > 0 => n \in inFlight
NoneLeftBehind == pc \in {"interrupted", "failed", "completed"} => work = NoWork /\ done = <<>>

(***************************************************************************)
(* A resumed execution owes every run that the checkpointed one owed:      *)
(* queued, waiting and cut-off tasks survive in NextNodes.                 *)
(***************************************************************************)
NothingLost == pc = "resumed" => \A n \in Nodes : OwedAtMost[n] >= ckpt.atLeast[n]

(***************************************************************************)
(* A resumed execution owes no run that the checkpointed one did not owe:  *)
(* a task that completed while the loop drained is not run again.          *)
(***************************************************************************)
NothingRepeated == pc = "resumed" => \A n \in Nodes : OwedAtLeast[n] <= ckpt.atMost[n]

(***************************************************************************)
(* Every execution comes to an end: the loop never waits for an event that *)
(* no worker will send, also when the lineage has completed before.        *)
(***************************************************************************)
ExecutionEnds == []<>(pc \in {"interrupted", "failed", "completed"})

(***************************************************************************)
(* For a graph in which every node is triggered once the workflow ends     *)
(* with the results of all its nodes when the caller runs it again after   *)
(* every stop: breakpoints let the resumed task pass.                      *)
(***************************************************************************)
WorkflowEnds == Once => <>(pc = "completed" /\ \A n \in Nodes : ran[n] > 0)
=============================================================================
