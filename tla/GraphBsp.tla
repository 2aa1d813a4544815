------------------------------ MODULE GraphBsp ------------------------------
(***************************************************************************)
(* The BSP engine of the graph executor (graph/executor.go): supersteps of *)
(* Plan, Execute and Checkpoint over a graph of nodes joined by channels,  *)
(* with interrupts of three kinds (from inside a node, static breakpoints, *)
(* and a pause button pressed from outside), crashes, and resumption from  *)
(* the lineage's last checkpoint.                                          *)
(*                                                                         *)
(* A node's function is any of its Outcomes.  The graph State is reduced   *)
(* to how often each node has added its update (ran), the skips of static  *)
(* breakpoints and the next-nodes key.                                     *)
(***************************************************************************)
EXTENDS GraphChannels, Integers

VARIABLES
  pc,       \* where runBspStep is, or how the last execution ended
  saw,      \* ExecutionContext.versionsSeen, 0 for "not seen"
  base,     \* lastCheckpoint.VersionsSeen of a resumed execution
  resumed,  \* ExecutionContext.resumed
  pendT,    \* ExecutionContext.pendingTasks, a bag of nodes
  nextN,    \* State[StateKeyNextNodes], a bag of nodes
  step,     \* the superstep
  tasks,    \* the step's tasks: what each has done, and its conditional targets
  err,      \* the first error a task of this step returned
  ran,      \* State: how often each node has added its update
  skips,    \* State[StateKeyStaticInterruptSkips]
  ext,      \* the pause button: "none", "requested" or "forced"
  ckpt,     \* the last checkpoint of the lineage
  answers,  \* the nodes whose interrupt the human has answered
  crashes, failedSaves, pauses,
  fresh,    \* history: resumed and not yet planned
  replaying \* history: resumed with writes, and no loop checkpoint has taken them since

graphVars == <<graph, known, answers>>
stateVars == <<ran, skips, nextN>>
chanVars  == <<chan, saw, pendW>>
runVars   == <<base, resumed, replaying>>
taskVars  == <<tasks, err, pendT>>
envVars   == <<crashes, failedSaves, pauses>>
vars == <<graphVars, stateVars, chanVars, runVars, taskVars, envVars, pc, step, ext, ckpt, fresh>>

\* How often a node is listed.
CopiesOf(n, bag) == IF BagIn(n, bag) THEN bag[n] ELSE 0
-----------------------------------------------------------------------------
(***************************************************************************)
(* What the execution still has to run, as the live execution knows it:    *)
(* the next-nodes key, the fan-out tasks, the nodes its channels trigger   *)
(* and the tasks of the current step that have not completed.              *)
(***************************************************************************)
ShouldTrigger(c) == \/ ~resumed \/ IsJoin(c)
                    \/ chan[c].ver > base[Target(c)][c]
Triggered == {Target(c) : c \in {d \in Available \cap known : ShouldTrigger(d)}}
Unfinished == {t \in DOMAIN tasks : tasks[t].st # "done"}
Owed == [n \in Nodes |-> CopiesOf(n, nextN) + CopiesOf(n, pendT)
                           + (IF n \in Triggered THEN 1 ELSE 0)
                           + Cardinality({t \in Unfinished : t[1] = n})]

NoTasks == [t \in {} |-> [st |-> "todo", to |-> {}]]
TasksOf(bag) == [t \in UNION {{n} \X (1..CopiesOf(n, bag)) : n \in Nodes}
                   |-> [st |-> "todo", to |-> {}]]
NodesOf(ts) == {t[1] : t \in ts}
BagOfTasks(ts) == [n \in NodesOf(ts) |-> Cardinality({t \in ts : t[1] = n})]

NoError == [kind |-> "none", node |-> Entry]
FirstError(kind, n) == IF err = NoError THEN [kind |-> kind, node |-> n] ELSE err

(***************************************************************************)
(* createCheckpointFromState: the State, the channel versions, the barrier *)
(* sets and the versions seen.  The availability of a channel and the      *)
(* fan-out tasks are not part of it.  owed and replayed are history:        *)
(* what the execution owed, and whether it still kept replayed writes.     *)
(***************************************************************************)
NoVersions == [n \in Nodes |-> [c \in Channels |-> 0]]
Snapshot(stp, next, writes, node, sk) ==
  [step |-> stp, next |-> next, writes |-> writes, node |-> node,
   vers |-> [c \in Channels |-> chan[c].ver], seen |-> [c \in Channels |-> chan[c].seen],
   saw |-> saw, ran |-> ran, skips |-> sk, owed |-> Owed, replayed |-> replaying]
NoCheckpoint == [step |-> -2]

Save(k) == \/ ckpt' = k /\ UNCHANGED failedSaves
           \/ ckpt' = ckpt /\ failedSaves < MaxFailedSaves /\ failedSaves' = failedSaves + 1
\* PutFull under the run's own context also fails when the pause was forced.
SaveInRun(k) == \/ Save(k)
                \/ ext = "forced" /\ UNCHANGED <<ckpt, failedSaves>>
-----------------------------------------------------------------------------
(***************************************************************************)
(* Execute: start a new lineage, or resume it from its last checkpoint.    *)
(***************************************************************************)
CleanStep == /\ tasks' = NoTasks /\ err' = NoError /\ pendT' = EmptyBag
             /\ ext' = "none"

StartFresh ==
  /\ pc \in {"idle", "failed", "paused"} /\ ckpt = NoCheckpoint
  /\ pc' = "input" /\ step' = 0 /\ CleanStep
  /\ chan' = [c \in Channels |-> EmptyChannel] /\ saw' = NoVersions /\ pendW' = EmptyBag
  /\ base' = NoVersions /\ resumed' = FALSE /\ replaying' = FALSE
  /\ ran' = [n \in Nodes |-> 0] /\ skips' = {} /\ nextN' = EmptyBag
  /\ UNCHANGED <<graphVars, envVars, ckpt, fresh>>

InputCheckpoint ==
  /\ pc = "input" /\ pc' = "plan"
  /\ SaveInRun([Snapshot(-1, SetToBag({Entry}), EmptyBag, "none", skips)
             EXCEPT !.owed = [n \in Nodes |-> IF n = Entry THEN 1 ELSE 0]])
  /\ UNCHANGED <<graphVars, stateVars, chanVars, runVars, taskVars, crashes, pauses, step, ext, fresh>>

\* Mutant of ExecutableNextNodes: applied although writes are replayed.
NextNodesAlways(k) == k.next
\* applyExecutableNextNodes: the next nodes only count when no write is replayed.
ExecutableNextNodes(k) == IF k.writes = EmptyBag THEN k.next ELSE EmptyBag

\* Mutant of ResumedStep: the checkpointed step is run again under its own number.
ResumedStepAgain(k) == k.step
ResumedStep(k) == k.step + 1

Resume ==
  /\ pc \in {"idle", "failed", "paused"} /\ ckpt # NoCheckpoint
  /\ pc' = "plan" /\ step' = ResumedStep(ckpt) /\ CleanStep
  /\ chan' = [c \in Channels |-> Replayed(ckpt, c)]
  /\ pendW' = ckpt.writes
  /\ saw' = ckpt.saw /\ base' = ckpt.saw /\ resumed' = TRUE
  /\ ran' = ckpt.ran /\ skips' = ckpt.skips /\ nextN' = ExecutableNextNodes(ckpt)
  /\ answers' = answers \cup ({ckpt.node} \cap Nodes)
  /\ fresh' = TRUE /\ replaying' = (ckpt.writes # EmptyBag)
  /\ UNCHANGED <<graph, known, envVars, ckpt>>
-----------------------------------------------------------------------------
(***************************************************************************)
(* planStep.                                                               *)
(***************************************************************************)
\* planBasedOnVersionTriggers acknowledges every available channel,
\* planBasedOnAvailabilityTriggers those of the trigger map.
Acknowledged == IF resumed THEN Available ELSE Available \cap known

PlanTriggered ==
  /\ nextN = EmptyBag /\ pendT = EmptyBag /\ step # 0
  /\ tasks' = TasksOf(SetToBag(Triggered))
  /\ chan' = [c \in Channels |-> IF c \in Acknowledged THEN Acknowledge(c) ELSE chan[c]]
  /\ UNCHANGED <<nextN, pendT>>
PlanEntry ==
  /\ nextN = EmptyBag /\ pendT = EmptyBag /\ step = 0
  /\ tasks' = TasksOf(SetToBag({Entry}))
  /\ UNCHANGED <<chan, nextN, pendT>>
\* Mutant of PlanFanOut: the queue is not cleared when its tasks are planned.
PlanFanOutKept ==
  /\ nextN = EmptyBag /\ pendT # EmptyBag
  /\ tasks' = TasksOf(pendT)
  /\ UNCHANGED <<chan, nextN, pendT>>
PlanFanOut ==
  /\ nextN = EmptyBag /\ pendT # EmptyBag
  /\ tasks' = TasksOf(pendT) /\ pendT' = EmptyBag
  /\ UNCHANGED <<chan, nextN>>
PlanNextNodes ==
  /\ nextN # EmptyBag
  /\ tasks' = TasksOf(nextN) /\ nextN' = EmptyBag
  /\ UNCHANGED <<chan, pendT>>

Plan ==
  /\ pc = "plan" /\ step < MaxSteps
  /\ PlanTriggered \/ PlanEntry \/ PlanFanOut \/ PlanNextNodes
  /\ pc' = IF tasks' = NoTasks THEN "completed" ELSE "start"
  /\ fresh' = FALSE
  /\ UNCHANGED <<graphVars, ran, skips, saw, pendW, runVars, err, envVars, step, ext, ckpt>>
OutOfSteps ==
  /\ pc = "plan" /\ step >= MaxSteps /\ pc' = "completed"
  /\ fresh' = FALSE
  /\ UNCHANGED <<graphVars, stateVars, chanVars, runVars, taskVars, envVars, step, ext, ckpt>>
-----------------------------------------------------------------------------
(***************************************************************************)
(* handleInterrupt: a checkpoint that holds no writes, only next nodes.    *)
(***************************************************************************)
HandleInterrupt(stp, next, node, sk) ==
  /\ Save(Snapshot(stp, next, EmptyBag, node, sk)) /\ pc' = "paused"
  /\ UNCHANGED <<graphVars, ran, nextN, chanVars, runVars, taskVars, crashes, pauses, step, ext, fresh>>

ExternalInterruptBeforeStep ==
  /\ pc = "start" /\ ext # "none" /\ UNCHANGED skips
  /\ HandleInterrupt(step - 1, BagOfTasks(DOMAIN tasks), "none", skips)

Hits == BreakBefore \cap NodesOf(DOMAIN tasks)
\* Mutant of SkipsForAll: a breakpoint that was resumed stops the step again.
SkipsForNone == Hits = {}
SkipsForAll == Hits \subseteq skips

StaticInterruptBeforeStep ==
  /\ pc = "start" /\ ext = "none" /\ Hits # {} /\ ~SkipsForAll
  /\ skips' = skips \cup Hits
  /\ HandleInterrupt(step, SetToBag(NodesOf(DOMAIN tasks)), "none", skips \cup Hits)

StartStep ==
  /\ pc = "start" /\ ext = "none" /\ SkipsForAll
  /\ skips' = skips \ Hits /\ pc' = "exec"
  /\ UNCHANGED <<graphVars, ran, nextN, chanVars, runVars, taskVars, envVars, step, ext, ckpt, fresh>>
-----------------------------------------------------------------------------
(***************************************************************************)
(* executeStep: the tasks run concurrently and all of them to their end.   *)
(***************************************************************************)
SetTask(t, st, to) == tasks' = [tasks EXCEPT ![t] = [st |-> st, to |-> to]]
UNCHANGED_Exec == UNCHANGED <<graph, answers, nextN, skips, runVars, envVars, pc, step, ext, ckpt, fresh>>

\* handleNodeResult for a State result: the update, then the static edges.
ResultState(t, o) ==
  LET n == t[1] IN
  /\ o.kind = "state"
  /\ chan' = WriteAll(Writers(n), n) /\ pendW' = PendingAll(Writers(n), n)
  /\ SetTask(t, "wrote", o.to)
  /\ UNCHANGED <<known, pendT>>
\* A Command with GoTo: handleCommandRouting, and no static edge.
ResultGoTo(t, o) ==
  LET cs == {<<"trigger", m>> : m \in o.to} IN
  /\ o.kind = "goto"
  /\ chan' = WriteAll(cs, t[1]) /\ pendW' = PendingAll(cs, t[1]) /\ known' = known \cup cs
  /\ SetTask(t, "wrote", {})
  /\ UNCHANGED pendT
\* Several Commands: enqueueCommands, and no static edge.
ResultFanOut(t, o) ==
  /\ o.kind = "fan"
  /\ pendT' = pendT (+) SetToBag(o.to)
  /\ SetTask(t, "wrote", {})
  /\ UNCHANGED <<chan, pendW, known>>

RunTask(t) ==
  /\ pc = "exec" /\ tasks[t].st = "todo"
  /\ \E o \in Outcomes[t[1]] : ResultState(t, o) \/ ResultGoTo(t, o) \/ ResultFanOut(t, o)
  /\ ran' = [ran EXCEPT ![t[1]] = @ + 1]
  /\ UNCHANGED <<saw, err>> /\ UNCHANGED_Exec

\* updateVersionsSeen, then processConditionalEdges.
UpdateVersionsSeen(n) ==
  saw' = [saw EXCEPT ![n] = [c \in Channels |-> IF c \in Triggers(n) THEN chan[c].ver ELSE @[c]]]
FinishTask(t) ==
  LET n == t[1]
      cs == {<<"branch", m>> : m \in tasks[t].to} IN
  /\ pc = "exec" /\ tasks[t].st = "wrote"
  /\ UpdateVersionsSeen(n)
  /\ chan' = WriteAll(cs, n) /\ pendW' = PendingAll(cs, n) /\ known' = known \cup cs
  /\ SetTask(t, IF NodeBarrier THEN "waiting" ELSE "done", {})
  /\ UNCHANGED <<ran, pendT, err>> /\ UNCHANGED_Exec
\* emitNodeBarrierAndWait returns: the consumer has handled the node's events.
ReleaseTask(t) ==
  /\ pc = "exec" /\ tasks[t].st = "waiting" /\ SetTask(t, "done", {})
  /\ UNCHANGED <<known, ran, chanVars, pendT, err>> /\ UNCHANGED_Exec

StopTask(t, kind) ==
  /\ SetTask(t, "stopped", {}) /\ err' = FirstError(kind, t[1])
  /\ UNCHANGED <<known, ran, chan, pendW, pendT>> /\ UNCHANGED_Exec
InterruptTask(t) ==
  /\ pc = "exec" /\ tasks[t].st = "todo" /\ t[1] \notin answers
  /\ \E o \in Outcomes[t[1]] : o.kind = "interrupt"
  /\ StopTask(t, "interrupt") /\ UNCHANGED saw
FailTask(t) ==
  /\ pc = "exec" /\ tasks[t].st = "todo"
  /\ \E o \in Outcomes[t[1]] : o.kind = "fail"
  /\ StopTask(t, "error") /\ UNCHANGED saw
\* The condition of a conditional edge returns an error, after the static writes.
FailCondition(t) ==
  /\ pc = "exec" /\ tasks[t].st = "wrote" /\ tasks[t].to # {}
  /\ \E o \in Outcomes[t[1]] : o.kind = "fail"
  /\ UpdateVersionsSeen(t[1]) /\ StopTask(t, "error")
\* emitNodeBarrierAndWait gives up after defaultBarrierWaitTimeout.
BarrierTimesOut(t) ==
  /\ pc = "exec" /\ tasks[t].st = "waiting"
  /\ \E o \in Outcomes[t[1]] : o.kind = "fail"
  /\ StopTask(t, "error") /\ UNCHANGED saw
CancelTask(t) ==
  /\ pc = "exec" /\ ext = "forced" /\ tasks[t].st \in {"todo", "waiting"}
  /\ StopTask(t, "canceled") /\ UNCHANGED saw

StepOver == pc = "exec" /\ \A t \in DOMAIN tasks : tasks[t].st \in {"done", "stopped"}
-----------------------------------------------------------------------------
(***************************************************************************)
(* The end of a step: handleExecuteStepError, the breakpoints after it, or *)
(* the loop checkpoint.                                                    *)
(***************************************************************************)
WithNode(next, n) == IF n \in next THEN next ELSE next \cup {n}

InternalInterrupt ==
  /\ StepOver /\ err.kind = "interrupt" /\ UNCHANGED skips
  /\ HandleInterrupt(step, SetToBag(WithNode(GetNextNodes, err.node)), err.node, skips)

\* Mutant of TasksToRerun: a task that was cut off counts as completed.
TasksToRerunNotStopped == {t \in DOMAIN tasks : tasks[t].st \notin {"done", "stopped"}}
TasksToRerun == Unfinished

\* nextNodesForForcedInterrupt: the tasks to rerun, then the nodes not among them.
ForcedInterrupt ==
  /\ StepOver /\ err.kind = "canceled" /\ UNCHANGED skips
  /\ HandleInterrupt(step, BagOfTasks(TasksToRerun)
                             (+) SetToBag(GetNextNodes \ NodesOf(TasksToRerun)), "none", skips)

StepFails ==
  /\ StepOver /\ err.kind = "error" /\ pc' = "failed"
  /\ UNCHANGED <<graphVars, stateVars, chanVars, runVars, taskVars, envVars, step, ext, ckpt, fresh>>

BreaksAfter == BreakAfter \cap NodesOf(DOMAIN tasks) # {}

StaticInterruptAfterStep ==
  /\ StepOver /\ err = NoError /\ BreaksAfter /\ UNCHANGED skips
  /\ HandleInterrupt(step, SetToBag(GetNextNodes), "none", skips)

\* createCheckpointAndSave takes the writes whether or not PutFull succeeds.
LoopCheckpoint ==
  /\ StepOver /\ err = NoError /\ ~BreaksAfter
  /\ SaveInRun(Snapshot(step, SetToBag(GetNextNodes), pendW, "none", skips))
  /\ pendW' = EmptyBag /\ tasks' = NoTasks /\ replaying' = FALSE
  /\ pc' = "plan" /\ step' = step + 1
  /\ UNCHANGED <<graphVars, stateVars, chan, saw, base, resumed, err, pendT, crashes, pauses, ext, fresh>>
-----------------------------------------------------------------------------
(***************************************************************************)
(* The environment: the pause button, its timeout, and a crash.            *)
(***************************************************************************)
Active == pc \in {"input", "plan", "start", "exec"}

RequestPause ==
  /\ Active /\ ext = "none" /\ pauses < MaxPauses
  /\ ext' = "requested" /\ pauses' = pauses + 1
  /\ UNCHANGED <<graphVars, stateVars, chanVars, runVars, taskVars, crashes, failedSaves, pc, step, ckpt, fresh>>
ForcePause ==
  /\ Active /\ ext = "requested" /\ CanForce /\ ext' = "forced"
  /\ UNCHANGED <<graphVars, stateVars, chanVars, runVars, taskVars, envVars, pc, step, ckpt, fresh>>

\* The process dies: the graph is compiled anew, only the checkpoint is left.
Crash ==
  /\ pc \in {"input", "plan", "start", "exec", "paused"} /\ crashes < MaxCrashes
  /\ crashes' = crashes + 1 /\ pc' = "idle" /\ known' = Compiled /\ UNCHANGED graph
  /\ step' = 0 /\ CleanStep /\ fresh' = FALSE
  /\ chan' = [c \in Channels |-> EmptyChannel] /\ saw' = NoVersions /\ pendW' = EmptyBag
  /\ base' = NoVersions /\ resumed' = FALSE /\ replaying' = FALSE
  /\ ran' = [n \in Nodes |-> 0] /\ skips' = {} /\ nextN' = EmptyBag
  /\ UNCHANGED <<answers, failedSaves, pauses, ckpt>>
-----------------------------------------------------------------------------
Init ==
  /\ graph \in Graphs
  /\ known = Compiled /\ answers = {} /\ pc = "idle" /\ step = 0
  /\ chan = [c \in Channels |-> EmptyChannel] /\ saw = NoVersions /\ pendW = EmptyBag
  /\ base = NoVersions /\ resumed = FALSE /\ replaying = FALSE
  /\ ran = [n \in Nodes |-> 0] /\ skips = {} /\ nextN = EmptyBag
  /\ tasks = NoTasks /\ err = NoError /\ pendT = EmptyBag
  /\ ext = "none" /\ ckpt = NoCheckpoint /\ fresh = FALSE
  /\ crashes = 0 /\ failedSaves = 0 /\ pauses = 0

TaskStep == \E t \in DOMAIN tasks : \/ RunTask(t) \/ FinishTask(t) \/ ReleaseTask(t)
                                    \/ InterruptTask(t) \/ FailTask(t) \/ FailCondition(t)
                                    \/ BarrierTimesOut(t) \/ CancelTask(t)
StepEnd == \/ InternalInterrupt \/ ForcedInterrupt \/ StepFails
           \/ StaticInterruptAfterStep \/ LoopCheckpoint
BeforeStep == ExternalInterruptBeforeStep \/ StaticInterruptBeforeStep \/ StartStep
Execute == StartFresh \/ Resume
Engine == InputCheckpoint \/ Plan \/ OutOfSteps \/ BeforeStep \/ TaskStep \/ StepEnd
Environment == RequestPause \/ ForcePause \/ Crash

Next == Execute \/ Engine \/ Environment
Spec == Init /\ [][Next]_vars

(***************************************************************************)
(* The engine's own steps happen, and the caller runs the lineage again    *)
(* after an interrupt, a failure or a restart.                             *)
(***************************************************************************)
FairSpec == Spec /\ WF_vars(Engine) /\ WF_vars(Execute)
-----------------------------------------------------------------------------
TypeOK ==
  /\ known \subseteq Channels /\ answers \subseteq Nodes
  /\ pc \in {"idle", "input", "plan", "start", "exec", "paused", "failed", "completed"}
  /\ chan \in [Channels -> [ver : Nat, avail : BOOLEAN, seen : SUBSET Nodes]]
  /\ saw \in [Nodes -> [Channels -> Nat]] /\ base \in [Nodes -> [Channels -> Nat]]
  /\ IsABag(pendW) /\ BagToSet(pendW) \subseteq Channels \X Nodes
  /\ IsABag(pendT) /\ BagToSet(pendT) \subseteq Nodes
  /\ IsABag(nextN) /\ BagToSet(nextN) \subseteq Nodes
  /\ step \in Nat /\ NodesOf(DOMAIN tasks) \subseteq Nodes
  /\ ran \in [Nodes -> Nat] /\ skips \subseteq Nodes
  /\ ext \in {"none", "requested", "forced"} /\ replaying \in BOOLEAN

(***************************************************************************)
(* A resumed execution owes every run that the checkpointed one owed:      *)
(* resumption loses no node (resumeOrInitWithSaver rebuilds the frontier). *)
(***************************************************************************)
NothingLost == fresh => \A n \in Nodes : Owed[n] >= ckpt.owed[n]

(***************************************************************************)
(* A resumed execution owes no run that the checkpointed one did not owe:  *)
(* versions seen and acknowledged channels keep completed nodes from       *)
(* running again.                                                          *)
(***************************************************************************)
NothingRepeated == fresh => \A n \in Nodes : Owed[n] <= ckpt.owed[n]

(***************************************************************************)
(* AddJoinEdge waits for all its senders and then runs once: the State     *)
(* never holds more results of a join's node than of one of its senders.   *)
(***************************************************************************)
JoinRunsOnce == \A n \in Nodes : \A m \in JoinFrom[n] : ran[n] <= ran[m]

(***************************************************************************)
(* End to end, for a graph in which every node is triggered once: however  *)
(* the execution was interrupted, crashed and resumed, when it reports     *)
(* completion the State holds exactly one result of every node.            *)
(***************************************************************************)
CompletedOnce == Once /\ pc = "completed" => \A n \in Nodes : ran[n] = 1

(***************************************************************************)
(* For such a graph the workflow ends with the results of all its nodes,   *)
(* not at MaxSteps: no interrupt, failed save or crash makes the caller    *)
(* resume at the same place again and again.                               *)
(***************************************************************************)
WorkflowEnds == Once => <>(pc = "completed" /\ \A n \in Nodes : ran[n] > 0)
=============================================================================
