--------------------------- MODULE GraphBspProofs ---------------------------
(***************************************************************************)
(* Proofs about GraphBsp: its types for any graph; that resumption repeats *)
(* and loses no run, that joins run once and that completion means one     *)
(* result of every node, for executions that never resume from a           *)
(* checkpoint known to mislead (Clean); and graphs all of whose executions *)
(* are so (Tame).                                                          *)
(***************************************************************************)
EXTENDS GraphBsp, GraphChannelsProofs

(* Bags of nodes and tasks. *)

LEMMA SetBag ==
  ASSUME NEW S
  PROVE  /\ IsABag(SetToBag(S)) /\ BagToSet(SetToBag(S)) = S
         /\ \A x : CopiesOf(x, SetToBag(S)) = IF x \in S THEN 1 ELSE 0
         /\ SetToBag(S) = EmptyBag <=> S = {}
<1>1. DOMAIN SetToBag(S) = S /\ \A x \in S : SetToBag(S)[x] = 1
  BY DEF SetToBag
<1>2. IsABag(SetToBag(S)) /\ BagToSet(SetToBag(S)) = S
  BY DEF SetToBag, IsABag, BagToSet
<1>3. \A x : CopiesOf(x, SetToBag(S)) = IF x \in S THEN 1 ELSE 0
  BY <1>1, <1>2 DEF CopiesOf, BagIn
<1>4. SetToBag(S) = EmptyBag <=> S = {}
  BY <1>1 DEF SetToBag, EmptyBag
<1> QED BY <1>2, <1>3, <1>4

LEMMA EmptyBagParts ==
  /\ IsABag(EmptyBag) /\ BagToSet(EmptyBag) = {} /\ \A x : CopiesOf(x, EmptyBag) = 0
  /\ \A b : IsABag(b) /\ BagToSet(b) = {} => b = EmptyBag
<1>1. DOMAIN EmptyBag = {}
  BY DEF EmptyBag, SetToBag
<1>2. \A b : IsABag(b) /\ BagToSet(b) = {} => b = EmptyBag
  BY DEF IsABag, BagToSet, EmptyBag, SetToBag
<1> QED BY <1>1, <1>2, EmptyBagOK DEF WritesOK, BagToSet, CopiesOf, BagIn

LEMMA SumBag ==
  ASSUME NEW a, IsABag(a), NEW b, IsABag(b)
  PROVE  IsABag(a (+) b) /\ BagToSet(a (+) b) = BagToSet(a) \cup BagToSet(b)
<1>1. DOMAIN (a (+) b) = DOMAIN a \cup DOMAIN b
  BY DEF (+)
<1>2. /\ \A x \in DOMAIN a : a[x] \in Nat /\ a[x] > 0
      /\ \A x \in DOMAIN b : b[x] \in Nat /\ b[x] > 0
  BY DEF IsABag
<1>3. \A x \in DOMAIN a \cup DOMAIN b : (a (+) b)[x] \in {k \in Nat : k > 0}
  BY <1>2 DEF (+)
<1>4. a (+) b \in [DOMAIN (a (+) b) -> {k \in Nat : k > 0}]
  BY <1>1, <1>3 DEF (+)
<1> QED BY <1>1, <1>4 DEF IsABag, BagToSet

\* How many tasks of each node there are.
LEMMA TaskBag ==
  ASSUME NEW ts, IsFiniteSet(ts)
  PROVE  /\ IsABag(BagOfTasks(ts)) /\ BagToSet(BagOfTasks(ts)) = NodesOf(ts)
         /\ \A n : CopiesOf(n, BagOfTasks(ts)) = Cardinality({t \in ts : t[1] = n})
         /\ \A n : Cardinality({t \in ts : t[1] = n}) \in Nat
<1> DEFINE T(n) == {t \in ts : t[1] = n}
<1>1. \A n : IsFiniteSet(T(n)) /\ Cardinality(T(n)) \in Nat /\ (Cardinality(T(n)) = 0 <=> T(n) = {})
  <2> TAKE n
  <2>1. T(n) \subseteq ts
    OBVIOUS
  <2> HIDE DEF T
  <2> QED BY <2>1, FS_Subset, FS_CardinalityType, FS_EmptySet
<1>2. \A n : n \in NodesOf(ts) <=> T(n) # {}
  BY DEF NodesOf
<1>3. BagOfTasks(ts) = [n \in NodesOf(ts) |-> Cardinality(T(n))]
  BY DEF BagOfTasks
<1> HIDE DEF T
<1>4. DOMAIN BagOfTasks(ts) = NodesOf(ts)
  BY <1>3
<1>5. IsABag(BagOfTasks(ts))
  <2>1. \A n \in NodesOf(ts) : Cardinality(T(n)) \in {k \in Nat : k > 0}
    BY <1>1, <1>2
  <2> QED BY <1>3, <1>4, <2>1 DEF IsABag
<1>6. \A n : CopiesOf(n, BagOfTasks(ts)) = Cardinality(T(n))
  BY <1>1, <1>2, <1>3, <1>4 DEF CopiesOf, BagIn, BagToSet
<1> QED BY <1>1, <1>4, <1>5, <1>6 DEF T, BagToSet

BagOK(b) == IsABag(b) /\ BagToSet(b) \subseteq Nodes

\* The tasks of a bag of nodes: as many of each as the bag holds, numbered from 1.
LEMMA TasksOfParts ==
  ASSUME graph \in Graphs, NEW b, BagOK(b)
  PROVE  /\ IsFiniteSet(DOMAIN TasksOf(b))
         /\ \A t \in DOMAIN TasksOf(b) : /\ t[1] \in BagToSet(b) /\ t[2] \in 1..CopiesOf(t[1], b)
                                         /\ t = <<t[1], t[2]>>
                                         /\ TasksOf(b)[t] = [st |-> "todo", to |-> {}]
         /\ \A n \in BagToSet(b) : <<n, 1>> \in DOMAIN TasksOf(b)
         /\ TasksOf(b) = NoTasks <=> b = EmptyBag
<1> DEFINE P(n) == {n} \X (1..CopiesOf(n, b))
           D == UNION {P(n) : n \in Nodes}
<1>1. IsFiniteSet(Nodes)
  BY GraphTyped
<1>2. \A n : CopiesOf(n, b) \in Nat /\ (CopiesOf(n, b) > 0 <=> n \in BagToSet(b))
  BY DEF BagOK, IsABag, BagToSet, CopiesOf, BagIn
<1>3. \A n \in Nodes : IsFiniteSet(P(n))
  <2> TAKE n \in Nodes
  <2>1. \A p \in Int : IsFiniteSet(1..p)
    BY FS_Interval
  <2>2. IsFiniteSet(1..CopiesOf(n, b))
    BY <1>2, <2>1
  <2>3. IsFiniteSet({n})
    BY FS_Singleton
  <2> QED BY <2>2, <2>3, FS_Product
<1>4. IsFiniteSet(D)
  <2>1. IsFiniteSet({P(n) : n \in Nodes})
    <3> DEFINE f == [n \in Nodes |-> P(n)]
    <3>1. DOMAIN f = Nodes /\ {f[n] : n \in Nodes} = {P(n) : n \in Nodes}
      OBVIOUS
    <3>2. IsFiniteSet({f[n] : n \in Nodes})
      <4> HIDE DEF f
      <4> QED BY <1>1, <3>1, FiniteImage
    <3> QED BY <3>1, <3>2
  <2>2. \A T \in {P(n) : n \in Nodes} : IsFiniteSet(T)
    BY <1>3
  <2> QED BY <2>1, <2>2, FS_UNION
<1>5. TasksOf(b) = [t \in D |-> [st |-> "todo", to |-> {}]] /\ DOMAIN TasksOf(b) = D
  BY DEF TasksOf
<1>6. \A t \in D : t[1] \in Nodes /\ t[2] \in 1..CopiesOf(t[1], b) /\ t = <<t[1], t[2]>>
  OBVIOUS
<1>7. \A t \in D : t[1] \in BagToSet(b)
  <2> TAKE t \in D
  <2>1. t[2] \in 1..CopiesOf(t[1], b)
    BY <1>6
  <2>2. CopiesOf(t[1], b) > 0
    BY <1>2, <2>1
  <2> QED BY <1>2, <2>2
<1>8. \A n \in BagToSet(b) : <<n, 1>> \in D
  <2> TAKE n \in BagToSet(b)
  <2>1. n \in Nodes /\ 1 \in 1..CopiesOf(n, b)
    BY <1>2 DEF BagOK
  <2> QED BY <2>1
<1> HIDE DEF D
<1>9. TasksOf(b) = NoTasks <=> b = EmptyBag
  <2>1. D = {} <=> BagToSet(b) = {}
    BY <1>7, <1>8
  <2>2. BagToSet(b) = {} <=> b = EmptyBag
    BY EmptyBagParts DEF BagOK
  <2>3. TasksOf(b) = NoTasks <=> D = {}
    BY <1>5 DEF NoTasks
  <2> QED BY <2>1, <2>2, <2>3
<1>10. \A t \in D : TasksOf(b)[t] = [st |-> "todo", to |-> {}]
  BY <1>5
<1>11. DOMAIN TasksOf(b) = D
  BY <1>5
<1> QED BY <1>4, <1>6, <1>7, <1>8, <1>9, <1>10, <1>11
-----------------------------------------------------------------------------
(* Types.                                                                  *)

Phases == {"idle", "input", "plan", "start", "exec", "paused", "failed", "completed"}
GraphOK == /\ graph \in Graphs /\ known \subseteq Channels /\ answers \subseteq Nodes
           /\ pc \in Phases /\ step \in Nat /\ ext \in {"none", "requested", "forced"}
StateOK == ran \in [Nodes -> Nat] /\ skips \subseteq Nodes /\ BagOK(nextN)
VersionsOK(f) == f \in [Nodes -> [Channels -> Nat]]
ChanOK == /\ ChannelsOK(chan) /\ WritesOK(pendW) /\ VersionsOK(saw) /\ VersionsOK(base)
          /\ replaying \in BOOLEAN

TaskStates == {"todo", "wrote", "waiting", "done", "stopped"}
TaskOK(t, k) == /\ t[1] \in Nodes /\ t[2] \in Nat /\ t = <<t[1], t[2]>>
                /\ k.st \in TaskStates /\ k.to \subseteq Nodes
TasksOK == /\ IsFiniteSet(DOMAIN tasks) /\ \A t \in DOMAIN tasks : TaskOK(t, tasks[t])
           /\ err.node \in Nodes /\ BagOK(pendT)

\* What a resumed execution relies on in a checkpoint.
CheckpointOK(k) ==
  /\ k.step \in Int /\ k.step >= -1 /\ BagOK(k.next) /\ SavedOK(k) /\ VersionsOK(k.saw)
  /\ k.ran \in [Nodes -> Nat] /\ k.skips \subseteq Nodes
CkptOK == ckpt = NoCheckpoint \/ CheckpointOK(ckpt)

Typed == GraphOK /\ StateOK /\ ChanOK /\ TasksOK /\ CkptOK

\* A step that does not touch a part keeps its type.
LEMMA Frames ==
  ASSUME Typed, graph' = graph
  PROVE  /\ UNCHANGED stateVars => StateOK'
         /\ UNCHANGED <<chan, pendW>> => ChannelsOK(chan)' /\ WritesOK(pendW)'
         /\ UNCHANGED saw => VersionsOK(saw)'
         /\ UNCHANGED <<base, replaying>> => VersionsOK(base)' /\ replaying' \in BOOLEAN
         /\ UNCHANGED <<tasks, err>> => /\ IsFiniteSet(DOMAIN tasks')
                                        /\ \A t \in DOMAIN tasks' : TaskOK(t, tasks[t])'
                                        /\ err'.node \in Nodes'
         /\ UNCHANGED pendT => BagOK(pendT)'
         /\ UNCHANGED nextN => BagOK(nextN)'
         /\ UNCHANGED ckpt => CkptOK'
         /\ Nodes' = Nodes /\ Channels' = Channels /\ JoinFrom' = JoinFrom
<1>1. /\ Nodes' = Nodes /\ Channels' = Channels /\ JoinFrom' = JoinFrom
  BY DEF Nodes, Channels, JoinFrom
<1>2. UNCHANGED nextN => BagOK(nextN)'
  BY <1>1 DEF Typed, StateOK, BagOK
<1>3. UNCHANGED stateVars => StateOK'
  BY <1>1 DEF Typed, StateOK, stateVars, BagOK
<1>4. UNCHANGED <<chan, pendW>> => ChannelsOK(chan)' /\ WritesOK(pendW)'
  BY <1>1 DEF Typed, ChanOK, ChannelsOK, WritesOK, ChannelType, Settled, Satisfied
<1>5. (UNCHANGED saw => VersionsOK(saw)') /\ (UNCHANGED <<base, replaying>> => VersionsOK(base)' /\ replaying' \in BOOLEAN)
  BY <1>1 DEF Typed, ChanOK, VersionsOK
<1>6. UNCHANGED <<tasks, err>> => /\ IsFiniteSet(DOMAIN tasks')
                                  /\ \A t \in DOMAIN tasks' : TaskOK(t, tasks[t])'
                                  /\ err'.node \in Nodes'
  BY <1>1 DEF Typed, TasksOK, TaskOK
<1>7. UNCHANGED pendT => BagOK(pendT)'
  BY <1>1 DEF Typed, TasksOK, BagOK
<1>8. UNCHANGED ckpt => CkptOK'
  BY <1>1 DEF Typed, CkptOK, CheckpointOK, SavedOK, WritesOK, NoCheckpoint, BagOK, VersionsOK
<1> QED BY <1>1, <1>2, <1>3, <1>4, <1>5, <1>6, <1>7, <1>8

\* A clean slate.
LEMMA CleanTyped ==
  ASSUME GraphOK, graph' = graph, CleanStep
  PROVE  TasksOK' /\ ext' = "none" /\ tasks' = NoTasks /\ err' = NoError /\ pendT' = EmptyBag
<1>1. tasks' = NoTasks /\ err' = NoError /\ pendT' = EmptyBag /\ ext' = "none"
  BY DEF CleanStep
<1>2. DOMAIN tasks' = {} /\ err'.node = Entry
  BY <1>1 DEF NoTasks, NoError
<1>3. Nodes' = Nodes /\ Entry \in Nodes /\ IsFiniteSet({})
  BY GraphTyped, FS_EmptySet DEF GraphOK, Nodes
<1>4. BagOK(pendT)'
  BY <1>1, EmptyBagParts DEF BagOK
<1>5. TasksOK'
  BY <1>2, <1>3, <1>4 DEF TasksOK
<1> QED BY <1>1, <1>5

LEMMA EmptyVersions == VersionsOK(NoVersions)
BY DEF VersionsOK, NoVersions

LEMMA InitTyped == Init => Typed
<1> SUFFICES ASSUME Init PROVE Typed
  OBVIOUS
<1>1. graph \in Graphs
  BY DEF Init
<1>2. GraphOK
  BY <1>1, GraphTyped DEF Init, GraphOK, Phases
<1>3. StateOK
  BY EmptyBagParts DEF Init, StateOK, BagOK
<1>4. ChanOK
  BY <1>1, EmptyOK, EmptyBagOK, EmptyVersions DEF Init, ChanOK
<1>5. TasksOK
  <2>1. tasks = NoTasks /\ err = NoError /\ pendT = EmptyBag
    BY DEF Init
  <2>2. DOMAIN tasks = {} /\ err.node = Entry
    BY <2>1 DEF NoTasks, NoError
  <2>3. Entry \in Nodes /\ IsFiniteSet({}) /\ BagOK(pendT)
    BY <1>1, <2>1, GraphTyped, FS_EmptySet, EmptyBagParts DEF BagOK
  <2> QED BY <2>2, <2>3 DEF TasksOK
<1>6. CkptOK
  BY DEF Init, CkptOK
<1> QED BY <1>2, <1>3, <1>4, <1>5, <1>6 DEF Typed

\* A checkpoint that is taken is one that can be resumed from.
LEMMA SaveTyped ==
  ASSUME Typed, graph' = graph,
         NEW stp \in Int, stp >= -1, NEW next, BagOK(next), NEW writes, WritesOK(writes),
         NEW node, NEW sk \in SUBSET Nodes,
         SaveInRun(Snapshot(stp, next, writes, node, sk))
  PROVE  CkptOK'
<1> DEFINE k == Snapshot(stp, next, writes, node, sk)
<1>1. /\ k.step = stp /\ k.next = next /\ k.writes = writes /\ k.ran = ran /\ k.skips = sk
      /\ k.saw = saw
      /\ k.vers = [c \in Channels |-> chan[c].ver] /\ k.seen = [c \in Channels |-> chan[c].seen]
  BY DEF Snapshot
<1>2. /\ k.vers \in [Channels -> Nat] /\ k.seen \in [Channels -> SUBSET Nodes]
      /\ \A c \in Channels : IsJoin(c) \/ k.seen[c] = {}
  BY <1>1 DEF Typed, ChanOK, ChannelsOK, ChannelType, Settled
<1>3. CheckpointOK(k)
  <2> HIDE DEF k
  <2> QED BY <1>1, <1>2 DEF Typed, StateOK, ChanOK, CheckpointOK, SavedOK
<1>4. CASE ckpt' = k
  <2>1. Nodes' = Nodes /\ Channels' = Channels
    BY Frames
  <2> HIDE DEF k
  <2> QED BY <1>3, <1>4, <2>1 DEF CkptOK, CheckpointOK, SavedOK, WritesOK, BagOK, VersionsOK
<1>5. CASE ckpt' = ckpt
  BY <1>5, Frames
<1> QED BY <1>4, <1>5 DEF SaveInRun, Save

LEMMA ExecuteTyped ==
  ASSUME Typed, Execute
  PROVE  Typed'
<1>1. GraphOK /\ graph' = graph
  BY DEF Typed, Execute, StartFresh, Resume, graphVars
<1>2. /\ CleanStep /\ ckpt' = ckpt /\ known' = known
      /\ pc' \in Phases /\ step' \in Nat
  BY <1>1 DEF Execute, StartFresh, Resume, graphVars, Phases, ResumedStep, Typed, CkptOK, CheckpointOK
<1>3. TasksOK' /\ ext' = "none" /\ pendT' = EmptyBag
  BY <1>1, <1>2, CleanTyped
<1>4. Nodes' = Nodes /\ Channels' = Channels /\ JoinFrom' = JoinFrom /\ CkptOK'
  BY <1>1, <1>2, Frames
<1>5. CASE StartFresh
  <2>1. /\ chan' = [c \in Channels |-> EmptyChannel] /\ pendW' = EmptyBag
        /\ saw' = NoVersions /\ base' = NoVersions /\ replaying' = FALSE /\ answers' = answers
        /\ ran' = [n \in Nodes |-> 0] /\ skips' = {} /\ nextN' = EmptyBag
    BY <1>5 DEF StartFresh, graphVars
  <2>2. ChanOK'
    <3>1. /\ ChannelsOK(chan') /\ WritesOK(pendW') /\ VersionsOK(saw') /\ VersionsOK(base')
          /\ replaying' \in BOOLEAN
      BY <1>1, <2>1, EmptyOK, EmptyBagOK, EmptyVersions DEF GraphOK
    <3> QED BY <1>4, <3>1 DEF ChanOK, ChannelsOK, WritesOK, ChannelType, Settled, Satisfied, VersionsOK
  <2>3. StateOK'
    BY <1>4, <2>1, EmptyBagParts DEF StateOK, BagOK
  <2>4. GraphOK'
    BY <1>1, <1>2, <1>3, <1>4, <2>1 DEF GraphOK, Phases
  <2> QED BY <1>3, <1>4, <2>2, <2>3, <2>4 DEF Typed
<1>6. CASE Resume
  <2>1. /\ chan' = [c \in Channels |-> Replayed(ckpt, c)] /\ pendW' = ckpt.writes
        /\ saw' = ckpt.saw /\ base' = ckpt.saw /\ ckpt # NoCheckpoint
        /\ replaying' = (ckpt.writes # EmptyBag)
        /\ answers' = answers \cup ({ckpt.node} \cap Nodes)
        /\ ran' = ckpt.ran /\ skips' = ckpt.skips /\ nextN' = ExecutableNextNodes(ckpt)
    BY <1>6 DEF Resume
  <2>2. CheckpointOK(ckpt)
    BY <2>1 DEF Typed, CkptOK
  <2>3. ChanOK'
    <3>1. /\ ChannelsOK(chan') /\ WritesOK(pendW') /\ VersionsOK(saw') /\ VersionsOK(base')
          /\ replaying' \in BOOLEAN
      BY <1>1, <2>1, <2>2, ReplayedOK DEF GraphOK, CheckpointOK, SavedOK
    <3> QED BY <1>4, <3>1 DEF ChanOK, ChannelsOK, WritesOK, ChannelType, Settled, Satisfied, VersionsOK
  <2>4. StateOK'
    BY <1>4, <2>1, <2>2, EmptyBagParts DEF StateOK, BagOK, CheckpointOK, ExecutableNextNodes
  <2>5. GraphOK'
    BY <1>1, <1>2, <1>3, <1>4, <2>1 DEF GraphOK, Phases
  <2> QED BY <1>3, <1>4, <2>3, <2>4, <2>5 DEF Typed
<1> QED BY <1>5, <1>6 DEF Execute

LEMMA EnvironmentTyped ==
  ASSUME Typed, Environment
  PROVE  Typed'
<1>1. GraphOK /\ graph' = graph
  BY DEF Typed, Environment, RequestPause, ForcePause, Crash, graphVars
<1>2. Nodes' = Nodes /\ Channels' = Channels /\ JoinFrom' = JoinFrom
  BY <1>1, Frames
<1>3. CASE Crash
  <2>1. /\ chan' = [c \in Channels |-> EmptyChannel] /\ pendW' = EmptyBag
        /\ saw' = NoVersions /\ base' = NoVersions /\ replaying' = FALSE /\ answers' = answers
        /\ ran' = [n \in Nodes |-> 0] /\ skips' = {} /\ nextN' = EmptyBag
        /\ CleanStep /\ ckpt' = ckpt /\ known' = Compiled /\ pc' = "idle" /\ step' = 0
    BY <1>3 DEF Crash
  <2>2. ChanOK'
    <3>1. /\ ChannelsOK(chan') /\ WritesOK(pendW') /\ VersionsOK(saw') /\ VersionsOK(base')
          /\ replaying' \in BOOLEAN
      BY <1>1, <2>1, EmptyOK, EmptyBagOK, EmptyVersions DEF GraphOK
    <3> QED BY <1>2, <3>1 DEF ChanOK, ChannelsOK, WritesOK, ChannelType, Settled, Satisfied, VersionsOK
  <2>3. StateOK'
    BY <1>2, <2>1, EmptyBagParts DEF StateOK, BagOK
  <2>4. TasksOK' /\ ext' = "none"
    BY <1>1, <2>1, CleanTyped
  <2>5. GraphOK'
    BY <1>1, <1>2, <2>1, <2>4, GraphTyped DEF GraphOK, Phases
  <2>6. CkptOK'
    BY <1>1, <2>1, Frames
  <2> QED BY <2>2, <2>3, <2>4, <2>5, <2>6 DEF Typed
<1>4. CASE RequestPause \/ ForcePause
  <2>1. /\ UNCHANGED <<graphVars, stateVars, chanVars, runVars, taskVars, pc, step, ckpt>>
        /\ ext' \in {"none", "requested", "forced"}
    BY <1>4 DEF RequestPause, ForcePause
  <2>2. StateOK' /\ ChanOK' /\ CkptOK'
    BY <1>1, <2>1, Frames DEF ChanOK, chanVars, runVars
  <2>3. TasksOK'
    BY <1>1, <2>1, Frames DEF TasksOK, taskVars
  <2>4. GraphOK'
    BY <1>1, <1>2, <2>1 DEF GraphOK, graphVars
  <2> QED BY <2>2, <2>3, <2>4 DEF Typed
<1> QED BY <1>3, <1>4 DEF Environment

LEMMA PlanTyped ==
  ASSUME Typed, Plan
  PROVE  Typed'
<1>1. /\ GraphOK /\ graph' = graph
      /\ UNCHANGED <<graphVars, ran, skips, saw, pendW, base, replaying, err, step, ext, ckpt>>
      /\ pc' \in Phases
  BY DEF Typed, Plan, graphVars, Phases, runVars
<1>2. Nodes' = Nodes /\ Channels' = Channels /\ JoinFrom' = JoinFrom
  BY <1>1, Frames
<1>3. BagOK(nextN) /\ BagOK(pendT)
  BY DEF Typed, StateOK, TasksOK
<1>4. PICK b : BagOK(b) /\ tasks' = TasksOf(b)
  <2>1. CASE PlanTriggered
    <3>1. Triggered \subseteq Nodes
      BY ChannelParts DEF Triggered, Available
    <3>2. BagOK(SetToBag(Triggered))
      BY <3>1, SetBag DEF BagOK
    <3> QED BY <2>1, <3>2 DEF PlanTriggered
  <2>2. CASE PlanEntry
    <3>1. {Entry} \subseteq Nodes
      BY <1>1, GraphTyped DEF GraphOK
    <3>2. BagOK(SetToBag({Entry}))
      BY <3>1, SetBag DEF BagOK
    <3> QED BY <2>2, <3>2 DEF PlanEntry
  <2>3. CASE PlanFanOut \/ PlanNextNodes
    BY <1>3, <2>3 DEF PlanFanOut, PlanNextNodes
  <2> QED BY <2>1, <2>2, <2>3 DEF Plan
<1>5. /\ BagOK(nextN') /\ BagOK(pendT')
  BY <1>3, EmptyBagParts DEF Plan, PlanTriggered, PlanEntry, PlanFanOut, PlanNextNodes, BagOK
<1>6. ChannelsOK(chan')
  <2>1. ChannelsOK(chan)
    BY DEF Typed, ChanOK
  <2>2. chan' = chan \/ chan' = [c \in Channels |-> IF c \in Acknowledged THEN Acknowledge(c) ELSE chan[c]]
    BY DEF Plan, PlanTriggered, PlanEntry, PlanFanOut, PlanNextNodes
  <2> QED BY <1>1, <2>1, <2>2, AcknowledgeOK DEF GraphOK
<1>7. ChanOK'
  <2>1. WritesOK(pendW) /\ VersionsOK(saw) /\ VersionsOK(base) /\ replaying \in BOOLEAN
    BY DEF Typed, ChanOK
  <2> QED BY <1>1, <1>2, <1>6, <2>1
          DEF ChanOK, ChannelsOK, WritesOK, ChannelType, Settled, Satisfied, VersionsOK
<1>8. TasksOK'
  <2>1. IsFiniteSet(DOMAIN tasks')
    BY <1>1, <1>4, TasksOfParts DEF GraphOK
  <2>2. \A t \in DOMAIN tasks' : TaskOK(t, tasks'[t])
    <3> TAKE t \in DOMAIN tasks'
    <3>1. /\ t[1] \in BagToSet(b) /\ t[2] \in 1..CopiesOf(t[1], b) /\ t = <<t[1], t[2]>>
          /\ tasks'[t] = [st |-> "todo", to |-> {}]
      BY <1>1, <1>4, TasksOfParts DEF GraphOK
    <3>2. t[1] \in Nodes /\ t[2] \in Nat
      BY <1>4, <3>1 DEF BagOK
    <3> QED BY <3>1, <3>2 DEF TaskOK, TaskStates
  <2>3. err'.node \in Nodes
    BY <1>1 DEF Typed, TasksOK
  <2> QED BY <1>2, <1>5, <2>1, <2>2, <2>3 DEF TasksOK, TaskOK, BagOK
<1>9. StateOK'
  BY <1>1, <1>2, <1>5 DEF Typed, StateOK, BagOK
<1>10. GraphOK'
  BY <1>1, <1>2 DEF GraphOK, graphVars
<1>11. CkptOK'
  BY <1>1, Frames
<1> QED BY <1>7, <1>8, <1>9, <1>10, <1>11 DEF Typed

\* A step that only takes a checkpoint and changes how the execution goes on.
LEMMA CheckpointTyped ==
  ASSUME Typed, UNCHANGED <<graph, known, answers, ran, nextN, chanVars, runVars, taskVars, step, ext>>,
         pc' \in Phases, skips' \subseteq Nodes, CkptOK'
  PROVE  Typed'
<1>1. /\ graph' = graph /\ Nodes' = Nodes /\ Channels' = Channels
  BY Frames
<1>2. ChanOK'
  BY <1>1, Frames DEF ChanOK, chanVars, runVars
<1>3. TasksOK'
  BY <1>1, Frames DEF TasksOK, taskVars
<1>4. StateOK'
  BY <1>1 DEF Typed, StateOK, BagOK
<1>5. GraphOK'
  BY <1>1 DEF Typed, GraphOK
<1> QED BY <1>2, <1>3, <1>4, <1>5 DEF Typed

LEMMA InterruptTyped ==
  ASSUME Typed, NEW stp \in Int, stp >= -1, NEW next, BagOK(next), NEW node, NEW sk \in SUBSET Nodes,
         HandleInterrupt(stp, next, node, sk), skips' \subseteq Nodes
  PROVE  Typed'
<1>1. SaveInRun(Snapshot(stp, next, EmptyBag, node, sk))
  BY DEF HandleInterrupt, SaveInRun
<1>2. graph' = graph /\ WritesOK(EmptyBag)
  BY EmptyBagOK DEF HandleInterrupt, graphVars
<1>3. CkptOK'
  BY <1>1, <1>2, SaveTyped
<1>4. /\ UNCHANGED <<graph, known, answers, ran, nextN, chanVars, runVars, taskVars, step, ext>>
      /\ pc' \in Phases
  BY DEF HandleInterrupt, Phases, graphVars
<1> QED BY <1>3, <1>4, CheckpointTyped

LEMMA TasksTyped ==
  ASSUME Typed, NEW ts \in SUBSET DOMAIN tasks
  PROVE  IsFiniteSet(ts) /\ NodesOf(ts) \subseteq Nodes /\ BagOK(BagOfTasks(ts))
<1>1. IsFiniteSet(ts)
  BY FS_Subset DEF Typed, TasksOK
<1>2. NodesOf(ts) \subseteq Nodes
  BY DEF Typed, TasksOK, TaskOK, NodesOf
<1> QED BY <1>1, <1>2, TaskBag DEF BagOK

LEMMA BeforeStepTyped ==
  ASSUME Typed, BeforeStep
  PROVE  Typed'
<1>1. skips \subseteq Nodes /\ step \in Nat
  BY DEF Typed, StateOK, GraphOK
<1>2. BagOK(BagOfTasks(DOMAIN tasks)) /\ NodesOf(DOMAIN tasks) \subseteq Nodes
  BY TasksTyped
<1>3. BagOK(SetToBag(NodesOf(DOMAIN tasks)))
  BY <1>2, SetBag DEF BagOK
<1>4. Hits \subseteq Nodes
  BY <1>2 DEF Hits
<1>5. CASE ExternalInterruptBeforeStep
  <2>1. HandleInterrupt(step - 1, BagOfTasks(DOMAIN tasks), "none", skips) /\ skips' = skips
    BY <1>5 DEF ExternalInterruptBeforeStep
  <2>2. step - 1 \in Int /\ step - 1 >= -1
    BY <1>1
  <2> QED BY <1>1, <1>2, <2>1, <2>2, InterruptTyped
<1>6. CASE StaticInterruptBeforeStep
  <2>1. /\ HandleInterrupt(step, SetToBag(NodesOf(DOMAIN tasks)), "none", skips \cup Hits)
        /\ skips' = skips \cup Hits
    BY <1>6 DEF StaticInterruptBeforeStep
  <2>2. step \in Int /\ step >= -1 /\ skips \cup Hits \subseteq Nodes
    BY <1>1, <1>4
  <2> QED BY <1>3, <2>1, <2>2, InterruptTyped
<1>7. CASE StartStep
  <2>1. /\ UNCHANGED <<graph, known, answers, ran, nextN, chanVars, runVars, taskVars, step, ext, ckpt>>
        /\ pc' \in Phases /\ skips' \subseteq Nodes
    BY <1>1, <1>7 DEF StartStep, graphVars, Phases
  <2>2. CkptOK'
    BY <2>1, Frames
  <2> QED BY <2>1, <2>2, CheckpointTyped
<1> QED BY <1>5, <1>6, <1>7 DEF BeforeStep

LEMMA StepEndTyped ==
  ASSUME Typed, StepEnd
  PROVE  Typed'
<1>1. /\ GraphOK /\ skips \subseteq Nodes /\ step \in Int /\ step >= -1
      /\ GetNextNodes \subseteq Nodes /\ err.node \in Nodes
  BY NextNodesTyped DEF Typed, StateOK, GraphOK, TasksOK
<1>2. \A S \in SUBSET Nodes : BagOK(SetToBag(S))
  BY SetBag DEF BagOK
<1>3. CASE InternalInterrupt
  <2>1. /\ HandleInterrupt(step, SetToBag(WithNode(GetNextNodes, err.node)), err.node, skips)
        /\ skips' = skips
    BY <1>3 DEF InternalInterrupt
  <2>2. BagOK(SetToBag(WithNode(GetNextNodes, err.node)))
    BY <1>1, <1>2 DEF WithNode
  <2> QED BY <1>1, <2>1, <2>2, InterruptTyped
<1>4. CASE ForcedInterrupt
  <2> DEFINE a == BagOfTasks(TasksToRerun)
             b == SetToBag(GetNextNodes \ NodesOf(TasksToRerun))
  <2>1. HandleInterrupt(step, a (+) b, "none", skips) /\ skips' = skips
    BY <1>4 DEF ForcedInterrupt
  <2>2. BagOK(a)
    BY TasksTyped DEF TasksToRerun, Unfinished
  <2>3. BagOK(b)
    BY <1>1, <1>2
  <2> HIDE DEF a, b
  <2>4. BagOK(a (+) b)
    BY <2>2, <2>3, SumBag DEF BagOK
  <2> QED BY <1>1, <2>1, <2>4, InterruptTyped
<1>5. CASE StepFails
  <2>1. /\ UNCHANGED <<graph, known, answers, ran, nextN, chanVars, runVars, taskVars, step, ext, ckpt, skips>>
        /\ pc' \in Phases
    BY <1>5 DEF StepFails, graphVars, stateVars, Phases
  <2>2. CkptOK'
    BY <2>1, Frames
  <2> QED BY <1>1, <2>1, <2>2, CheckpointTyped
<1>6. CASE StaticInterruptAfterStep
  <2>1. HandleInterrupt(step, SetToBag(GetNextNodes), "none", skips) /\ skips' = skips
    BY <1>6 DEF StaticInterruptAfterStep
  <2> QED BY <1>1, <1>2, <2>1, InterruptTyped
<1>7. CASE LoopCheckpoint
  <2>1. /\ SaveInRun(Snapshot(step, SetToBag(GetNextNodes), pendW, "none", skips))
        /\ pendW' = EmptyBag /\ tasks' = NoTasks /\ pc' = "plan" /\ step' = step + 1
        /\ replaying' = FALSE
        /\ UNCHANGED <<graph, known, answers, stateVars, chan, saw, base, err, pendT, ext>>
    BY <1>7 DEF LoopCheckpoint, graphVars, runVars
  <2>2. CkptOK'
    BY <1>1, <1>2, <2>1, SaveTyped DEF Typed, ChanOK
  <2>3. Nodes' = Nodes /\ Channels' = Channels /\ JoinFrom' = JoinFrom
    BY <2>1, Frames
  <2>4. StateOK'
    BY <2>1, Frames
  <2>5. ChanOK'
    <3>1. VersionsOK(saw)' /\ VersionsOK(base)' /\ replaying' \in BOOLEAN
      BY <2>1, <2>3 DEF Typed, ChanOK, VersionsOK
    <3>2. WritesOK(pendW)'
      BY <2>1, EmptyBagParts DEF WritesOK
    <3>3. ChannelsOK(chan)'
      BY <2>1, <2>3 DEF Typed, ChanOK, ChannelsOK, ChannelType, Settled, Satisfied
    <3> QED BY <3>1, <3>2, <3>3 DEF ChanOK
  <2>6. TasksOK'
    <3>1. DOMAIN tasks' = {} /\ IsFiniteSet({})
      BY <2>1, FS_EmptySet DEF NoTasks
    <3>2. BagOK(pendT)' /\ err'.node \in Nodes'
      BY <1>1, <2>1, <2>3, Frames
    <3> QED BY <3>1, <3>2 DEF TasksOK
  <2>7. GraphOK'
    BY <1>1, <2>1, <2>3 DEF GraphOK, Phases
  <2> QED BY <2>2, <2>4, <2>5, <2>6, <2>7 DEF Typed
<1> QED BY <1>3, <1>4, <1>5, <1>6, <1>7 DEF StepEnd

\* A task goes on: what it leaves in tasks, and that it ran is noted.
LEMMA SetTaskTyped ==
  ASSUME Typed, graph' = graph, NEW t \in DOMAIN tasks, NEW st \in TaskStates, NEW to \in SUBSET Nodes,
         SetTask(t, st, to), err' = err \/ err'.node \in Nodes, BagOK(pendT')
  PROVE  TasksOK'
<1>1. tasks' = [tasks EXCEPT ![t] = [st |-> st, to |-> to]]
  BY DEF SetTask
<1>2. DOMAIN tasks' = DOMAIN tasks
  BY <1>1
<1>3. \A u \in DOMAIN tasks' : TaskOK(u, tasks'[u])
  <2> TAKE u \in DOMAIN tasks'
  <2>1. TaskOK(u, tasks[u])
    BY <1>2 DEF Typed, TasksOK
  <2>2. tasks'[u] = IF u = t THEN [st |-> st, to |-> to] ELSE tasks[u]
    BY <1>1, <1>2
  <2> QED BY <2>1, <2>2 DEF TaskOK
<1>4. Nodes' = Nodes /\ err'.node \in Nodes
  BY Frames DEF Typed, TasksOK
<1> QED BY <1>2, <1>3, <1>4 DEF Typed, TasksOK, TaskOK, BagOK

LEMMA RoutesTyped ==
  ASSUME Typed, NEW S \in SUBSET Nodes
  PROVE  {<<"branch", m>> : m \in S} \in SUBSET Channels /\ {<<"trigger", m>> : m \in S} \in SUBSET Channels
BY DEF Channels

\* What a task writes to channels.
LEMMA WriteTyped ==
  ASSUME Typed, graph' = graph, NEW n \in Nodes, NEW cs \in SUBSET Channels,
         chan' = WriteAll(cs, n), pendW' = PendingAll(cs, n)
  PROVE  ChannelsOK(chan)' /\ WritesOK(pendW)'
<1>1. graph \in Graphs /\ ChannelsOK(chan) /\ WritesOK(pendW)
  BY DEF Typed, GraphOK, ChanOK
<1>2. ChannelsOK(chan')
  BY <1>1, WriteAllOK
<1>3. WritesOK(pendW')
  BY <1>1, PendingAllOK
<1>4. Nodes' = Nodes /\ Channels' = Channels /\ JoinFrom' = JoinFrom
  BY Frames
<1> QED BY <1>2, <1>3, <1>4 DEF ChannelsOK, WritesOK, ChannelType, Settled, Satisfied

LEMMA OutcomeTyped ==
  ASSUME Typed, NEW n \in Nodes, NEW o \in Outcomes[n]
  PROVE  o.kind \in OutcomeKinds /\ o.to \in SUBSET Nodes
<1>1. Outcomes \in [Nodes -> SUBSET OutcomeType(Nodes)]
  BY GraphTyped DEF Typed, GraphOK
<1> QED BY <1>1 DEF OutcomeType

\* The parts that a step of a task leaves alone.
LEMMA ExecTyped ==
  ASSUME Typed, UNCHANGED_Exec, known' \subseteq Channels, ran' \in [Nodes -> Nat],
         ChannelsOK(chan)', WritesOK(pendW)', VersionsOK(saw'), TasksOK'
  PROVE  Typed'
<1>1. UNCHANGED <<graph, answers, nextN, skips, base, replaying, pc, step, ext, ckpt>>
  BY DEF UNCHANGED_Exec, runVars
<1>2. Nodes' = Nodes /\ Channels' = Channels /\ CkptOK' /\ VersionsOK(base)' /\ replaying' \in BOOLEAN
  BY <1>1, Frames
<1>3. ChanOK'
  BY <1>2 DEF ChanOK, VersionsOK
<1>4. StateOK'
  BY <1>1, <1>2 DEF Typed, StateOK, BagOK
<1>5. GraphOK'
  BY <1>1, <1>2 DEF Typed, GraphOK
<1> QED BY <1>2, <1>3, <1>4, <1>5 DEF Typed

LEMMA SawTyped ==
  ASSUME Typed, NEW n \in Nodes, UpdateVersionsSeen(n) \/ saw' = saw
  PROVE  VersionsOK(saw')
<1>1. VersionsOK(saw) /\ ChannelsOK(chan)
  BY DEF Typed, ChanOK
<1>2. CASE UpdateVersionsSeen(n)
  <2>1. [c \in Channels |-> IF c \in Triggers(n) THEN chan[c].ver ELSE saw[n][c]] \in [Channels -> Nat]
    BY <1>1 DEF VersionsOK, ChannelsOK, ChannelType
  <2>2. saw' = [saw EXCEPT ![n] = [c \in Channels |-> IF c \in Triggers(n) THEN chan[c].ver ELSE saw[n][c]]]
    BY <1>2 DEF UpdateVersionsSeen
  <2> QED BY <1>1, <2>1, <2>2 DEF VersionsOK
<1> QED BY <1>1, <1>2

LEMMA RunTaskTyped ==
  ASSUME Typed, NEW t \in DOMAIN tasks, RunTask(t)
  PROVE  Typed'
<1> DEFINE n == t[1]
<1>1. n \in Nodes /\ "wrote" \in TaskStates /\ {} \in SUBSET Nodes
  BY DEF Typed, TasksOK, TaskOK, TaskStates
<1>2. UNCHANGED_Exec /\ graph' = graph /\ err' = err /\ saw' = saw /\ VersionsOK(saw')
  BY DEF RunTask, UNCHANGED_Exec, Typed, ChanOK
<1>3. ran' \in [Nodes -> Nat]
  <2>1. ran' = [ran EXCEPT ![n] = ran[n] + 1] /\ ran \in [Nodes -> Nat]
    BY DEF RunTask, Typed, StateOK
  <2> QED BY <1>1, <2>1
<1>4. known \subseteq Channels /\ BagOK(pendT)
  BY DEF Typed, GraphOK, TasksOK
<1>5. PICK o \in Outcomes[n] : ResultState(t, o) \/ ResultGoTo(t, o) \/ ResultFanOut(t, o)
  BY DEF RunTask
<1>6. o.to \in SUBSET Nodes
  BY <1>1, OutcomeTyped
<1>7. CASE ResultState(t, o)
  <2>1. /\ chan' = WriteAll(Writers(n), n) /\ pendW' = PendingAll(Writers(n), n)
        /\ SetTask(t, "wrote", o.to) /\ known' = known /\ pendT' = pendT
    BY <1>7 DEF ResultState
  <2>2. Writers(n) \in SUBSET Channels
    BY <1>1, GraphTyped DEF Typed, GraphOK
  <2> HIDE DEF n
  <2>3. ChannelsOK(chan)' /\ WritesOK(pendW)'
    BY <1>1, <1>2, <2>1, <2>2, WriteTyped
  <2>4. TasksOK'
    BY <1>1, <1>2, <1>4, <1>6, <2>1, SetTaskTyped
  <2> QED BY <1>2, <1>3, <1>4, <2>1, <2>3, <2>4, ExecTyped
<1>8. CASE ResultGoTo(t, o)
  <2> DEFINE cs == {<<"trigger", m>> : m \in o.to}
  <2>1. /\ chan' = WriteAll(cs, n) /\ pendW' = PendingAll(cs, n)
        /\ SetTask(t, "wrote", {}) /\ known' = known \cup cs /\ pendT' = pendT
    BY <1>8 DEF ResultGoTo
  <2>2. cs \in SUBSET Channels
    BY <1>6, RoutesTyped
  <2> HIDE DEF n, cs
  <2>3. ChannelsOK(chan)' /\ WritesOK(pendW)'
    BY <1>1, <1>2, <2>1, <2>2, WriteTyped
  <2>4. TasksOK'
    BY <1>1, <1>2, <1>4, <2>1, SetTaskTyped
  <2>5. known' \subseteq Channels
    BY <1>4, <2>1, <2>2
  <2> QED BY <1>2, <1>3, <2>3, <2>4, <2>5, ExecTyped
<1>9. CASE ResultFanOut(t, o)
  <2>1. /\ pendT' = pendT (+) SetToBag(o.to) /\ UNCHANGED <<chan, pendW, known>>
        /\ SetTask(t, "wrote", {})
    BY <1>9 DEF ResultFanOut
  <2>2. BagOK(pendT')
    BY <1>4, <1>6, <2>1, SetBag, SumBag DEF BagOK
  <2>3. TasksOK'
    BY <1>1, <1>2, <2>1, <2>2, SetTaskTyped
  <2>4. ChannelsOK(chan)' /\ WritesOK(pendW)'
    BY <1>2, <2>1, Frames
  <2> QED BY <1>2, <1>3, <1>4, <2>1, <2>3, <2>4, ExecTyped
<1> QED BY <1>5, <1>7, <1>8, <1>9

LEMMA FinishTaskTyped ==
  ASSUME Typed, NEW t \in DOMAIN tasks, FinishTask(t)
  PROVE  Typed'
<1> DEFINE n == t[1]
           cs == {<<"branch", m>> : m \in tasks[t].to}
<1>1. n \in Nodes /\ tasks[t].to \in SUBSET Nodes /\ {} \in SUBSET Nodes
  BY DEF Typed, TasksOK, TaskOK
<1>2. /\ UNCHANGED_Exec /\ graph' = graph /\ ran' = ran /\ pendT' = pendT /\ err' = err
      /\ UpdateVersionsSeen(n) /\ chan' = WriteAll(cs, n) /\ pendW' = PendingAll(cs, n)
      /\ known' = known \cup cs
  BY DEF FinishTask, UNCHANGED_Exec
<1>3. PICK st \in {"waiting", "done"} : SetTask(t, st, {})
  BY DEF FinishTask
<1>4. st \in TaskStates
  BY DEF TaskStates
<1>5. known \subseteq Channels /\ BagOK(pendT) /\ ran \in [Nodes -> Nat]
  BY DEF Typed, GraphOK, TasksOK, StateOK
<1>6. cs \in SUBSET Channels
  BY <1>1, RoutesTyped
<1> HIDE DEF n, cs
<1>7. ChannelsOK(chan)' /\ WritesOK(pendW)'
  BY <1>1, <1>2, <1>6, WriteTyped
<1>8. VersionsOK(saw')
  BY <1>1, <1>2, SawTyped
<1>9. TasksOK'
  BY <1>1, <1>2, <1>3, <1>4, <1>5, SetTaskTyped
<1>10. known' \subseteq Channels
  BY <1>2, <1>5, <1>6
<1> QED BY <1>2, <1>5, <1>7, <1>8, <1>9, <1>10, ExecTyped

\* The steps of a task that only change how it stands.
LEMMA StandTyped ==
  ASSUME Typed, NEW t \in DOMAIN tasks, NEW st \in {"done", "stopped"}, SetTask(t, st, {}),
         UNCHANGED_Exec, UNCHANGED <<known, ran, chan, pendW, pendT>>,
         err' = err \/ err'.node = t[1], UpdateVersionsSeen(t[1]) \/ saw' = saw
  PROVE  Typed'
<1>1. t[1] \in Nodes /\ {} \in SUBSET Nodes /\ st \in TaskStates
  BY DEF Typed, TasksOK, TaskOK, TaskStates
<1>2. graph' = graph /\ BagOK(pendT') /\ known' \subseteq Channels /\ ran' \in [Nodes -> Nat]
  BY DEF UNCHANGED_Exec, Typed, TasksOK, GraphOK, StateOK
<1>3. err' = err \/ err'.node \in Nodes
  BY <1>1
<1>4. TasksOK'
  BY <1>1, <1>2, <1>3, SetTaskTyped
<1>5. VersionsOK(saw')
  BY <1>1, SawTyped
<1>6. ChannelsOK(chan)' /\ WritesOK(pendW)'
  BY <1>2, Frames
<1> QED BY <1>2, <1>4, <1>5, <1>6, ExecTyped

LEMMA TaskStepTyped ==
  ASSUME Typed, TaskStep
  PROVE  Typed'
<1>1. PICK t \in DOMAIN tasks : \/ RunTask(t) \/ FinishTask(t) \/ ReleaseTask(t)
                                \/ InterruptTask(t) \/ FailTask(t) \/ FailCondition(t)
                                \/ BarrierTimesOut(t) \/ CancelTask(t)
  BY DEF TaskStep
<1>2. CASE ReleaseTask(t)
  <2>1. /\ SetTask(t, "done", {}) /\ UNCHANGED_Exec /\ UNCHANGED <<known, ran, chan, pendW, pendT>>
        /\ err' = err /\ saw' = saw
    BY <1>2 DEF ReleaseTask, chanVars
  <2> QED BY <2>1, StandTyped
<1>3. CASE InterruptTask(t) \/ FailTask(t) \/ FailCondition(t) \/ BarrierTimesOut(t) \/ CancelTask(t)
  <2>1. /\ \E kind : StopTask(t, kind)
        /\ UpdateVersionsSeen(t[1]) \/ saw' = saw
    BY <1>3 DEF InterruptTask, FailTask, FailCondition, BarrierTimesOut, CancelTask
  <2>2. /\ SetTask(t, "stopped", {}) /\ UNCHANGED_Exec /\ UNCHANGED <<known, ran, chan, pendW, pendT>>
        /\ err' = err \/ err'.node = t[1]
    BY <2>1 DEF StopTask, FirstError
  <2> QED BY <2>1, <2>2, StandTyped
<1> QED BY <1>1, <1>2, <1>3, RunTaskTyped, FinishTaskTyped

LEMMA NextTyped ==
  ASSUME Typed, Next
  PROVE  Typed'
<1>1. CASE InputCheckpoint
  <2> DEFINE k == [Snapshot(-1, SetToBag({Entry}), EmptyBag, "none", skips)
                     EXCEPT !.owed = [n \in Nodes |-> IF n = Entry THEN 1 ELSE 0]]
  <2>1. /\ SaveInRun(k) /\ pc' = "plan"
        /\ UNCHANGED <<graph, known, answers, ran, nextN, skips, chanVars, runVars, taskVars, step, ext>>
    BY <1>1 DEF InputCheckpoint, graphVars, stateVars
  <2>2. PICK stp \in Int : stp = -1
    OBVIOUS
  <2>3. /\ k.step = stp /\ k.next = SetToBag({Entry}) /\ k.writes = EmptyBag /\ k.ran = ran
        /\ k.skips = skips /\ k.saw = saw
        /\ k.vers = [c \in Channels |-> chan[c].ver] /\ k.seen = [c \in Channels |-> chan[c].seen]
    BY <2>2 DEF Snapshot
  <2> HIDE DEF k
  <2>4. /\ k.vers \in [Channels -> Nat] /\ k.seen \in [Channels -> SUBSET Nodes]
        /\ \A c \in Channels : IsJoin(c) \/ k.seen[c] = {}
    BY <2>3 DEF Typed, ChanOK, ChannelsOK, ChannelType, Settled
  <2>5. BagOK(SetToBag({Entry}))
    BY SetBag, GraphTyped DEF BagOK, Typed, GraphOK
  <2>6. CheckpointOK(k)
    BY <2>2, <2>3, <2>4, <2>5, EmptyBagOK DEF Typed, StateOK, ChanOK, CheckpointOK, SavedOK
  <2>7. CkptOK'
    <3>1. Nodes' = Nodes /\ Channels' = Channels
      BY <2>1, Frames
    <3>2. CASE ckpt' = k
      BY <2>6, <3>1, <3>2 DEF CkptOK, CheckpointOK, SavedOK, WritesOK, BagOK, VersionsOK
    <3>3. CASE ckpt' = ckpt
      BY <2>1, <3>3, Frames
    <3> QED BY <2>1, <3>2, <3>3 DEF SaveInRun, Save
  <2>8. pc' \in Phases /\ skips' \subseteq Nodes
    BY <2>1 DEF Phases, Typed, StateOK
  <2> QED BY <2>1, <2>7, <2>8, CheckpointTyped
<1>2. CASE OutOfSteps
  <2>1. /\ UNCHANGED <<graph, known, answers, ran, nextN, skips, chanVars, runVars, taskVars, step, ext, ckpt>>
        /\ pc' \in Phases
    BY <1>2 DEF OutOfSteps, graphVars, stateVars, Phases
  <2>2. CkptOK' /\ skips' \subseteq Nodes
    BY <2>1, Frames DEF Typed, StateOK
  <2> QED BY <2>1, <2>2, CheckpointTyped
<1> QED BY <1>1, <1>2, ExecuteTyped, EnvironmentTyped, PlanTyped, BeforeStepTyped, StepEndTyped,
           TaskStepTyped DEF Next, Engine

LEMMA StutterTyped ==
  ASSUME Typed, UNCHANGED vars
  PROVE  Typed'
<1>1. /\ UNCHANGED <<graph, known, answers, ran, nextN, skips, chanVars, runVars, taskVars, step, ext, ckpt>>
      /\ pc' \in Phases
  BY DEF vars, graphVars, stateVars, Typed, GraphOK
<1>2. CkptOK' /\ skips' \subseteq Nodes
  BY <1>1, Frames DEF Typed, StateOK
<1> QED BY <1>1, <1>2, CheckpointTyped

(***************************************************************************)
(* For every graph, every variable of the engine stays of its type: a step *)
(* only ever plans, interrupts at, or resumes with nodes of the graph, and *)
(* a checkpoint holds only writes to its channels, so that rebuilding the  *)
(* channels from it (restoreChannelVersions, restoreBarrierSets and        *)
(* applyPendingWrites) gives channels again.                               *)
(***************************************************************************)
THEOREM TypeCorrect == Spec => []TypeOK
<1>1. Typed => TypeOK
  BY DEF Typed, GraphOK, StateOK, ChanOK, TasksOK, TaskOK, ChannelsOK, ChannelType, WritesOK,
         VersionsOK, BagOK, TypeOK, NodesOf, Phases
<1> QED BY InitTyped, NextTyped, StutterTyped, <1>1, PTL DEF Spec
-----------------------------------------------------------------------------
(* Resumption.  What a graph must be for it to lose and repeat nothing,    *)
(* and what it must never resume from.                                     *)

MayAsk(n)  == \E o \in Outcomes[n] : o.kind = "interrupt"
MayFail(n) == \E o \in Outcomes[n] : o.kind = "fail"

NoFanOut == \A n \in Nodes : \A o \in Outcomes[n] : o.kind # "fan"
\* Where a node asks a human, nothing else cuts a task off.
AsksAlone == \A n \in Nodes : MayAsk(n) => ~CanForce /\ \A m \in Nodes \ {n} : ~MayAsk(m) /\ ~MayFail(m)
\* Nodes go only where the compiled graph leads.
StaticRoutes == \A n \in Nodes : \A o \in Outcomes[n] :
                  o.kind # "goto" /\ \A m \in o.to : <<"branch", m>> \in Compiled
\* A node with a join edge is reached by it alone.
OnlyJoined ==
  \A n \in Nodes : JoinFrom[n] # {} =>
     /\ n # Entry /\ \A e \in Edges : e[2] # n
     /\ \A m \in Nodes : \A o \in Outcomes[m] : n \notin o.to
\* A pause that cuts tasks off finds none that has added its result.
CutEarly == CanForce => ~NodeBarrier /\ \A n \in Nodes : ~MayFail(n)

\* Checkpoint k holds writes that were replayed already, among those of its step.
Stale(k) == k.replayed /\ k.writes # EmptyBag
\* Checkpoint k was taken at an interrupt, when a join was complete.
ReadyJoin(k) == k.writes = EmptyBag /\ \E c \in Channels : IsJoin(c) /\ k.seen[c] # {} /\ Satisfied(c, k.seen[c])
Clean == fresh => ~Stale(ckpt) /\ ~ReadyJoin(ckpt)

Written(b, c) == \E w \in BagToSet(b) : w[1] = c
Ready(c, seen) == IsJoin(c) => Satisfied(c, seen)
One(p) == IF p THEN 1 ELSE 0

\* One task of a node at a time.
Quiet ==
  /\ pendT = EmptyBag /\ crashes \in Nat
  /\ \A t \in DOMAIN tasks : t[2] = 1 /\ \A m \in tasks[t].to : \E o \in Outcomes[t[1]] : m \in o.to
  /\ \A n \in Nodes : CopiesOf(n, nextN) <= 1
  /\ pc \notin {"plan", "completed"} => nextN = EmptyBag
  /\ pc \in {"idle", "input", "plan"} => tasks = NoTasks
  /\ pc \in {"idle", "input", "plan", "start"} => err = NoError
  /\ pc = "start" => \A t \in DOMAIN tasks : tasks[t].st = "todo"

\* Why a task is cut off.
Stopped ==
  /\ err = NoError \/ err.kind \in {"interrupt", "error", "canceled"}
  /\ \A t \in DOMAIN tasks :
       /\ tasks[t].st = "stopped" => err # NoError /\ (MayAsk(t[1]) \/ MayFail(t[1]) \/ CanForce)
       /\ tasks[t].st = "waiting" => NodeBarrier
  /\ err.kind = "interrupt" => /\ MayAsk(err.node) /\ <<err.node, 1>> \in DOMAIN tasks
                               /\ tasks[<<err.node, 1>>].st = "stopped"
  /\ err.kind = "error" => MayFail(err.node)
  /\ err.kind = "canceled" \/ ext = "forced" => CanForce

\* What is available between steps was planned, and during a step was written in it.
Drained ==
  /\ \/ pc \in {"input", "start"}
     \/ pc = "plan" /\ (step = 0 \/ nextN # EmptyBag)
     => Available = {}
  /\ pc = "exec" => \A c \in Available : c \in known /\ Written(pendW, c)
  /\ Compiled \subseteq known /\ (~resumed => Available \subseteq known)

\* A node has seen versions of its own channels, up to the present ones.
Behind(s, v) == \A n \in Nodes, c \in Channels : s[n][c] <= v[c] /\ (c \notin Triggers(n) => s[n][c] = 0)
Versions == [c \in Channels |-> chan[c].ver]
\* The writes kept for the next checkpoint, if they are those of the step.
OwnWrites ==
  /\ pc \in {"input", "plan", "start"} => pendW = EmptyBag
  /\ pc = "exec" => \A w \in BagToSet(pendW) :
       IF IsJoin(w[1]) THEN w[2] \in chan[w[1]].seen ELSE chan[w[1]].avail
Matched ==
  /\ Behind(saw, Versions) /\ Behind(base, Versions)
  /\ pc \in {"plan", "exec"} => \A c \in Available : IsJoin(c) \/ chan[c].ver > base[Target(c)][c]
  /\ ~replaying => OwnWrites

\* What the writes of checkpoint k trigger when they are done again.
Again(k) == {Target(c) : c \in {d \in Channels : Written(k.writes, d) /\ Ready(d, k.seen[d])}}
\* Checkpoint k lists what was owed: as next nodes, or else by its writes.
ListedIn(k) == \A n \in Nodes : /\ CopiesOf(n, k.next) <= k.owed[n]
                                /\ AsksAlone /\ k.owed[n] <= 1 => CopiesOf(n, k.next) = k.owed[n]
WrittenIn(k) == /\ \A n \in Nodes : k.owed[n] = One(n \in Again(k))
                /\ \A w \in BagToSet(k.writes) : IsJoin(w[1]) => w[2] \in k.seen[w[1]]
FaithfulTo(k) ==
  /\ k.step = -1 => k.writes = EmptyBag
  /\ \A n \in Nodes : CopiesOf(n, k.next) <= 1 /\ k.owed[n] \in Nat
  /\ Behind(k.saw, k.vers)
  /\ k.writes # EmptyBag =>
       \A c \in Channels : IsJoin(c) /\ k.seen[c] # {} /\ Satisfied(c, k.seen[c]) => Written(k.writes, c)
  /\ k.writes = EmptyBag => ListedIn(k)
  /\ k.writes # EmptyBag /\ ~k.replayed => WrittenIn(k)
Faithful == ckpt # NoCheckpoint => FaithfulTo(ckpt)

\* A resumed execution that has not planned is the checkpoint's.
Untouched ==
  fresh => /\ pc = "plan" /\ ckpt # NoCheckpoint /\ nextN = ExecutableNextNodes(ckpt)
           /\ base = ckpt.saw /\ resumed /\ chan = [c \in Channels |-> Replayed(ckpt, c)]

\* The channels that every process of the lineage knows.
Lasting == IF MaxCrashes = 0 THEN known ELSE Compiled
RoutedIn(b) == \A w \in BagToSet(b) : w[1] \in Lasting
Routed == StaticRoutes \/ MaxCrashes = 0 =>
            RoutedIn(pendW) /\ (ckpt # NoCheckpoint => RoutedIn(ckpt.writes))

Steady == NoFanOut => Quiet /\ Stopped /\ Drained /\ Matched /\ Faithful /\ Untouched /\ Routed

LEMMA GraphSame ==
  ASSUME graph' = graph
  PROVE  /\ Nodes' = Nodes /\ Channels' = Channels /\ JoinFrom' = JoinFrom /\ Compiled' = Compiled
         /\ Entry' = Entry /\ Outcomes' = Outcomes /\ Edges' = Edges /\ NoError' = NoError
         /\ MaxCrashes' = MaxCrashes /\ CanForce' = CanForce /\ NodeBarrier' = NodeBarrier
         /\ NoFanOut' = NoFanOut /\ StaticRoutes' = StaticRoutes /\ AsksAlone' = AsksAlone
         /\ OnlyJoined' = OnlyJoined /\ CutEarly' = CutEarly
         /\ \A n : MayAsk(n)' = MayAsk(n) /\ MayFail(n)' = MayFail(n) /\ Triggers(n)' = Triggers(n)
<1>1. /\ Nodes' = Nodes /\ Channels' = Channels /\ JoinFrom' = JoinFrom /\ Compiled' = Compiled
      /\ Entry' = Entry /\ Outcomes' = Outcomes /\ Edges' = Edges /\ NoError' = NoError
      /\ MaxCrashes' = MaxCrashes /\ CanForce' = CanForce /\ NodeBarrier' = NodeBarrier
  BY DEF Nodes, Channels, JoinFrom, Compiled, Edges, Entry, Outcomes, NoError, MaxCrashes,
         CanForce, NodeBarrier
<1>2. \A n : MayAsk(n)' = MayAsk(n) /\ MayFail(n)' = MayFail(n) /\ Triggers(n)' = Triggers(n)
  BY <1>1 DEF MayAsk, MayFail, Triggers, Target
<1>3. AsksAlone' = AsksAlone
  BY <1>1, <1>2 DEF AsksAlone
<1>4. CutEarly' = CutEarly
  BY <1>1, <1>2 DEF CutEarly
<1>5. NoFanOut' = NoFanOut /\ OnlyJoined' = OnlyJoined /\ StaticRoutes' = StaticRoutes
  BY <1>1 DEF NoFanOut, OnlyJoined, StaticRoutes
<1> QED BY <1>1, <1>2, <1>3, <1>4, <1>5

LEMMA PendingParts ==
  ASSUME WritesOK(pendW), NEW cs, NEW n
  PROVE  BagToSet(PendingAll(cs, n)) = BagToSet(pendW) \cup {<<c, n>> : c \in cs}
<1>1. IsABag(pendW) /\ IsABag(SetToBag({<<c, n>> : c \in cs}))
  BY SetBag DEF WritesOK
<1> QED BY <1>1, SetBag, SumBag DEF PendingAll

\* At most one task of a node.
LEMMA OneTask ==
  ASSUME Typed, Quiet, NEW ts \in SUBSET DOMAIN tasks, NEW n
  PROVE  Cardinality({t \in ts : t[1] = n}) = IF n \in NodesOf(ts) THEN 1 ELSE 0
<1> DEFINE T == {t \in ts : t[1] = n}
<1>1. \A t \in T : t = <<n, 1>>
  BY DEF Typed, TasksOK, TaskOK, Quiet
<1>2. n \in NodesOf(ts) <=> T # {}
  BY DEF NodesOf
<1>3. T = {} \/ T = {<<n, 1>>}
  BY <1>1
<1>4. Cardinality({}) = 0 /\ Cardinality({<<n, 1>>}) = 1
  BY FS_EmptySet, FS_Singleton
<1> HIDE DEF T
<1>5. Cardinality(T) = IF n \in NodesOf(ts) THEN 1 ELSE 0
  BY <1>2, <1>3, <1>4
<1> QED BY <1>5 DEF T

LEMMA OwedParts ==
  ASSUME Typed, Quiet, NEW n \in Nodes
  PROVE  Owed[n] = CopiesOf(n, nextN) + (IF n \in Triggered THEN 1 ELSE 0)
                     + (IF n \in NodesOf(Unfinished) THEN 1 ELSE 0)
<1>1. CopiesOf(n, pendT) = 0
  BY EmptyBagParts DEF Quiet
<1>2. CopiesOf(n, nextN) \in Nat
  BY DEF Typed, StateOK, BagOK, CopiesOf, IsABag, BagToSet, BagIn
<1>3. Cardinality({t \in Unfinished : t[1] = n}) = IF n \in NodesOf(Unfinished) THEN 1 ELSE 0
  BY OneTask DEF Unfinished
<1>4. Owed[n] = CopiesOf(n, nextN) + CopiesOf(n, pendT) + (IF n \in Triggered THEN 1 ELSE 0)
                  + Cardinality({t \in Unfinished : t[1] = n})
  BY DEF Owed
<1> QED BY <1>1, <1>2, <1>3, <1>4

\* What a restart makes of the channels of a checkpoint it may rely on.
LEMMA ReplayedParts ==
  ASSUME Typed, NEW k, CheckpointOK(k), FaithfulTo(k), ~Stale(k), ~ReadyJoin(k),
         NEW c \in Channels, NEW h, h = Replayed(k, c)
  PROVE  /\ h.seen = k.seen[c]
         /\ h.avail => Written(k.writes, c) /\ Ready(c, k.seen[c])
         /\ Written(k.writes, c) /\ Exists(c) /\ Ready(c, k.seen[c]) => h.avail
         /\ Written(k.writes, c) /\ Exists(c) => h.ver > k.vers[c]
         /\ h.avail /\ ~IsJoin(c) => Exists(c)
         /\ ~Written(k.writes, c) => h.ver = IF Exists(c) THEN k.vers[c] ELSE 0
<1> DEFINE ws == {w \in BagToSet(k.writes) : w[1] = c}
           r  == RestoredChannel(k, c)
           seen == IF IsJoin(c) THEN r.seen \cup {w[2] : w \in ws} ELSE {}
           pairs == UNION {{w} \X (1..k.writes[w]) : w \in ws}
<1>1. ws # {} <=> Written(k.writes, c)
  BY DEF Written
<1>2. /\ r.seen = k.seen[c] /\ r.ver = IF Exists(c) THEN k.vers[c] ELSE 0
      /\ r.avail = (IsJoin(c) /\ k.seen[c] # {} /\ Satisfied(c, k.seen[c]))
  BY DEF RestoredChannel
<1>3. seen = k.seen[c]
  <2>1. CASE IsJoin(c)
    <3>1. \A w \in ws : w[2] \in k.seen[c]
      BY <2>1, EmptyBagParts DEF FaithfulTo, WrittenIn, Stale
    <3> QED BY <1>2, <2>1, <3>1
  <2>2. CASE ~IsJoin(c)
    BY <2>2 DEF CheckpointOK, SavedOK
  <2> QED BY <2>1, <2>2
<1>4. h = IF ws = {} \/ ~Exists(c) THEN r
          ELSE [ver |-> r.ver + Cardinality(pairs), seen |-> seen, avail |-> IsJoin(c) => Satisfied(c, seen)]
  BY DEF Replayed
<1>5. CASE ws = {} \/ ~Exists(c)
  <2>1. h = r
    BY <1>4, <1>5
  <2>2. h.avail => Written(k.writes, c) /\ Ready(c, k.seen[c])
    BY <1>2, <2>1 DEF FaithfulTo, Ready, ReadyJoin
  <2>3. h.avail => IsJoin(c)
    BY <1>2, <2>1
  <2> HIDE DEF ws, r
  <2> QED BY <1>1, <1>2, <1>5, <2>1, <2>2, <2>3
<1>6. CASE ~(ws = {} \/ ~Exists(c))
  <2>1. IsFiniteSet(pairs) /\ Cardinality(pairs) \in Nat /\ pairs # {}
    <3>1. IsFiniteSet(Channels \X Nodes)
      BY GraphTyped, FS_Product DEF Typed, GraphOK
    <3>2. ws \subseteq Channels \X Nodes
      BY DEF CheckpointOK, SavedOK, WritesOK
    <3>3. IsFiniteSet(ws)
      BY <3>1, <3>2, FS_Subset
    <3>4. \A w \in ws : k.writes[w] \in Nat /\ k.writes[w] > 0
      BY DEF CheckpointOK, SavedOK, WritesOK, IsABag, BagToSet
    <3>5. \A w \in ws : IsFiniteSet({w} \X (1..k.writes[w]))
      <4> TAKE w \in ws
      <4>1. \A p \in Int : IsFiniteSet(1..p)
        BY FS_Interval
      <4>2. k.writes[w] \in Int
        BY <3>4
      <4>3. IsFiniteSet(1..k.writes[w])
        <5> HIDE DEF ws
        <5> QED BY <4>1, <4>2, Zenon
      <4>4. IsFiniteSet({w})
        BY FS_Singleton
      <4> QED BY <4>3, <4>4, FS_Product
    <3>6. IsFiniteSet({{w} \X (1..k.writes[w]) : w \in ws})
      <4> DEFINE f == [w \in ws |-> {w} \X (1..k.writes[w])]
      <4>1. DOMAIN f = ws /\ {f[w] : w \in ws} = {{w} \X (1..k.writes[w]) : w \in ws}
        OBVIOUS
      <4>2. IsFiniteSet({f[w] : w \in ws})
        <5> HIDE DEF f, ws
        <5> QED BY <3>3, <4>1, FiniteImage
      <4> QED BY <4>1, <4>2
    <3>7. IsFiniteSet(pairs)
      <4>1. \A T \in {{w} \X (1..k.writes[w]) : w \in ws} : IsFiniteSet(T)
        BY <3>5
      <4> QED BY <3>6, <4>1, FS_UNION
    <3>8. pairs # {}
      <4>1. PICK w \in ws : TRUE
        BY <1>6
      <4>2. 1 \in 1..k.writes[w]
        BY <3>4
      <4>3. <<w, 1>> \in {w} \X (1..k.writes[w])
        BY <4>2
      <4> QED BY <4>3
    <3> HIDE DEF pairs
    <3> QED BY <3>7, <3>8, FS_CardinalityType
  <2>2. Cardinality(pairs) > 0
    <3> HIDE DEF pairs
    <3> QED BY <2>1, FS_EmptySet
  <2> HIDE DEF pairs, ws, seen, r
  <2>3. /\ h.ver = r.ver + Cardinality(pairs) /\ h.seen = seen
        /\ h.avail = (IsJoin(c) => Satisfied(c, seen))
    BY <1>4, <1>6
  <2>4. h.avail = Ready(c, k.seen[c])
    BY <1>3, <2>3 DEF Ready
  <2>5. k.vers[c] \in Nat /\ r.ver = k.vers[c]
    BY <1>2, <1>6 DEF CheckpointOK, SavedOK
  <2> QED BY <1>1, <1>3, <1>6, <2>1, <2>2, <2>3, <2>4, <2>5
<1> QED BY <1>5, <1>6

\* What a resumed execution owes before it has planned.
LEMMA FreshOwed ==
  ASSUME Typed, Quiet, Faithful, Untouched, Clean, fresh, NEW n \in Nodes
  PROVE  /\ Owed[n] <= ckpt.owed[n]
         /\ /\ Routed /\ Drained /\ (StaticRoutes \/ MaxCrashes = 0)
            /\ AsksAlone /\ ckpt.owed[n] <= 1
            => Owed[n] >= ckpt.owed[n]
<1>1. /\ pc = "plan" /\ ckpt # NoCheckpoint /\ nextN = ExecutableNextNodes(ckpt)
      /\ base = ckpt.saw /\ chan = [c \in Channels |-> Replayed(ckpt, c)]
  BY DEF Untouched
<1>2. CheckpointOK(ckpt) /\ FaithfulTo(ckpt) /\ ~Stale(ckpt) /\ ~ReadyJoin(ckpt)
  BY <1>1 DEF Typed, CkptOK, Faithful, Clean
<1>3. NodesOf(Unfinished) = {}
  BY <1>1 DEF Quiet, NoTasks, NodesOf, Unfinished
<1>4. Owed[n] = CopiesOf(n, nextN) + (IF n \in Triggered THEN 1 ELSE 0)
  <2>1. CopiesOf(n, nextN) \in Nat
    BY DEF Typed, StateOK, BagOK, CopiesOf, IsABag, BagToSet, BagIn
  <2> QED BY <1>3, <2>1, OwedParts
<1>5. \A c \in Channels :
         /\ chan[c].avail => Written(ckpt.writes, c) /\ Ready(c, ckpt.seen[c])
         /\ Written(ckpt.writes, c) /\ Exists(c) /\ Ready(c, ckpt.seen[c])
              => chan[c].avail /\ chan[c].ver > ckpt.vers[c]
  <2> TAKE c \in Channels
  <2>1. chan[c] = Replayed(ckpt, c)
    BY <1>1
  <2> QED BY <1>2, <2>1, ReplayedParts
<1>6. CASE ckpt.writes = EmptyBag
  <2>1. Triggered = {}
    BY <1>5, <1>6, EmptyBagParts DEF Triggered, Available, Written
  <2>2. Owed[n] = CopiesOf(n, ckpt.next)
    <3>1. CopiesOf(n, ckpt.next) \in Nat
      BY <1>2 DEF CheckpointOK, BagOK, CopiesOf, IsABag, BagToSet, BagIn
    <3> QED BY <1>1, <1>4, <1>6, <2>1, <3>1 DEF ExecutableNextNodes
  <2>3. /\ CopiesOf(n, ckpt.next) <= ckpt.owed[n] /\ ckpt.owed[n] \in Nat
        /\ CopiesOf(n, ckpt.next) \in Nat
        /\ AsksAlone /\ ckpt.owed[n] <= 1 => CopiesOf(n, ckpt.next) = ckpt.owed[n]
    BY <1>2, <1>6 DEF FaithfulTo, ListedIn, CheckpointOK, BagOK, CopiesOf, IsABag, BagToSet, BagIn
  <2> QED BY <2>2, <2>3
<1>7. CASE ckpt.writes # EmptyBag
  <2>1. Owed[n] = IF n \in Triggered THEN 1 ELSE 0
    BY <1>1, <1>4, <1>7, EmptyBagParts DEF ExecutableNextNodes
  <2>2. ckpt.owed[n] = IF n \in Again(ckpt) THEN 1 ELSE 0
    BY <1>2, <1>7 DEF FaithfulTo, WrittenIn, Stale, One
  <2>3. n \in Triggered => n \in Again(ckpt)
    BY <1>5 DEF Triggered, Available, Again
  <2>4. ASSUME Routed, Drained, StaticRoutes \/ MaxCrashes = 0, n \in Again(ckpt)
        PROVE  n \in Triggered
    <3>1. PICK c \in Channels : Target(c) = n /\ Written(ckpt.writes, c) /\ Ready(c, ckpt.seen[c])
      BY <2>4 DEF Again
    <3>2. c \in known
      BY <1>1, <2>4, <3>1 DEF Routed, RoutedIn, Drained, Lasting, Written
    <3>3. chan[c].avail /\ chan[c].ver > ckpt.vers[c]
      BY <1>5, <3>1, <3>2 DEF Exists
    <3>4. base[Target(c)][c] <= ckpt.vers[c]
      BY <1>1, <1>2, <3>1, ChannelParts DEF FaithfulTo, Behind
    <3>5. base[Target(c)][c] \in Nat /\ ckpt.vers[c] \in Nat /\ chan[c].ver \in Nat
      BY <1>2, <3>1, ChannelParts DEF Typed, ChanOK, VersionsOK, ChannelsOK, ChannelType, CheckpointOK, SavedOK
    <3>6. ShouldTrigger(c)
      BY <3>3, <3>4, <3>5 DEF ShouldTrigger
    <3> QED BY <3>1, <3>2, <3>3, <3>6 DEF Triggered, Available
  <2> QED BY <2>1, <2>2, <2>3, <2>4
<1> QED BY <1>6, <1>7

\* A bag of nodes holds none or some of each.
LEMMA CopiesTyped ==
  ASSUME NEW b, BagOK(b), NEW n
  PROVE  CopiesOf(n, b) \in Nat
BY DEF BagOK, CopiesOf, IsABag, BagToSet, BagIn

LEMMA SteadyMeans ==
  ASSUME Typed, Steady, NoFanOut, Clean
  PROVE  /\ NothingRepeated
         /\ /\ StaticRoutes \/ MaxCrashes = 0
            /\ AsksAlone /\ (fresh => \A n \in Nodes : ckpt.owed[n] <= 1)
            => NothingLost
<1>1. Quiet /\ Drained /\ Faithful /\ Untouched /\ Routed
  BY DEF Steady
<1>2. NothingRepeated
  BY <1>1, FreshOwed DEF NothingRepeated
<1>3. ASSUME StaticRoutes \/ MaxCrashes = 0, AsksAlone, fresh, \A n \in Nodes : ckpt.owed[n] <= 1
      PROVE  \A n \in Nodes : Owed[n] >= ckpt.owed[n]
  BY <1>1, <1>3, FreshOwed
<1> QED BY <1>2, <1>3 DEF NothingLost
-----------------------------------------------------------------------------
(* The steps of such a graph.                                              *)

\* An execution that has not begun.
LEMMA Blank ==
  ASSUME Compiled \subseteq known, crashes \in Nat, pc \in {"idle", "input"}, tasks = NoTasks, err = NoError,
         pendT = EmptyBag, ext = "none", pendW = EmptyBag, nextN = EmptyBag,
         chan = [c \in Channels |-> EmptyChannel], saw = NoVersions, base = NoVersions
  PROVE  Quiet /\ Stopped /\ Drained /\ Matched /\ RoutedIn(pendW)
<1>1. /\ DOMAIN tasks = {} /\ \A n : CopiesOf(n, nextN) = 0
      /\ BagToSet(pendW) = {} /\ Available = {}
  BY EmptyBagParts DEF NoTasks, Available, EmptyChannel
<1>2. Quiet
  BY <1>1 DEF Quiet
<1>3. Stopped
  BY <1>1 DEF Stopped, NoError
<1>4. Drained
  BY <1>1 DEF Drained
<1>5. Behind(saw, Versions)
  BY DEF Behind, Versions, NoVersions, EmptyChannel
<1>6. Matched
  BY <1>1, <1>5 DEF Matched, OwnWrites
<1> QED BY <1>1, <1>2, <1>3, <1>4, <1>6 DEF RoutedIn

LEMMA BlankAgain ==
  ASSUME graph' = graph, CleanStep, Compiled \subseteq known', crashes' \in Nat, pc' \in {"idle", "input"},
         pendW' = EmptyBag, nextN' = EmptyBag,
         chan' = [c \in Channels |-> EmptyChannel], saw' = NoVersions, base' = NoVersions
  PROVE  Quiet' /\ Stopped' /\ Drained' /\ Matched' /\ RoutedIn(pendW)'
<1>1. /\ Compiled' \subseteq known' /\ pc' \in {"idle", "input"}
      /\ tasks' = NoTasks /\ err' = NoError' /\ pendT' = EmptyBag /\ ext' = "none"
      /\ pendW' = EmptyBag /\ nextN' = EmptyBag
      /\ chan' = [c \in Channels' |-> EmptyChannel] /\ saw' = NoVersions' /\ base' = NoVersions'
  BY GraphSame DEF CleanStep, NoVersions
<1>2. /\ DOMAIN tasks' = {} /\ \A n : CopiesOf(n, nextN') = 0
      /\ BagToSet(pendW') = {} /\ Available' = {}
  BY <1>1, EmptyBagParts DEF NoTasks, Available, EmptyChannel
<1>3. Quiet'
  BY <1>1, <1>2 DEF Quiet
<1>4. Stopped'
  BY <1>1, <1>2 DEF Stopped, NoError
<1>5. Drained'
  BY <1>1, <1>2 DEF Drained
<1>6. Behind(saw, Versions)' /\ Behind(base, Versions)'
  BY <1>1 DEF Behind, Versions, NoVersions, EmptyChannel
<1>7. Matched'
  BY <1>1, <1>2, <1>6 DEF Matched, OwnWrites
<1> QED BY <1>2, <1>3, <1>4, <1>5, <1>7 DEF RoutedIn

LEMMA SteadyInit == Init => Steady
<1> SUFFICES ASSUME Init PROVE Quiet /\ Stopped /\ Drained /\ Matched /\ Faithful /\ Untouched /\ Routed
  BY DEF Steady
<1>1. /\ Quiet /\ Stopped /\ Drained /\ Matched /\ RoutedIn(pendW)
      /\ ckpt = NoCheckpoint /\ fresh = FALSE
  BY Blank DEF Init
<1> QED BY <1>1 DEF Faithful, Untouched, Routed

\* Being faithful is between a checkpoint and the graph.
LEMMA FaithfulSame ==
  ASSUME graph' = graph, NEW k, FaithfulTo(k)
  PROVE  FaithfulTo(k)'
<1>1. /\ Nodes' = Nodes /\ Channels' = Channels /\ JoinFrom' = JoinFrom /\ AsksAlone' = AsksAlone
      /\ \A n : Triggers(n)' = Triggers(n)
  BY GraphSame
<1>2. Again(k)' = Again(k)
  BY <1>1 DEF Again, Ready, Satisfied, Written, Target, IsJoin
<1>3. Behind(k.saw, k.vers)' <=> Behind(k.saw, k.vers)
  BY <1>1 DEF Behind
<1>4. ListedIn(k)' <=> ListedIn(k)
  BY <1>1 DEF ListedIn
<1>5. WrittenIn(k)' <=> WrittenIn(k)
  BY <1>1, <1>2 DEF WrittenIn
<1> QED BY <1>1, <1>3, <1>4, <1>5 DEF FaithfulTo, Satisfied, Written

\* What the last checkpoint lists stays as it was while the checkpoint stays.
LEMMA CheckpointKeeps ==
  ASSUME graph' = graph, ckpt' = ckpt, Faithful, Routed,
         IF MaxCrashes = 0 THEN known \subseteq known' ELSE TRUE
  PROVE  /\ Faithful' /\ Lasting \subseteq Lasting'
         /\ (StaticRoutes' \/ MaxCrashes' = 0) /\ ckpt' # NoCheckpoint => RoutedIn(ckpt.writes)'
<1>1. /\ Compiled' = Compiled /\ MaxCrashes' = MaxCrashes /\ StaticRoutes' = StaticRoutes
  BY GraphSame
<1>2. Lasting \subseteq Lasting'
  BY <1>1 DEF Lasting
<1>3. PICK k : k = ckpt
  OBVIOUS
<1>4. ckpt' = k
  BY <1>3
<1>5. Faithful'
  <2>1. ckpt # NoCheckpoint => FaithfulTo(k)'
    BY <1>3, FaithfulSame DEF Faithful
  <2> QED BY <1>3, <1>4, <2>1 DEF Faithful, FaithfulTo, ListedIn, WrittenIn, Again, Ready, Satisfied, Written, Behind
<1>6. (StaticRoutes' \/ MaxCrashes' = 0) /\ ckpt' # NoCheckpoint => RoutedIn(ckpt.writes)'
  BY <1>1, <1>2, <1>3, <1>4 DEF Routed, RoutedIn
<1> QED BY <1>2, <1>5, <1>6

\* A checkpoint is taken, or its save fails.
LEMMA SaveSteady ==
  ASSUME Faithful, Routed, NEW k, SaveInRun(k), UNCHANGED <<graph, known>>,
         FaithfulTo(k), StaticRoutes \/ MaxCrashes = 0 => RoutedIn(k.writes)
  PROVE  /\ Faithful' /\ Lasting' = Lasting
         /\ (StaticRoutes' \/ MaxCrashes' = 0) /\ ckpt' # NoCheckpoint => RoutedIn(ckpt.writes)'
<1>1. /\ Compiled' = Compiled /\ MaxCrashes' = MaxCrashes /\ StaticRoutes' = StaticRoutes
  BY GraphSame
<1>2. Lasting' = Lasting
  BY <1>1 DEF Lasting
<1>3. CASE ckpt' = k
  <2>1. FaithfulTo(k)'
    BY FaithfulSame
  <2>2. Faithful'
    BY <1>3, <2>1 DEF Faithful, FaithfulTo, ListedIn, WrittenIn, Again, Ready, Satisfied, Written, Behind
  <2> QED BY <1>1, <1>2, <1>3, <2>2 DEF RoutedIn
<1>4. CASE ckpt' = ckpt
  BY <1>2, <1>4, CheckpointKeeps
<1> QED BY <1>3, <1>4 DEF SaveInRun, Save

LEMMA StartFreshSteady ==
  ASSUME Typed, Steady, NoFanOut, StartFresh
  PROVE  Steady'
<1>1. Quiet /\ Drained /\ Faithful /\ Untouched /\ Routed
  BY DEF Steady
<1>2. /\ ckpt = NoCheckpoint /\ pc \in {"idle", "failed", "paused"} /\ pc' = "input" /\ CleanStep
      /\ UNCHANGED <<graph, known, crashes, ckpt, fresh>>
      /\ chan' = [c \in Channels |-> EmptyChannel] /\ saw' = NoVersions /\ base' = NoVersions
      /\ pendW' = EmptyBag /\ nextN' = EmptyBag
  BY DEF StartFresh, graphVars, envVars
<1>3. Compiled \subseteq known' /\ crashes' \in Nat
  BY <1>1, <1>2 DEF Drained, Quiet
<1>4. Quiet' /\ Stopped' /\ Drained' /\ Matched' /\ RoutedIn(pendW)'
  BY <1>2, <1>3, BlankAgain
<1>5. NoCheckpoint' = NoCheckpoint /\ ~fresh'
  BY <1>1, <1>2 DEF Untouched, NoCheckpoint
<1> QED BY <1>2, <1>4, <1>5 DEF Steady, Faithful, Untouched, Routed

LEMMA CrashSteady ==
  ASSUME Typed, Steady, NoFanOut, Crash
  PROVE  Steady'
<1>1. Faithful /\ Routed /\ crashes \in Nat
  BY DEF Steady, Quiet
<1>2. /\ crashes < MaxCrashes /\ crashes' = crashes + 1 /\ pc' = "idle" /\ known' = Compiled /\ CleanStep
      /\ fresh' = FALSE /\ UNCHANGED <<graph, ckpt>>
      /\ chan' = [c \in Channels |-> EmptyChannel] /\ saw' = NoVersions /\ base' = NoVersions
      /\ pendW' = EmptyBag /\ nextN' = EmptyBag
  BY DEF Crash
<1>3. Quiet' /\ Stopped' /\ Drained' /\ Matched' /\ RoutedIn(pendW)'
  BY <1>1, <1>2, BlankAgain
<1>4. CASE MaxCrashes # 0
  <2>1. /\ Faithful'
        /\ (StaticRoutes' \/ MaxCrashes' = 0) /\ ckpt' # NoCheckpoint => RoutedIn(ckpt.writes)'
    BY <1>1, <1>2, <1>4, CheckpointKeeps
  <2> QED BY <1>2, <1>3, <2>1 DEF Steady, Untouched, Routed, NoCheckpoint
<1>5. CASE MaxCrashes = 0
  BY <1>1, <1>2, <1>5
<1> QED BY <1>4, <1>5

\* What a resumed execution has been resumed from.
LEMMA CleanCheckpoint ==
  ASSUME Typed, Steady, NoFanOut, Clean', ckpt # NoCheckpoint, fresh', UNCHANGED <<graph, ckpt>>
  PROVE  CheckpointOK(ckpt) /\ FaithfulTo(ckpt) /\ ~Stale(ckpt) /\ ~ReadyJoin(ckpt)
<1>1. PICK k : k = ckpt
  OBVIOUS
<1>2. ~Stale(ckpt)' /\ ~ReadyJoin(ckpt)'
  BY DEF Clean
<1>3. Channels' = Channels /\ JoinFrom' = JoinFrom
  BY GraphSame
<1>4. ~Stale(k) /\ ~ReadyJoin(k)
  BY <1>1, <1>2, <1>3 DEF Stale, ReadyJoin, Satisfied
<1> QED BY <1>1, <1>4 DEF Typed, CkptOK, Steady, Faithful

LEMMA ResumeSteady ==
  ASSUME Typed, Typed', Steady, NoFanOut, Clean', Resume
  PROVE  Steady'
<1>1. Drained /\ Faithful /\ Routed /\ crashes \in Nat
  BY DEF Steady, Quiet
<1>2. /\ ckpt # NoCheckpoint /\ pc' = "plan" /\ step' = ckpt.step + 1 /\ CleanStep
      /\ chan' = [c \in Channels |-> Replayed(ckpt, c)] /\ pendW' = ckpt.writes
      /\ saw' = ckpt.saw /\ base' = ckpt.saw /\ resumed' = TRUE
      /\ nextN' = ExecutableNextNodes(ckpt) /\ fresh' = TRUE
      /\ replaying' = (ckpt.writes # EmptyBag)
      /\ UNCHANGED <<graph, known, crashes, ckpt>>
  BY DEF Resume, ResumedStep, envVars
<1>3. /\ Nodes' = Nodes /\ Channels' = Channels /\ JoinFrom' = JoinFrom /\ Compiled' = Compiled
      /\ NoError' = NoError /\ MaxCrashes' = MaxCrashes /\ StaticRoutes' = StaticRoutes
      /\ \A n : Triggers(n)' = Triggers(n)
  BY <1>2, GraphSame
<1>4. CheckpointOK(ckpt) /\ FaithfulTo(ckpt) /\ ~Stale(ckpt) /\ ~ReadyJoin(ckpt)
  BY <1>2, CleanCheckpoint
<1>5. \A c \in Channels :
         /\ chan'[c].avail => Written(ckpt.writes, c)
         /\ Written(ckpt.writes, c) /\ Exists(c) => chan'[c].ver > ckpt.vers[c]
         /\ chan'[c].avail /\ ~IsJoin(c) => Exists(c)
         /\ ~Written(ckpt.writes, c) => chan'[c].ver = IF Exists(c) THEN ckpt.vers[c] ELSE 0
  <2> TAKE c \in Channels
  <2>1. chan'[c] = Replayed(ckpt, c)
    BY <1>2
  <2> QED BY <1>4, <2>1, ReplayedParts
<1>6. /\ tasks' = NoTasks /\ err' = NoError /\ pendT' = EmptyBag /\ ext' = "none" /\ DOMAIN tasks' = {}
  BY <1>2 DEF CleanStep, NoTasks
<1>7. Quiet' /\ Stopped'
  <2>1. \A n \in Nodes : CopiesOf(n, nextN') <= 1
    BY <1>2, <1>4, EmptyBagParts DEF FaithfulTo, ExecutableNextNodes
  <2>2. Stopped'
    BY <1>3, <1>6 DEF Stopped, NoError
  <2> QED BY <1>1, <1>2, <1>3, <1>6, <2>1, <2>2 DEF Quiet
<1>8. Drained'
  <2>1. ASSUME step' = 0 \/ nextN' # EmptyBag
        PROVE  Available' = {}
    <3>1. ckpt.step \in Int
      BY <1>4 DEF CheckpointOK
    <3>2. step' = 0 => ckpt.writes = EmptyBag
      BY <1>2, <1>4, <3>1 DEF FaithfulTo
    <3>3. ckpt.writes = EmptyBag
      BY <1>2, <2>1, <3>2 DEF ExecutableNextNodes
    <3>4. \A c \in Channels : ~Written(ckpt.writes, c)
      BY <3>3, EmptyBagParts DEF Written
    <3> QED BY <1>3, <1>5, <3>4 DEF Available
  <2> QED BY <1>1, <1>2, <1>3, <2>1 DEF Drained
<1>9. Matched'
  <2>1. \A c \in Channels : chan'[c].ver \in Nat /\ ckpt.vers[c] \in Nat
    BY <1>3, <1>4 DEF Typed, ChanOK, ChannelsOK, ChannelType, CheckpointOK, SavedOK
  <2>2. \A n \in Nodes, c \in Channels : ckpt.saw[n][c] \in Nat
    BY <1>4 DEF CheckpointOK, VersionsOK
  <2>3. ASSUME NEW n \in Nodes, NEW c \in Channels
        PROVE  ckpt.saw[n][c] <= chan'[c].ver /\ (c \notin Triggers(n) => ckpt.saw[n][c] = 0)
    <3>1. ckpt.saw[n][c] <= ckpt.vers[c] /\ (c \notin Triggers(n) => ckpt.saw[n][c] = 0)
      BY <1>4 DEF FaithfulTo, Behind
    <3>2. CASE c \in Triggers(n)
      <4>1. Exists(c)
        BY <1>1, <3>2 DEF Drained, Triggers, Exists
      <4> QED BY <1>5, <2>1, <2>2, <3>1, <4>1
    <3>3. CASE c \notin Triggers(n)
      BY <2>1, <3>1, <3>3
    <3> QED BY <3>2, <3>3
  <2>4. Behind(saw, Versions)' /\ Behind(base, Versions)'
    BY <1>2, <1>3, <2>3 DEF Behind, Versions
  <2>5. ASSUME NEW c \in Channels, chan'[c].avail, ~IsJoin(c)
        PROVE  chan'[c].ver > base'[Target(c)][c]
    <3>1. chan'[c].ver > ckpt.vers[c]
      BY <1>5, <2>5
    <3>2. ckpt.saw[Target(c)][c] <= ckpt.vers[c] /\ Target(c) \in Nodes
      BY <1>4, ChannelParts DEF FaithfulTo, Behind
    <3> QED BY <1>2, <2>1, <2>2, <3>1, <3>2
  <2>6. ~replaying' => pendW' = EmptyBag
    BY <1>2
  <2> QED BY <1>2, <1>3, <2>4, <2>5, <2>6 DEF Matched, OwnWrites, Available
<1>10. /\ Faithful' /\ Lasting \subseteq Lasting'
       /\ (StaticRoutes' \/ MaxCrashes' = 0) /\ ckpt' # NoCheckpoint => RoutedIn(ckpt.writes)'
  BY <1>1, <1>2, CheckpointKeeps
<1>11. Untouched'
  <2>1. PICK k : k = ckpt
    OBVIOUS
  <2>2. \A c \in Channels : Replayed(k, c)' = Replayed(k, c)
    BY <1>2, <1>3 DEF Replayed, RestoredChannel, Exists, Satisfied
  <2>3. chan' = [c \in Channels |-> Replayed(k, c)'] /\ ckpt' = k
    BY <1>2, <2>1, <2>2
  <2>4. chan' = [c \in Channels' |-> Replayed(ckpt, c)']
    BY <1>3, <2>3 DEF Replayed, RestoredChannel
  <2> QED BY <1>2, <2>4 DEF Untouched, ExecutableNextNodes, NoCheckpoint
<1>12. Routed'
  BY <1>2, <1>10 DEF Routed, RoutedIn, NoCheckpoint
<1> QED BY <1>7, <1>8, <1>9, <1>10, <1>11, <1>12 DEF Steady

\* Steps that only change how the execution goes on: they touch neither its
\* channels nor its tasks.
LEMMA AsideSteady ==
  ASSUME Typed, Quiet, Stopped, Drained, Matched,
         UNCHANGED <<graph, known, chan, pendW, saw, base, resumed, replaying, pendT, tasks, nextN, err, crashes>>,
         ext' = "forced" => CanForce \/ ext = "forced",
         \/ pc' = pc /\ step' = step
         \/ pc = "input" /\ pc' = "plan"
         \/ pc = "start" /\ pc' = "exec"
         \/ pc \in {"start", "exec"} /\ pc' \in {"paused", "failed"}
         \/ pc = "plan" /\ pc' = "completed"
  PROVE  Quiet' /\ Stopped' /\ Drained' /\ Matched'
<1>1. /\ Nodes' = Nodes /\ Channels' = Channels /\ Outcomes' = Outcomes /\ NoError' = NoError
      /\ Compiled' = Compiled /\ CanForce' = CanForce /\ NodeBarrier' = NodeBarrier
      /\ \A n : MayAsk(n)' = MayAsk(n) /\ MayFail(n)' = MayFail(n) /\ Triggers(n)' = Triggers(n)
  BY GraphSame
<1>2. Available' = Available
  BY <1>1 DEF Available
<1>3. Quiet'
  BY <1>1 DEF Quiet
<1>4. Stopped'
  BY <1>1 DEF Stopped
<1>5. Drained'
  BY <1>1, <1>2 DEF Drained
<1>6. Behind(saw, Versions)' /\ Behind(base, Versions)'
  BY <1>1 DEF Behind, Versions, Matched
<1>7. pc' \in {"plan", "exec"} => \A c \in Available' : IsJoin(c) \/ chan'[c].ver > base'[Target(c)][c]
  BY <1>2 DEF Matched, Drained
<1>8. ~replaying' => OwnWrites'
  <2>1. pc \in {"input", "plan", "start"} /\ ~replaying => pendW = EmptyBag /\ BagToSet(pendW) = {}
    BY EmptyBagParts DEF Matched, OwnWrites
  <2> QED BY <2>1 DEF Matched, OwnWrites
<1> QED BY <1>3, <1>4, <1>5, <1>6, <1>7, <1>8 DEF Matched

\* A checkpoint that lists next nodes and keeps no writes.
LEMMA ListFaithful ==
  ASSUME Typed, Matched, NEW k, k.writes = EmptyBag, k.saw = saw, k.vers = Versions, ListedIn(k),
         \A n \in Nodes : CopiesOf(n, k.next) <= 1 /\ k.owed[n] \in Nat
  PROVE  FaithfulTo(k) /\ RoutedIn(k.writes)
BY EmptyBagParts DEF FaithfulTo, Matched, Behind, RoutedIn

LEMMA InputSteady ==
  ASSUME Typed, Steady, NoFanOut, InputCheckpoint
  PROVE  Steady'
<1>1. Quiet /\ Stopped /\ Drained /\ Matched /\ Faithful /\ Untouched /\ Routed
  BY DEF Steady
<1>2. PICK k : k = [Snapshot(-1, SetToBag({Entry}), EmptyBag, "none", skips)
                      EXCEPT !.owed = [n \in Nodes |-> IF n = Entry THEN 1 ELSE 0]]
  OBVIOUS
<1>3. /\ pc = "input" /\ pc' = "plan" /\ SaveInRun(k)
      /\ UNCHANGED <<graph, known, chan, pendW, saw, base, resumed, replaying, nextN, tasks, err, pendT,
                     crashes, step, ext, fresh>>
  BY <1>2 DEF InputCheckpoint, graphVars, stateVars, chanVars, runVars, taskVars
<1>4. /\ k.next = SetToBag({Entry}) /\ k.writes = EmptyBag /\ k.saw = saw /\ k.vers = Versions
      /\ k.owed = [n \in Nodes |-> IF n = Entry THEN 1 ELSE 0]
  BY <1>2 DEF Snapshot, Versions
<1>5. \A n \in Nodes : /\ k.owed[n] = CopiesOf(n, k.next) /\ k.owed[n] \in Nat
                       /\ CopiesOf(n, k.next) <= 1
  <2> TAKE n \in Nodes
  <2>1. CopiesOf(n, k.next) = IF n \in {Entry} THEN 1 ELSE 0
    BY <1>4, SetBag
  <2>2. k.owed[n] = IF n = Entry THEN 1 ELSE 0
    BY <1>4
  <2> QED BY <2>1, <2>2
<1>6. FaithfulTo(k) /\ RoutedIn(k.writes)
  BY <1>1, <1>4, <1>5, ListFaithful DEF ListedIn
<1>7. /\ Faithful' /\ Lasting' = Lasting
      /\ (StaticRoutes' \/ MaxCrashes' = 0) /\ ckpt' # NoCheckpoint => RoutedIn(ckpt.writes)'
  BY <1>1, <1>3, <1>6, SaveSteady
<1>8. Quiet' /\ Stopped' /\ Drained' /\ Matched'
  BY <1>1, <1>3, AsideSteady
<1>9. ~fresh'
  BY <1>1, <1>3 DEF Untouched
<1>10. Routed'
  <2>1. StaticRoutes' = StaticRoutes /\ MaxCrashes' = MaxCrashes
    BY <1>3, GraphSame
  <2> QED BY <1>1, <1>3, <1>7, <2>1 DEF Routed, RoutedIn, NoCheckpoint
<1> QED BY <1>7, <1>8, <1>9, <1>10 DEF Steady, Untouched

LEMMA PauseSteady ==
  ASSUME Typed, Steady, NoFanOut, pc \in {"start", "exec"}, NEW stp, NEW next, NEW node, NEW sk,
         \A n \in Nodes : /\ CopiesOf(n, next) <= Owed[n] /\ CopiesOf(n, next) <= 1 /\ Owed[n] \in Nat
                          /\ AsksAlone /\ Owed[n] <= 1 => CopiesOf(n, next) = Owed[n],
         HandleInterrupt(stp, next, node, sk)
  PROVE  Steady'
<1>1. Quiet /\ Stopped /\ Drained /\ Matched /\ Faithful /\ Untouched /\ Routed
  BY DEF Steady
<1>2. PICK k : k = Snapshot(stp, next, EmptyBag, node, sk)
  OBVIOUS
<1>3. /\ pc' = "paused" /\ Save(k)
      /\ UNCHANGED <<graph, known, chan, pendW, saw, base, resumed, replaying, nextN, tasks, err, pendT,
                     crashes, step, ext, fresh>>
  BY <1>2 DEF HandleInterrupt, graphVars, chanVars, runVars, taskVars
<1>4. k.next = next /\ k.writes = EmptyBag /\ k.saw = saw /\ k.vers = Versions /\ k.owed = Owed
  BY <1>2 DEF Snapshot, Versions
<1>5. FaithfulTo(k) /\ RoutedIn(k.writes)
  BY <1>1, <1>4, ListFaithful DEF ListedIn
<1>6. /\ Faithful' /\ Lasting' = Lasting
      /\ (StaticRoutes' \/ MaxCrashes' = 0) /\ ckpt' # NoCheckpoint => RoutedIn(ckpt.writes)'
  BY <1>1, <1>3, <1>5, SaveSteady DEF SaveInRun
<1>7. Quiet' /\ Stopped' /\ Drained' /\ Matched'
  BY <1>1, <1>3, AsideSteady
<1>8. ~fresh'
  BY <1>1, <1>3 DEF Untouched
<1>9. Routed'
  <2>1. StaticRoutes' = StaticRoutes /\ MaxCrashes' = MaxCrashes
    BY <1>3, GraphSame
  <2> QED BY <1>1, <1>3, <1>6, <2>1 DEF Routed, RoutedIn, NoCheckpoint
<1> QED BY <1>6, <1>7, <1>8, <1>9 DEF Steady, Untouched

\* The tasks of a step that has not begun are all there is to do.
LEMMA PlannedTasks ==
  ASSUME Typed, Quiet, Drained, pc = "start", NEW n \in Nodes
  PROVE  /\ Owed[n] = One(n \in NodesOf(DOMAIN tasks))
         /\ CopiesOf(n, nextN) = 0
<1>1. /\ \A t \in DOMAIN tasks : tasks[t].st = "todo"
      /\ Available = {} /\ nextN = EmptyBag
  BY DEF Quiet, Drained
<1>2. Unfinished = DOMAIN tasks
  BY <1>1 DEF Unfinished
<1>3. n \notin Triggered
  BY <1>1 DEF Triggered
<1>4. CopiesOf(n, nextN) = 0
  BY <1>1, EmptyBagParts
<1> QED BY <1>2, <1>3, <1>4, OwedParts DEF One

LEMMA KeepSteady ==
  ASSUME Typed, Steady, NoFanOut, UNCHANGED <<graph, known, pendW, ckpt>>, ~fresh'
  PROVE  Faithful' /\ Untouched' /\ Routed'
<1>1. Faithful /\ Routed
  BY DEF Steady
<1>2. /\ Faithful' /\ Lasting \subseteq Lasting'
      /\ (StaticRoutes' \/ MaxCrashes' = 0) /\ ckpt' # NoCheckpoint => RoutedIn(ckpt.writes)'
  BY <1>1, CheckpointKeeps
<1>3. StaticRoutes' = StaticRoutes /\ MaxCrashes' = MaxCrashes
  BY GraphSame
<1>4. Routed'
  BY <1>1, <1>2, <1>3 DEF Routed, RoutedIn, NoCheckpoint
<1> QED BY <1>2, <1>4 DEF Untouched

LEMMA BeforeStepSteady ==
  ASSUME Typed, Steady, NoFanOut, BeforeStep
  PROVE  Steady'
<1>1. Quiet /\ Stopped /\ Drained /\ Matched /\ Faithful /\ Untouched /\ Routed
  BY DEF Steady
<1>2. ASSUME pc = "start", NEW next, NEW n \in Nodes, CopiesOf(n, next) = One(n \in NodesOf(DOMAIN tasks))
      PROVE  /\ CopiesOf(n, next) <= Owed[n] /\ CopiesOf(n, next) <= 1 /\ Owed[n] \in Nat
             /\ AsksAlone /\ Owed[n] <= 1 => CopiesOf(n, next) = Owed[n]
  BY <1>1, <1>2, PlannedTasks DEF One
<1>3. CASE ExternalInterruptBeforeStep
  <2>1. \A n \in Nodes : CopiesOf(n, BagOfTasks(DOMAIN tasks)) = One(n \in NodesOf(DOMAIN tasks))
    <3> TAKE n \in Nodes
    <3>1. DOMAIN tasks \in SUBSET DOMAIN tasks /\ IsFiniteSet(DOMAIN tasks)
      BY DEF Typed, TasksOK
    <3>2. CopiesOf(n, BagOfTasks(DOMAIN tasks)) = Cardinality({t \in DOMAIN tasks : t[1] = n})
      BY <3>1, TaskBag
    <3>3. Cardinality({t \in DOMAIN tasks : t[1] = n}) = IF n \in NodesOf(DOMAIN tasks) THEN 1 ELSE 0
      BY <1>1, <3>1, OneTask
    <3> QED BY <3>2, <3>3 DEF One
  <2> QED BY <1>2, <1>3, <2>1, PauseSteady DEF ExternalInterruptBeforeStep
<1>4. CASE StaticInterruptBeforeStep
  <2>1. \A n \in Nodes : CopiesOf(n, SetToBag(NodesOf(DOMAIN tasks))) = One(n \in NodesOf(DOMAIN tasks))
    BY SetBag DEF One
  <2> QED BY <1>2, <1>4, <2>1, PauseSteady DEF StaticInterruptBeforeStep
<1>5. CASE StartStep
  <2>1. /\ pc = "start" /\ pc' = "exec"
        /\ UNCHANGED <<graph, known, chan, pendW, saw, base, resumed, replaying, pendT, tasks, nextN, err,
                       crashes, ext, ckpt, fresh>>
    BY <1>5 DEF StartStep, graphVars, chanVars, runVars, taskVars, envVars
  <2>2. Quiet' /\ Stopped' /\ Drained' /\ Matched'
    BY <1>1, <2>1, AsideSteady
  <2>3. ~fresh'
    BY <1>1, <2>1 DEF Untouched
  <2> QED BY <2>1, <2>2, <2>3, KeepSteady DEF Steady
<1> QED BY <1>3, <1>4, <1>5 DEF BeforeStep

\* The environment presses the pause button, or nothing happens.
LEMMA StandSteady ==
  ASSUME Typed, Steady, NoFanOut,
         UNCHANGED <<graph, known, chan, pendW, saw, base, resumed, replaying, pendT, tasks, nextN, err,
                     crashes, pc, step, ckpt, fresh>>,
         ext' = "forced" => CanForce \/ ext = "forced"
  PROVE  Steady'
<1>1. Quiet /\ Stopped /\ Drained /\ Matched /\ Faithful /\ Untouched /\ Routed
  BY DEF Steady
<1>2. Quiet' /\ Stopped' /\ Drained' /\ Matched'
  BY <1>1, AsideSteady
<1>3. Channels' = Channels /\ JoinFrom' = JoinFrom /\ StaticRoutes' = StaticRoutes /\ MaxCrashes' = MaxCrashes
  BY GraphSame
<1>4. /\ Faithful'
      /\ (StaticRoutes' \/ MaxCrashes' = 0) /\ ckpt' # NoCheckpoint => RoutedIn(ckpt.writes)'
      /\ Lasting \subseteq Lasting'
  BY <1>1, CheckpointKeeps
<1>5. Routed'
  BY <1>1, <1>3, <1>4 DEF Routed, RoutedIn, NoCheckpoint
<1>6. Untouched'
  <2> SUFFICES ASSUME fresh' PROVE Untouched'
    BY DEF Untouched
  <2>1. PICK k : k = ckpt
    OBVIOUS
  <2>2. \A c \in Channels : Replayed(k, c)' = Replayed(k, c)
    BY <1>3 DEF Replayed, RestoredChannel, Exists, Satisfied
  <2>3. ckpt' = k /\ \A c \in Channels : Replayed(ckpt, c)' = Replayed(k, c)'
    BY <2>1 DEF Replayed, RestoredChannel
  <2>4. \A c \in Channels : Replayed(ckpt, c)' = Replayed(ckpt, c)
    BY <2>1, <2>2, <2>3
  <2> QED BY <1>1, <1>3, <2>4 DEF Untouched, ExecutableNextNodes, NoCheckpoint
<1> QED BY <1>2, <1>4, <1>5, <1>6 DEF Steady

LEMMA AsideSteps ==
  ASSUME Typed, Steady, NoFanOut, OutOfSteps \/ RequestPause \/ ForcePause \/ StepFails
  PROVE  Steady'
<1>1. CASE OutOfSteps
  <2>1. /\ pc = "plan" /\ pc' = "completed" /\ ~fresh'
        /\ UNCHANGED <<graph, known, chan, pendW, saw, base, resumed, replaying, pendT, tasks, nextN, err,
                       crashes, step, ext, ckpt>>
    BY <1>1 DEF OutOfSteps, graphVars, stateVars, chanVars, runVars, taskVars, envVars
  <2>2. Quiet' /\ Stopped' /\ Drained' /\ Matched'
    BY <2>1, AsideSteady DEF Steady
  <2> QED BY <2>1, <2>2, KeepSteady DEF Steady
<1>2. CASE RequestPause \/ ForcePause
  <2>1. ext' = "forced" => CanForce
    BY <1>2 DEF RequestPause, ForcePause
  <2>2. UNCHANGED <<graphVars, stateVars, chanVars, runVars, taskVars, crashes, pc, step, ckpt, fresh>>
    BY <1>2 DEF RequestPause, ForcePause, envVars
  <2>3. UNCHANGED <<graph, known, chan, pendW, saw, base, resumed, replaying, pendT, tasks, nextN, err,
                    crashes, pc, step, ckpt, fresh>>
    BY <2>2 DEF graphVars, stateVars, chanVars, runVars, taskVars
  <2> QED BY <2>1, <2>3, StandSteady
<1>3. CASE StepFails
  <2>1. /\ pc = "exec" /\ pc' = "failed"
        /\ UNCHANGED <<graph, known, chan, pendW, saw, base, resumed, replaying, pendT, tasks, nextN, err,
                       crashes, step, ext, ckpt, fresh>>
    BY <1>3 DEF StepFails, StepOver, graphVars, stateVars, chanVars, runVars, taskVars, envVars
  <2>2. Quiet' /\ Stopped' /\ Drained' /\ Matched'
    BY <2>1, AsideSteady DEF Steady
  <2>3. ~fresh'
    BY <2>1 DEF Steady, Untouched
  <2> QED BY <2>1, <2>2, <2>3, KeepSteady DEF Steady
<1> QED BY <1>1, <1>2, <1>3

\* What is planned: one task for each node of a bag, and nothing stays available.
LEMMA PlanParts ==
  ASSUME Typed, Quiet, Drained, Plan
  PROVE  /\ nextN' = EmptyBag /\ pendT' = EmptyBag /\ (PlanTriggered \/ PlanEntry \/ PlanNextNodes)
         /\ \A t \in DOMAIN tasks' : t[2] = 1 /\ tasks'[t].st = "todo" /\ tasks'[t].to = {}
         /\ \A n \in Nodes :
              (\E t \in DOMAIN tasks' : t[1] = n) <=> \/ PlanTriggered /\ n \in Triggered
                                                      \/ PlanEntry /\ n = Entry
                                                      \/ PlanNextNodes /\ CopiesOf(n, nextN) = 1
         /\ Available' = {}
         /\ \A c \in Channels : /\ chan'[c].ver = chan[c].ver
                                /\ chan'[c].seen = chan[c].seen \/ chan'[c].seen = {}
                                /\ chan'[c].avail => chan[c].avail
                                /\ PlanTriggered /\ chan[c].avail => chan'[c].seen = {}
                                /\ ~PlanTriggered \/ ~chan[c].avail => chan'[c].seen = chan[c].seen
         /\ ~PlanTriggered => Available = {}
         /\ PlanTriggered => nextN = EmptyBag /\ step # 0
         /\ PlanEntry => nextN = EmptyBag /\ step = 0
         /\ PlanNextNodes => nextN # EmptyBag
<1>1. /\ pc = "plan" /\ (PlanTriggered \/ PlanEntry \/ PlanNextNodes)
      /\ graph' = graph /\ known' = known /\ resumed' = resumed
  BY DEF Plan, PlanFanOut, Quiet, graphVars, runVars
<1>2. Channels' = Channels /\ graph \in Graphs /\ BagOK(nextN) /\ ChannelsOK(chan)
  BY <1>1, GraphSame DEF Typed, GraphOK, StateOK, ChanOK
<1>3. nextN' = EmptyBag /\ pendT' = EmptyBag
  BY <1>1 DEF PlanTriggered, PlanEntry, PlanNextNodes, Quiet
<1>4. /\ PlanTriggered => nextN = EmptyBag /\ step # 0
      /\ PlanEntry => nextN = EmptyBag /\ step = 0
      /\ PlanNextNodes => nextN # EmptyBag
  BY DEF PlanTriggered, PlanEntry, PlanNextNodes
<1>5. PICK b : /\ tasks' = TasksOf(b) /\ BagOK(b) /\ \A n \in Nodes : CopiesOf(n, b) <= 1
               /\ \A n \in Nodes : n \in BagToSet(b) <=> \/ PlanTriggered /\ n \in Triggered
                                                         \/ PlanEntry /\ n = Entry
                                                         \/ PlanNextNodes /\ CopiesOf(n, nextN) = 1
  <2>1. CASE PlanTriggered
    <3>1. Triggered \subseteq Nodes
      BY ChannelParts DEF Triggered, Available
    <3>2. BagOK(SetToBag(Triggered)) /\ \A n \in Nodes : CopiesOf(n, SetToBag(Triggered)) <= 1
      BY <3>1, SetBag DEF BagOK
    <3>3. \A n : n \in BagToSet(SetToBag(Triggered)) <=> n \in Triggered
      BY SetBag
    <3>4. tasks' = TasksOf(SetToBag(Triggered)) /\ ~PlanEntry /\ ~PlanNextNodes
      BY <1>4, <2>1 DEF PlanTriggered
    <3> QED BY <2>1, <3>2, <3>3, <3>4
  <2>2. CASE PlanEntry
    <3>1. {Entry} \subseteq Nodes
      BY <1>2, GraphTyped
    <3>2. BagOK(SetToBag({Entry})) /\ \A n \in Nodes : CopiesOf(n, SetToBag({Entry})) <= 1
      BY <3>1, SetBag DEF BagOK
    <3>3. \A n : n \in BagToSet(SetToBag({Entry})) <=> n = Entry
      BY SetBag
    <3>4. tasks' = TasksOf(SetToBag({Entry})) /\ ~PlanTriggered /\ ~PlanNextNodes
      BY <1>4, <2>2 DEF PlanEntry
    <3> QED BY <2>2, <3>2, <3>3, <3>4
  <2>3. CASE PlanNextNodes
    <3>1. \A n \in Nodes : n \in BagToSet(nextN) <=> CopiesOf(n, nextN) = 1
      <4> TAKE n \in Nodes
      <4>1. CopiesOf(n, nextN) \in Nat /\ (CopiesOf(n, nextN) > 0 <=> n \in BagToSet(nextN))
        BY <1>2 DEF BagOK, IsABag, BagToSet, CopiesOf, BagIn
      <4>2. CopiesOf(n, nextN) <= 1
        BY DEF Quiet
      <4> QED BY <4>1, <4>2
    <3>2. ~PlanTriggered /\ ~PlanEntry /\ tasks' = TasksOf(nextN) /\ \A n \in Nodes : CopiesOf(n, nextN) <= 1
      BY <1>4, <2>3 DEF PlanNextNodes, Quiet
    <3> QED BY <1>2, <2>3, <3>1, <3>2
  <2> QED BY <1>1, <2>1, <2>2, <2>3
<1>6. /\ \A t \in DOMAIN tasks' : /\ t[1] \in BagToSet(b) /\ t[2] \in 1..CopiesOf(t[1], b)
                                  /\ tasks'[t] = [st |-> "todo", to |-> {}]
      /\ \A n \in BagToSet(b) : <<n, 1>> \in DOMAIN tasks'
  BY <1>2, <1>5, TasksOfParts
<1>7. \A t \in DOMAIN tasks' : t[2] = 1 /\ tasks'[t].st = "todo" /\ tasks'[t].to = {}
  <2> TAKE t \in DOMAIN tasks'
  <2>1. t[1] \in Nodes /\ t[2] \in 1..CopiesOf(t[1], b) /\ tasks'[t] = [st |-> "todo", to |-> {}]
    BY <1>5, <1>6 DEF BagOK
  <2>2. CopiesOf(t[1], b) \in Nat /\ CopiesOf(t[1], b) <= 1
    BY <1>5, <2>1, CopiesTyped
  <2> QED BY <2>1, <2>2
<1>8. \A n \in Nodes : (\E t \in DOMAIN tasks' : t[1] = n) <=> n \in BagToSet(b)
  <2> TAKE n \in Nodes
  <2>1. n \in BagToSet(b) => <<n, 1>> \in DOMAIN tasks' /\ <<n, 1>>[1] = n
    BY <1>6
  <2> QED BY <1>6, <2>1
<1>9. /\ Available' = {}
      /\ \A c \in Channels : /\ chan'[c].ver = chan[c].ver
                             /\ chan'[c].seen = chan[c].seen \/ chan'[c].seen = {}
                             /\ chan'[c].avail => chan[c].avail
                             /\ PlanTriggered /\ chan[c].avail => chan'[c].seen = {}
                             /\ ~PlanTriggered \/ ~chan[c].avail => chan'[c].seen = chan[c].seen
      /\ ~PlanTriggered => Available = {}
  <2>1. CASE PlanTriggered
    <3>1. chan' = [c \in Channels |-> IF c \in Acknowledged THEN Acknowledge(c) ELSE chan[c]]
      BY <2>1 DEF PlanTriggered
    <3>2. Acknowledged = Available
      BY DEF Acknowledged, Drained
    <3>3. \A c \in Channels : /\ Acknowledge(c).ver = chan[c].ver /\ Acknowledge(c).avail = FALSE
                              /\ Acknowledge(c).seen = {}
      <4> TAKE c \in Channels
      <4>1. chan[c] \in ChannelType
        BY <1>2 DEF ChannelsOK
      <4>2. ASSUME NEW h \in ChannelType
            PROVE  /\ [h EXCEPT !.avail = FALSE, !.seen = {}].ver = h.ver
                   /\ [h EXCEPT !.avail = FALSE, !.seen = {}].avail = FALSE
                   /\ [h EXCEPT !.avail = FALSE, !.seen = {}].seen = {}
        BY DEF ChannelType
      <4> QED BY <4>1, <4>2 DEF Acknowledge
    <3>4. \A c \in Channels : chan[c].avail <=> c \in Acknowledged
      BY <3>2 DEF Available
    <3> QED BY <1>2, <2>1, <3>1, <3>3, <3>4 DEF Available
  <2>2. CASE ~PlanTriggered
    <3>1. chan' = chan /\ (step = 0 \/ nextN # EmptyBag)
      BY <1>1, <2>2 DEF PlanEntry, PlanNextNodes
    <3>2. Available = {}
      BY <1>1, <3>1 DEF Drained
    <3> QED BY <1>2, <2>2, <3>1, <3>2 DEF Available
  <2> QED BY <2>1, <2>2
<1> QED BY <1>1, <1>3, <1>4, <1>5, <1>7, <1>8, <1>9

LEMMA PlanSteady ==
  ASSUME Typed, Steady, NoFanOut, Plan
  PROVE  Steady'
<1>1. Quiet /\ Stopped /\ Drained /\ Matched /\ Faithful /\ Untouched /\ Routed
  BY DEF Steady
<1>2. /\ pc = "plan" /\ pc' \in {"completed", "start"} /\ ~fresh'
      /\ UNCHANGED <<graph, known, pendW, saw, base, resumed, replaying, err, crashes, step, ext, ckpt>>
  BY DEF Plan, graphVars, runVars, envVars
<1>3. /\ Nodes' = Nodes /\ Channels' = Channels /\ Outcomes' = Outcomes /\ NoError' = NoError
      /\ Compiled' = Compiled /\ CanForce' = CanForce /\ NodeBarrier' = NodeBarrier
      /\ \A n : Triggers(n)' = Triggers(n)
  BY <1>2, GraphSame
<1>4. /\ nextN' = EmptyBag /\ pendT' = EmptyBag /\ Available' = {}
      /\ \A t \in DOMAIN tasks' : t[2] = 1 /\ tasks'[t].st = "todo" /\ tasks'[t].to = {}
      /\ \A c \in Channels : chan'[c].ver = chan[c].ver
  BY <1>1, PlanParts
<1>5. \A n : CopiesOf(n, EmptyBag) = 0
  BY EmptyBagParts
<1>6. Quiet'
  BY <1>1, <1>2, <1>3, <1>4, <1>5 DEF Quiet
<1>7. Stopped'
  <2>1. err' = NoError' /\ err.kind = "none"
    BY <1>1, <1>2, <1>3 DEF Quiet, NoError
  <2> QED BY <1>1, <1>2, <1>3, <1>4, <2>1 DEF Stopped
<1>8. Drained'
  BY <1>1, <1>2, <1>3, <1>4 DEF Drained
<1>9. Matched'
  <2>1. Behind(saw, Versions)' /\ Behind(base, Versions)'
    BY <1>1, <1>2, <1>3, <1>4 DEF Matched, Behind, Versions
  <2>2. ~replaying' => OwnWrites'
    BY <1>1, <1>2 DEF Matched, OwnWrites
  <2> QED BY <1>4, <2>1, <2>2 DEF Matched
<1> QED BY <1>2, <1>6, <1>7, <1>8, <1>9, KeepSteady DEF Steady

\* What a task does to the tasks.
LEMMA SetTaskQuiet ==
  ASSUME Typed, Quiet, pc = "exec", NEW t \in DOMAIN tasks, NEW st \in {"wrote", "waiting", "done", "stopped"},
         NEW to, SetTask(t, st, to), \A m \in to : \E o \in Outcomes[t[1]] : m \in o.to,
         UNCHANGED <<graph, pendT, crashes, nextN, pc>>
  PROVE  /\ Quiet' /\ t = <<t[1], 1>> /\ t[1] \in Nodes
         /\ DOMAIN tasks' = DOMAIN tasks
         /\ \A u \in DOMAIN tasks : tasks'[u] = IF u = t THEN [st |-> st, to |-> to] ELSE tasks[u]
<1>1. Nodes' = Nodes /\ Outcomes' = Outcomes
  BY GraphSame
<1>2. /\ DOMAIN tasks' = DOMAIN tasks
      /\ \A u \in DOMAIN tasks : tasks'[u] = IF u = t THEN [st |-> st, to |-> to] ELSE tasks[u]
  BY DEF SetTask
<1>3. tasks'[t].st = st /\ tasks'[t].to = to
  BY <1>2
<1>4. \A u \in DOMAIN tasks' : u[2] = 1 /\ \A m \in tasks'[u].to : \E o \in Outcomes[u[1]] : m \in o.to
  BY <1>2, <1>3 DEF Quiet
<1>5. Quiet'
  BY <1>1, <1>4 DEF Quiet
<1>6. t = <<t[1], 1>> /\ t[1] \in Nodes
  BY DEF Typed, TasksOK, TaskOK, Quiet
<1> QED BY <1>2, <1>5, <1>6

\* Versions grow, and what a node has seen of its own channels with them.
LEMMA SeenMatched ==
  ASSUME Typed, Typed', Matched, UNCHANGED <<graph, base>>,
         \A c \in Channels : chan[c].ver <= chan'[c].ver,
         \A x \in Nodes, c \in Channels :
            saw'[x][c] = saw[x][c] \/ (c \in Triggers(x) /\ saw'[x][c] = chan[c].ver)
  PROVE  Behind(saw, Versions)' /\ Behind(base, Versions)'
<1>1. /\ Nodes' = Nodes /\ Channels' = Channels /\ \A n : Triggers(n)' = Triggers(n)
  BY GraphSame
<1>2. \A c \in Channels : chan[c].ver \in Nat /\ chan'[c].ver \in Nat
  BY <1>1 DEF Typed, ChanOK, ChannelsOK, ChannelType
<1>3. \A x \in Nodes, c \in Channels : saw[x][c] \in Nat /\ base[x][c] \in Nat
  BY DEF Typed, ChanOK, VersionsOK
<1>4. \A x \in Nodes, c \in Channels :
         /\ saw[x][c] <= chan[c].ver /\ base[x][c] <= chan[c].ver
         /\ c \notin Triggers(x) => saw[x][c] = 0 /\ base[x][c] = 0
  BY DEF Matched, Behind, Versions
<1>5. \A x \in Nodes, c \in Channels :
         /\ saw'[x][c] <= chan'[c].ver /\ base'[x][c] <= chan'[c].ver
         /\ c \notin Triggers(x) => saw'[x][c] = 0 /\ base'[x][c] = 0
  <2> TAKE x \in Nodes, c \in Channels
  <2>1. CASE saw'[x][c] = saw[x][c]
    BY <1>2, <1>3, <1>4, <2>1
  <2>2. CASE c \in Triggers(x) /\ saw'[x][c] = chan[c].ver
    BY <1>2, <1>3, <1>4, <2>2
  <2> QED BY <2>1, <2>2
<1> QED BY <1>1, <1>5 DEF Behind, Versions

\* A task is cut off.
LEMMA StopSteady ==
  ASSUME Typed, Typed', Steady, NoFanOut, pc = "exec", NEW t \in DOMAIN tasks, tasks[t].st # "stopped",
         NEW kind \in {"interrupt", "error", "canceled"}, StopTask(t, kind),
         kind = "interrupt" => MayAsk(t[1]), kind = "error" => MayFail(t[1]), kind = "canceled" => CanForce,
         \A x \in Nodes, c \in Channels :
            saw'[x][c] = saw[x][c] \/ (c \in Triggers(x) /\ saw'[x][c] = chan[c].ver)
  PROVE  Steady'
<1>1. Quiet /\ Stopped /\ Drained /\ Matched /\ Faithful /\ Untouched /\ Routed
  BY DEF Steady
<1>2. /\ SetTask(t, "stopped", {}) /\ err' = FirstError(kind, t[1])
      /\ UNCHANGED <<graph, known, chan, pendW, pendT, nextN, base, resumed, replaying, crashes, pc, step,
                     ext, ckpt, fresh>>
  BY DEF StopTask, UNCHANGED_Exec, runVars, envVars
<1>3. /\ Nodes' = Nodes /\ Channels' = Channels /\ Compiled' = Compiled /\ NoError' = NoError
      /\ CanForce' = CanForce /\ NodeBarrier' = NodeBarrier
      /\ \A n : MayAsk(n)' = MayAsk(n) /\ MayFail(n)' = MayFail(n)
  BY <1>2, GraphSame
<1>4. PICK to : to = {}
  OBVIOUS
<1>5. /\ SetTask(t, "stopped", to) /\ \A m \in to : \E o \in Outcomes[t[1]] : m \in o.to
  BY <1>2, <1>4
<1>6. /\ Quiet' /\ t = <<t[1], 1>> /\ t[1] \in Nodes /\ DOMAIN tasks' = DOMAIN tasks
      /\ \A u \in DOMAIN tasks : tasks'[u] = IF u = t THEN [st |-> "stopped", to |-> to] ELSE tasks[u]
  BY <1>1, <1>2, <1>5, SetTaskQuiet
<1>7. Stopped'
  <2>1. tasks'[t].st = "stopped" /\ \A u \in DOMAIN tasks : u # t => tasks'[u] = tasks[u]
    BY <1>6
  <2>2. err' = IF err = NoError THEN [kind |-> kind, node |-> t[1]] ELSE err
    BY <1>2 DEF FirstError
  <2>3. err' # NoError /\ err'.kind \in {"interrupt", "error", "canceled"}
    BY <1>1, <2>2 DEF NoError, Stopped
  <2>4. MayAsk(t[1]) \/ MayFail(t[1]) \/ CanForce
    OBVIOUS
  <2>5. \A u \in DOMAIN tasks' :
           /\ tasks'[u].st = "stopped" => err' # NoError /\ (MayAsk(u[1]) \/ MayFail(u[1]) \/ CanForce)
           /\ tasks'[u].st = "waiting" => NodeBarrier
    BY <1>1, <1>6, <2>1, <2>3, <2>4 DEF Stopped
  <2>6. err'.kind = "interrupt" => /\ MayAsk(err'.node) /\ <<err'.node, 1>> \in DOMAIN tasks'
                                   /\ tasks'[<<err'.node, 1>>].st = "stopped"
    <3>1. CASE err = NoError
      BY <1>6, <2>1, <2>2, <3>1
    <3>2. CASE err # NoError
      BY <1>1, <1>6, <2>1, <2>2, <3>2 DEF Stopped
    <3> QED BY <3>1, <3>2
  <2>7. /\ err'.kind = "canceled" \/ ext' = "forced" => CanForce
        /\ err'.kind = "error" => MayFail(err'.node)
    BY <1>1, <1>2, <2>2 DEF Stopped
  <2> QED BY <1>3, <2>3, <2>5, <2>6, <2>7 DEF Stopped
<1>8. Available' = Available
  BY <1>2, <1>3 DEF Available
<1>9. Drained'
  BY <1>1, <1>2, <1>3, <1>8 DEF Drained, Written
<1>10. Matched'
  <2>1. \A c \in Channels : chan[c].ver <= chan'[c].ver
    BY <1>2 DEF Typed, ChanOK, ChannelsOK, ChannelType
  <2>2. Behind(saw, Versions)' /\ Behind(base, Versions)'
    BY <1>1, <1>2, <2>1, SeenMatched
  <2> QED BY <1>1, <1>2, <1>8, <2>2 DEF Matched, OwnWrites
<1>11. ~fresh'
  BY <1>1, <1>2 DEF Untouched
<1> QED BY <1>2, <1>6, <1>7, <1>9, <1>10, <1>11, KeepSteady DEF Steady

\* What a task of node n does to the channels cs.
LEMMA WriteParts ==
  ASSUME Typed, NEW n \in Nodes, NEW cs \in SUBSET Channels, graph' = graph,
         chan' = WriteAll(cs, n), pendW' = PendingAll(cs, n)
  PROVE  /\ BagToSet(pendW') = BagToSet(pendW) \cup {<<c, n>> : c \in cs}
         /\ \A c \in Channels : /\ c \notin cs => chan'[c] = chan[c]
                                /\ c \in cs => /\ chan'[c].ver = chan[c].ver + 1
                                               /\ IsJoin(c) => chan'[c].seen = chan[c].seen \cup {n}
                                               /\ ~IsJoin(c) => chan'[c].avail
         /\ \A c : Written(pendW', c) <=> Written(pendW, c) \/ c \in cs
<1>1. BagToSet(pendW') = BagToSet(pendW) \cup {<<c, n>> : c \in cs}
  BY PendingParts DEF Typed, ChanOK
<1>2. \A c \in Channels : /\ c \notin cs => chan'[c] = chan[c]
                          /\ c \in cs => /\ chan'[c].ver = chan[c].ver + 1
                                         /\ IsJoin(c) => chan'[c].seen = chan[c].seen \cup {n}
                                         /\ ~IsJoin(c) => chan'[c].avail
  <2> TAKE c \in Channels
  <2>1. chan'[c] = WriteAll(cs, n)[c] /\ ChannelsOK(chan)
    BY DEF Typed, ChanOK
  <2>2. PICK h : h = WriteAll(cs, n)[c]
    OBVIOUS
  <2>3. /\ c \notin cs => h = chan[c]
        /\ c \in cs => /\ h.ver = chan[c].ver + 1
                       /\ IsJoin(c) => h.seen = chan[c].seen \cup {n}
                       /\ ~IsJoin(c) => h.avail = TRUE
    BY <2>1, <2>2 DEF WriteAll, Update
  <2> QED BY <2>1, <2>2, <2>3
<1>3. \A c : Written(pendW', c) <=> Written(pendW, c) \/ c \in cs
  <2> TAKE c
  <2>1. ASSUME c \in cs PROVE Written(pendW', c)
    <3>1. <<c, n>> \in BagToSet(pendW') /\ <<c, n>>[1] = c
      BY <1>1, <2>1
    <3> QED BY <3>1 DEF Written
  <2> QED BY <1>1, <2>1 DEF Written
<1> QED BY <1>1, <1>2, <1>3

LEMMA WriteSteady ==
  ASSUME Typed, Typed', Drained, Matched, pc = "exec", NEW n \in Nodes, NEW cs \in SUBSET Channels,
         cs \subseteq known', known \subseteq known', chan' = WriteAll(cs, n), pendW' = PendingAll(cs, n),
         UNCHANGED <<graph, base, resumed, replaying, pc>>,
         \A x \in Nodes, c \in Channels :
            saw'[x][c] = saw[x][c] \/ (c \in Triggers(x) /\ saw'[x][c] = chan[c].ver)
  PROVE  Drained' /\ Matched'
<1>1. Nodes' = Nodes /\ Channels' = Channels /\ Compiled' = Compiled
  BY GraphSame
<1>2. /\ BagToSet(pendW') = BagToSet(pendW) \cup {<<c, n>> : c \in cs}
      /\ \A c \in Channels : /\ c \notin cs => chan'[c] = chan[c]
                             /\ c \in cs => /\ chan'[c].ver = chan[c].ver + 1
                                            /\ IsJoin(c) => chan'[c].seen = chan[c].seen \cup {n}
                                            /\ ~IsJoin(c) => chan'[c].avail
      /\ \A c : Written(pendW', c) <=> Written(pendW, c) \/ c \in cs
  BY WriteParts
<1>3. Drained'
  <2>1. \A c \in Available' : c \in known' /\ Written(pendW', c)
    <3> TAKE c \in Available'
    <3>1. c \in Channels /\ chan'[c].avail
      BY <1>1 DEF Available
    <3>2. CASE c \in cs
      BY <1>2, <3>2
    <3>3. CASE c \notin cs
      <4>1. c \in Available
        BY <1>2, <3>1, <3>3 DEF Available
      <4> QED BY <1>2, <4>1 DEF Drained
    <3> QED BY <3>2, <3>3
  <2>2. Compiled' \subseteq known'
    BY <1>1 DEF Drained
  <2> QED BY <2>1, <2>2 DEF Drained
<1>4. \A c \in Channels : chan[c].ver \in Nat /\ chan'[c].ver \in Nat /\ chan[c].ver <= chan'[c].ver
  <2> TAKE c \in Channels
  <2>1. chan[c].ver \in Nat
    BY DEF Typed, ChanOK, ChannelsOK, ChannelType
  <2> QED BY <1>2, <2>1
<1>5. Behind(saw, Versions)' /\ Behind(base, Versions)'
  BY <1>4, SeenMatched
<1>6. \A c \in Available' : ~IsJoin(c) => chan'[c].ver > base'[Target(c)][c]
  <2> TAKE c \in Available'
  <2> HAVE ~IsJoin(c)
  <2>1. c \in Channels /\ chan'[c].avail
    BY <1>1 DEF Available
  <2>2. base[Target(c)][c] \in Nat /\ base[Target(c)][c] <= chan[c].ver
    BY <2>1, ChannelParts DEF Typed, ChanOK, VersionsOK, Matched, Behind, Versions
  <2>3. CASE c \in cs
    BY <1>2, <1>4, <2>1, <2>2, <2>3
  <2>4. CASE c \notin cs
    <3>1. c \in Available /\ chan'[c] = chan[c]
      BY <1>2, <2>1, <2>4 DEF Available
    <3> QED BY <3>1 DEF Matched
  <2> QED BY <2>3, <2>4
<1>7. ASSUME ~replaying', NEW w \in BagToSet(pendW')
      PROVE  IF IsJoin(w[1]) THEN w[2] \in chan'[w[1]].seen ELSE chan'[w[1]].avail
  <2> DEFINE c == w[1]
  <2>1. w \in BagToSet(pendW) \/ (c \in cs /\ w[2] = n)
    BY <1>2, <1>7
  <2>2. c \in Channels
    BY <2>1 DEF Typed, ChanOK, WritesOK
  <2>3. w \in BagToSet(pendW) => IF IsJoin(c) THEN w[2] \in chan[c].seen ELSE chan[c].avail
    BY <1>7 DEF Matched, OwnWrites
  <2> HIDE DEF c
  <2>4. CASE c \in cs
    BY <1>2, <2>1, <2>2, <2>3, <2>4 DEF c
  <2>5. CASE c \notin cs
    BY <1>2, <2>1, <2>2, <2>3, <2>5 DEF c
  <2> QED BY <2>4, <2>5
<1> QED BY <1>3, <1>5, <1>6, <1>7 DEF Matched, OwnWrites

LEMMA WritersParts ==
  ASSUME Typed, NEW n \in Nodes
  PROVE  /\ Writers(n) \subseteq Compiled
         /\ OnlyJoined => \A c \in Writers(n) : ~IsJoin(c) => JoinFrom[Target(c)] = {}
<1>1. Edges \subseteq Nodes \X Nodes
  BY GraphTyped DEF Typed, GraphOK
<1>2. Writers(n) \subseteq Compiled
  BY DEF Writers, Compiled
<1>3. ASSUME OnlyJoined, NEW c \in Writers(n), ~IsJoin(c)
      PROVE  JoinFrom[Target(c)] = {}
  <2>1. PICK e \in Edges : c = <<"branch", e[2]>>
    BY <1>3 DEF Writers, IsJoin
  <2>2. Target(c) = e[2] /\ e[2] \in Nodes
    BY <1>1, <2>1 DEF Target
  <2> QED BY <1>3, <2>2 DEF OnlyJoined
<1> QED BY <1>2, <1>3

\* A task that goes on leaves the reasons why others were cut off.
LEMMA GoingOn ==
  ASSUME Stopped, NEW t \in DOMAIN tasks, tasks[t].st # "stopped", NEW st, st # "stopped",
         st = "waiting" => NodeBarrier, UNCHANGED <<graph, err, ext>>,
         DOMAIN tasks' = DOMAIN tasks, tasks'[t].st = st, \A u \in DOMAIN tasks : u # t => tasks'[u] = tasks[u]
  PROVE  Stopped'
<1>1. /\ NoError' = NoError /\ CanForce' = CanForce /\ NodeBarrier' = NodeBarrier
      /\ \A n : MayAsk(n)' = MayAsk(n) /\ MayFail(n)' = MayFail(n)
  BY GraphSame
<1>2. \A u \in DOMAIN tasks' : /\ tasks'[u].st = "stopped" => tasks[u].st = "stopped"
                               /\ tasks'[u].st = "waiting" => NodeBarrier
  BY DEF Stopped
<1>3. err.kind = "interrupt" => <<err.node, 1>> # t
  BY DEF Stopped
<1> QED BY <1>1, <1>2, <1>3 DEF Stopped

\* A step of a task of node a that writes the channels cs.
LEMMA TaskWriteSteady ==
  ASSUME Typed, Typed', Steady, NoFanOut, pc = "exec", UNCHANGED_Exec, err' = err, pendT' = pendT,
         NEW t \in DOMAIN tasks, tasks[t].st # "stopped",
         NEW st \in {"wrote", "waiting", "done"}, st = "waiting" => NodeBarrier, NEW to,
         SetTask(t, st, to), \A m \in to : \E o \in Outcomes[t[1]] : m \in o.to,
         NEW cs \in SUBSET Channels, cs \subseteq known', known \subseteq known',
         chan' = WriteAll(cs, t[1]), pendW' = PendingAll(cs, t[1]),
         \A x \in Nodes, c \in Channels :
            saw'[x][c] = saw[x][c] \/ (c \in Triggers(x) /\ saw'[x][c] = chan[c].ver),
         StaticRoutes => cs \subseteq Compiled
  PROVE  Steady'
<1>1. Quiet /\ Stopped /\ Drained /\ Matched /\ Faithful /\ Untouched /\ Routed
  BY DEF Steady
<1>2. UNCHANGED <<graph, nextN, base, resumed, replaying, crashes, pc, ext, ckpt, fresh>>
  BY DEF UNCHANGED_Exec, runVars, envVars
<1>3. Compiled' = Compiled /\ StaticRoutes' = StaticRoutes /\ MaxCrashes' = MaxCrashes
  BY <1>2, GraphSame
<1>4. PICK a \in Nodes : a = t[1]
  BY DEF Typed, TasksOK, TaskOK
<1>5. /\ Quiet' /\ DOMAIN tasks' = DOMAIN tasks
      /\ \A u \in DOMAIN tasks : tasks'[u] = IF u = t THEN [st |-> st, to |-> to] ELSE tasks[u]
  BY <1>1, <1>2, SetTaskQuiet
<1>6. Stopped'
  BY <1>1, <1>2, <1>5, GoingOn
<1>7. Drained' /\ Matched'
  BY <1>1, <1>2, <1>4, WriteSteady
<1>8. /\ Faithful' /\ Lasting \subseteq Lasting'
      /\ (StaticRoutes' \/ MaxCrashes' = 0) /\ ckpt' # NoCheckpoint => RoutedIn(ckpt.writes)'
  BY <1>1, <1>2, CheckpointKeeps
<1>9. ~fresh'
  BY <1>1, <1>2 DEF Untouched
<1>10. Routed'
  <2> SUFFICES ASSUME StaticRoutes \/ MaxCrashes = 0
               PROVE  \A w \in BagToSet(pendW') : w[1] \in Lasting'
    BY <1>3, <1>8 DEF Routed, RoutedIn
  <2>1. BagToSet(pendW') = BagToSet(pendW) \cup {<<c, a>> : c \in cs}
    BY <1>4, PendingParts DEF Typed, ChanOK
  <2>2. cs \subseteq Lasting'
    BY <1>3 DEF Lasting
  <2>3. Lasting \subseteq Lasting' /\ \A w \in BagToSet(pendW) : w[1] \in Lasting
    BY <1>1, <1>8 DEF Routed, RoutedIn
  <2> QED BY <2>1, <2>2, <2>3
<1> QED BY <1>5, <1>6, <1>7, <1>8, <1>9, <1>10 DEF Steady, Untouched

LEMMA RunTaskSteady ==
  ASSUME Typed, Typed', Steady, NoFanOut, NEW t \in DOMAIN tasks, RunTask(t)
  PROVE  Steady'
<1>1. /\ pc = "exec" /\ tasks[t].st = "todo" /\ saw' = saw /\ err' = err /\ UNCHANGED_Exec
  BY DEF RunTask
<1>2. PICK a \in Nodes : a = t[1]
  BY DEF Typed, TasksOK, TaskOK
<1>3. PICK o \in Outcomes[a] : ResultState(t, o) \/ ResultGoTo(t, o) \/ ResultFanOut(t, o)
  BY <1>2 DEF RunTask
<1>4. o.kind # "fan" /\ o.to \in SUBSET Nodes
  BY OutcomeTyped DEF NoFanOut
<1>5. \A x \in Nodes, c \in Channels :
         saw'[x][c] = saw[x][c] \/ (c \in Triggers(x) /\ saw'[x][c] = chan[c].ver)
  BY <1>1
<1>6. PICK to : to = o.to
  OBVIOUS
<1>7. PICK none : none = {}
  OBVIOUS
<1>8. CASE ResultState(t, o)
  <2>1. PICK cs : cs = Writers(a)
    OBVIOUS
  <2>2. /\ chan' = WriteAll(cs, t[1]) /\ pendW' = PendingAll(cs, t[1])
        /\ SetTask(t, "wrote", to) /\ known' = known /\ pendT' = pendT
    BY <1>2, <1>6, <1>8, <2>1 DEF ResultState
  <2>3. cs \subseteq Compiled /\ cs \in SUBSET Channels
    BY <2>1, WritersParts, GraphTyped DEF Typed, GraphOK
  <2>4. cs \subseteq known' /\ known \subseteq known'
    BY <2>2, <2>3 DEF Steady, Drained
  <2>5. \A m \in to : \E q \in Outcomes[t[1]] : m \in q.to
    BY <1>2, <1>6
  <2> QED BY <1>1, <1>5, <2>2, <2>3, <2>4, <2>5, TaskWriteSteady
<1>9. CASE ResultGoTo(t, o)
  <2>1. PICK cs : cs = {<<"trigger", m>> : m \in o.to}
    OBVIOUS
  <2>2. /\ chan' = WriteAll(cs, t[1]) /\ pendW' = PendingAll(cs, t[1])
        /\ SetTask(t, "wrote", none) /\ known' = known \cup cs /\ pendT' = pendT /\ o.kind = "goto"
    BY <1>7, <1>9, <2>1 DEF ResultGoTo
  <2>3. cs \in SUBSET Channels
    BY <1>4, <2>1, RoutesTyped
  <2>4. ~StaticRoutes
    BY <1>3, <2>2 DEF StaticRoutes
  <2>5. cs \subseteq known' /\ known \subseteq known' /\ \A m \in none : \E q \in Outcomes[t[1]] : m \in q.to
    BY <1>7, <2>2
  <2> QED BY <1>1, <1>5, <2>2, <2>3, <2>4, <2>5, TaskWriteSteady
<1>10. ~ResultFanOut(t, o)
  BY <1>4 DEF ResultFanOut
<1> QED BY <1>3, <1>8, <1>9, <1>10

\* updateVersionsSeen notes the node's own channels.
LEMMA SawParts ==
  ASSUME Typed, NEW a \in Nodes, UpdateVersionsSeen(a)
  PROVE  \A x \in Nodes, c \in Channels :
            saw'[x][c] = saw[x][c] \/ (c \in Triggers(x) /\ saw'[x][c] = chan[c].ver)
<1>1. saw' = [saw EXCEPT ![a] = [c \in Channels |-> IF c \in Triggers(a) THEN chan[c].ver ELSE saw[a][c]]]
  BY DEF UpdateVersionsSeen
<1>2. VersionsOK(saw)
  BY DEF Typed, ChanOK
<1> QED BY <1>1, <1>2 DEF VersionsOK

LEMMA FinishTaskSteady ==
  ASSUME Typed, Typed', Steady, NoFanOut, NEW t \in DOMAIN tasks, FinishTask(t)
  PROVE  Steady'
<1>1. PICK cs : cs = {<<"branch", m>> : m \in tasks[t].to}
  OBVIOUS
<1>2. PICK a \in Nodes : a = t[1]
  BY DEF Typed, TasksOK, TaskOK
<1>3. PICK none : none = {}
  OBVIOUS
<1>4. /\ pc = "exec" /\ UNCHANGED_Exec /\ err' = err /\ pendT' = pendT /\ tasks[t].st # "stopped"
      /\ chan' = WriteAll(cs, t[1]) /\ pendW' = PendingAll(cs, t[1]) /\ known' = known \cup cs
      /\ UpdateVersionsSeen(a)
  BY <1>1, <1>2 DEF FinishTask
<1>5. PICK st \in {"wrote", "waiting", "done"} : SetTask(t, st, none) /\ (st = "waiting" => NodeBarrier)
  BY <1>3 DEF FinishTask
<1>6. tasks[t].to \in SUBSET Nodes /\ \A m \in tasks[t].to : \E o \in Outcomes[a] : m \in o.to
  BY <1>2 DEF Typed, TasksOK, TaskOK, Steady, Quiet
<1>7. cs \in SUBSET Channels
  BY <1>1, <1>6, RoutesTyped
<1>8. \A x \in Nodes, c \in Channels :
         saw'[x][c] = saw[x][c] \/ (c \in Triggers(x) /\ saw'[x][c] = chan[c].ver)
  BY <1>4, SawParts
<1>9. StaticRoutes => cs \subseteq Compiled
  BY <1>1, <1>6 DEF StaticRoutes
<1>10. /\ cs \subseteq known' /\ known \subseteq known'
       /\ \A m \in none : \E o \in Outcomes[t[1]] : m \in o.to
  BY <1>3, <1>4
<1> QED BY <1>4, <1>5, <1>7, <1>8, <1>9, <1>10, TaskWriteSteady

LEMMA ReleaseTaskSteady ==
  ASSUME Typed, Steady, NoFanOut, NEW t \in DOMAIN tasks, ReleaseTask(t)
  PROVE  Steady'
<1>1. Quiet /\ Stopped /\ Drained /\ Matched /\ Untouched
  BY DEF Steady
<1>2. PICK none : none = {}
  OBVIOUS
<1>3. /\ pc = "exec" /\ tasks[t].st = "waiting" /\ SetTask(t, "done", none)
      /\ UNCHANGED <<graph, known, chan, saw, pendW, nextN, base, resumed, replaying, err, pendT,
                     crashes, pc, step, ext, ckpt, fresh>>
  BY <1>2 DEF ReleaseTask, UNCHANGED_Exec, chanVars, runVars, envVars
<1>4. \A m \in none : \E o \in Outcomes[t[1]] : m \in o.to
  BY <1>2
<1>5. /\ Quiet' /\ DOMAIN tasks' = DOMAIN tasks
      /\ \A u \in DOMAIN tasks : tasks'[u] = IF u = t THEN [st |-> "done", to |-> none] ELSE tasks[u]
  BY <1>1, <1>3, <1>4, SetTaskQuiet
<1>6. Stopped'
  BY <1>1, <1>3, <1>5, GoingOn
<1>7. /\ Nodes' = Nodes /\ Channels' = Channels /\ Compiled' = Compiled
      /\ \A n : Triggers(n)' = Triggers(n)
  BY <1>3, GraphSame
<1>8. Drained'
  BY <1>1, <1>3, <1>7 DEF Drained, Written, Available
<1>9. Matched'
  BY <1>1, <1>3, <1>7 DEF Matched, OwnWrites, Available, Behind, Versions
<1>10. ~fresh'
  BY <1>1, <1>3 DEF Untouched
<1> QED BY <1>3, <1>5, <1>6, <1>8, <1>9, <1>10, KeepSteady DEF Steady

LEMMA TaskStepSteady ==
  ASSUME Typed, Typed', Steady, NoFanOut, TaskStep
  PROVE  Steady'
<1>1. PICK t \in DOMAIN tasks : \/ RunTask(t) \/ FinishTask(t) \/ ReleaseTask(t)
                                \/ InterruptTask(t) \/ FailTask(t) \/ FailCondition(t)
                                \/ BarrierTimesOut(t) \/ CancelTask(t)
  BY DEF TaskStep
<1>2. t[1] \in Nodes
  BY DEF Typed, TasksOK, TaskOK
<1>3. saw' = saw => \A x \in Nodes, c \in Channels :
                       saw'[x][c] = saw[x][c] \/ (c \in Triggers(x) /\ saw'[x][c] = chan[c].ver)
  OBVIOUS
<1>4. CASE InterruptTask(t)
  <2>1. MayAsk(t[1]) /\ pc = "exec" /\ tasks[t].st # "stopped" /\ StopTask(t, "interrupt") /\ saw' = saw
    BY <1>4 DEF InterruptTask, MayAsk
  <2> QED BY <1>3, <2>1, StopSteady
<1>5. CASE FailTask(t)
  <2>1. MayFail(t[1]) /\ pc = "exec" /\ tasks[t].st # "stopped" /\ StopTask(t, "error") /\ saw' = saw
    BY <1>5 DEF FailTask, MayFail
  <2> QED BY <1>3, <2>1, StopSteady
<1>6. CASE FailCondition(t)
  <2>1. MayFail(t[1]) /\ pc = "exec" /\ tasks[t].st # "stopped" /\ StopTask(t, "error") /\ UpdateVersionsSeen(t[1])
    BY <1>6 DEF FailCondition, MayFail
  <2>2. \A x \in Nodes, c \in Channels :
           saw'[x][c] = saw[x][c] \/ (c \in Triggers(x) /\ saw'[x][c] = chan[c].ver)
    BY <1>2, <2>1, SawParts
  <2> QED BY <2>1, <2>2, StopSteady
<1>7. CASE BarrierTimesOut(t)
  <2>1. MayFail(t[1]) /\ pc = "exec" /\ tasks[t].st # "stopped" /\ StopTask(t, "error") /\ saw' = saw
    BY <1>7 DEF BarrierTimesOut, MayFail
  <2> QED BY <1>3, <2>1, StopSteady
<1>8. CASE CancelTask(t)
  <2>1. CanForce /\ pc = "exec" /\ tasks[t].st # "stopped" /\ StopTask(t, "canceled") /\ saw' = saw
    BY <1>8 DEF CancelTask, Steady, Stopped
  <2> QED BY <1>3, <2>1, StopSteady
<1> QED BY <1>1, <1>4, <1>5, <1>6, <1>7, <1>8, RunTaskSteady, FinishTaskSteady, ReleaseTaskSteady
(* The end of a step.                                                      *)

LEMMA SumCopies ==
  ASSUME NEW a, IsABag(a), NEW b, IsABag(b), NEW x
  PROVE  CopiesOf(x, a (+) b) = CopiesOf(x, a) + CopiesOf(x, b)
<1>1. DOMAIN (a (+) b) = DOMAIN a \cup DOMAIN b
  BY DEF (+)
<1>2. /\ \A y \in DOMAIN a : a[y] \in Nat /\ a[y] > 0
      /\ \A y \in DOMAIN b : b[y] \in Nat /\ b[y] > 0
  BY DEF IsABag
<1>3. x \in DOMAIN a \cup DOMAIN b =>
        (a (+) b)[x] = (IF x \in DOMAIN a THEN a[x] ELSE 0) + (IF x \in DOMAIN b THEN b[x] ELSE 0)
  BY DEF (+)
<1> QED BY <1>1, <1>2, <1>3 DEF CopiesOf, BagIn, BagToSet

\* What is owed when the tasks of a step are over.
LEMMA StepOwed ==
  ASSUME Typed, Quiet, Drained, Matched, pc = "exec", NEW n \in Nodes
  PROVE  /\ Triggered = GetNextNodes
         /\ Owed[n] = One(n \in GetNextNodes) + One(n \in NodesOf(Unfinished))
         /\ Owed[n] \in Nat /\ CopiesOf(n, nextN) = 0
<1>1. \A c \in Available : c \in known /\ ShouldTrigger(c)
  BY DEF Drained, Matched, ShouldTrigger
<1>2. Triggered = GetNextNodes
  BY <1>1 DEF Triggered, GetNextNodes
<1>3. CopiesOf(n, nextN) = 0
  BY EmptyBagParts DEF Quiet
<1>4. Owed[n] = CopiesOf(n, nextN) + One(n \in Triggered) + One(n \in NodesOf(Unfinished))
  BY OwedParts DEF One
<1>5. One(n \in Triggered) \in {0, 1} /\ One(n \in NodesOf(Unfinished)) \in {0, 1}
  BY DEF One
<1> QED BY <1>2, <1>3, <1>4, <1>5

LEMMA InternalInterruptSteady ==
  ASSUME Typed, Steady, NoFanOut, InternalInterrupt
  PROVE  Steady'
<1>1. Quiet /\ Stopped /\ Drained /\ Matched
  BY DEF Steady
<1>2. PICK next : next = SetToBag(WithNode(GetNextNodes, err.node))
  OBVIOUS
<1>3. pc = "exec" /\ StepOver /\ err.kind = "interrupt" /\ HandleInterrupt(step, next, err.node, skips)
  BY <1>2 DEF InternalInterrupt, StepOver
<1>4. /\ MayAsk(err.node) /\ <<err.node, 1>> \in Unfinished /\ err.node \in NodesOf(Unfinished)
      /\ err.node \in Nodes
  <2>1. <<err.node, 1>> \in Unfinished /\ MayAsk(err.node)
    BY <1>1, <1>3 DEF Stopped, Unfinished
  <2>2. <<err.node, 1>>[1] = err.node
    OBVIOUS
  <2> QED BY <2>1, <2>2 DEF NodesOf, Typed, TasksOK
<1>5. AsksAlone => \A n \in NodesOf(Unfinished) : n = err.node
  <2> SUFFICES ASSUME AsksAlone, NEW t \in Unfinished PROVE t[1] = err.node
    BY DEF NodesOf
  <2>1. tasks[t].st = "stopped" /\ t[1] \in Nodes
    BY <1>3 DEF Unfinished, StepOver, Typed, TasksOK, TaskOK
  <2>2. MayAsk(t[1]) \/ MayFail(t[1]) \/ CanForce
    BY <1>1, <2>1 DEF Stopped, Unfinished
  <2> QED BY <1>4, <2>1, <2>2 DEF AsksAlone
<1>6. ASSUME NEW n \in Nodes
      PROVE  /\ CopiesOf(n, next) <= Owed[n] /\ CopiesOf(n, next) <= 1 /\ Owed[n] \in Nat
             /\ AsksAlone /\ Owed[n] <= 1 => CopiesOf(n, next) = Owed[n]
  <2>1. CopiesOf(n, next) = One(n \in GetNextNodes \/ n = err.node)
    BY <1>2, SetBag DEF WithNode, One
  <2>2. Owed[n] = One(n \in GetNextNodes) + One(n \in NodesOf(Unfinished))
    BY <1>1, <1>3, StepOwed
  <2> QED BY <1>4, <1>5, <2>1, <2>2 DEF One
<1> QED BY <1>3, <1>6, PauseSteady

LEMMA ForcedInterruptSteady ==
  ASSUME Typed, Steady, NoFanOut, ForcedInterrupt
  PROVE  Steady'
<1>1. Quiet /\ Drained /\ Matched
  BY DEF Steady
<1>2. PICK a, b : a = BagOfTasks(TasksToRerun) /\ b = SetToBag(GetNextNodes \ NodesOf(TasksToRerun))
  OBVIOUS
<1>3. PICK next : next = a (+) b
  OBVIOUS
<1>4. pc = "exec" /\ StepOver /\ HandleInterrupt(step, next, "none", skips)
  BY <1>2, <1>3 DEF ForcedInterrupt, StepOver
<1>5. Unfinished \in SUBSET DOMAIN tasks /\ IsFiniteSet(Unfinished) /\ TasksToRerun = Unfinished
  <2>1. Unfinished \in SUBSET DOMAIN tasks /\ IsFiniteSet(DOMAIN tasks)
    BY DEF Unfinished, Typed, TasksOK
  <2> QED BY <2>1, FS_Subset DEF TasksToRerun
<1>6. ASSUME NEW n \in Nodes
      PROVE  /\ CopiesOf(n, next) <= Owed[n] /\ CopiesOf(n, next) <= 1 /\ Owed[n] \in Nat
             /\ AsksAlone /\ Owed[n] <= 1 => CopiesOf(n, next) = Owed[n]
  <2>1. IsABag(a) /\ IsABag(b)
    BY <1>2, <1>5, TaskBag, SetBag
  <2>2. CopiesOf(n, a) = One(n \in NodesOf(Unfinished))
    <3>1. CopiesOf(n, a) = Cardinality({t \in Unfinished : t[1] = n})
      BY <1>2, <1>5, TaskBag
    <3>2. Cardinality({t \in Unfinished : t[1] = n}) = IF n \in NodesOf(Unfinished) THEN 1 ELSE 0
      BY <1>1, <1>5, OneTask
    <3> QED BY <3>1, <3>2 DEF One
  <2>3. CopiesOf(n, b) = One(n \in GetNextNodes \ NodesOf(Unfinished))
    BY <1>2, <1>5, SetBag DEF One
  <2>4. CopiesOf(n, next) = CopiesOf(n, a) + CopiesOf(n, b)
    BY <1>3, <2>1, SumCopies
  <2>5. Owed[n] = One(n \in GetNextNodes) + One(n \in NodesOf(Unfinished))
    BY <1>1, <1>4, StepOwed
  <2> QED BY <2>2, <2>3, <2>4, <2>5 DEF One
<1> QED BY <1>4, <1>6, PauseSteady

LEMMA NothingStopped ==
  ASSUME StepOver, Stopped, err = NoError
  PROVE  Unfinished = {} /\ NodesOf(Unfinished) = {}
BY DEF Stopped, StepOver, Unfinished, NodesOf

LEMMA StaticInterruptAfterStepSteady ==
  ASSUME Typed, Steady, NoFanOut, StaticInterruptAfterStep
  PROVE  Steady'
<1>1. Quiet /\ Stopped /\ Drained /\ Matched
  BY DEF Steady
<1>2. PICK next : next = SetToBag(GetNextNodes)
  OBVIOUS
<1>3. pc = "exec" /\ StepOver /\ err = NoError /\ HandleInterrupt(step, next, "none", skips)
  BY <1>2 DEF StaticInterruptAfterStep, StepOver
<1>4. ASSUME NEW n \in Nodes
      PROVE  /\ CopiesOf(n, next) <= Owed[n] /\ CopiesOf(n, next) <= 1 /\ Owed[n] \in Nat
             /\ AsksAlone /\ Owed[n] <= 1 => CopiesOf(n, next) = Owed[n]
  <2>1. CopiesOf(n, next) = One(n \in GetNextNodes)
    BY <1>2, SetBag DEF One
  <2>2. n \notin NodesOf(Unfinished)
    BY <1>1, <1>3, NothingStopped
  <2>3. Owed[n] = One(n \in GetNextNodes) + One(n \in NodesOf(Unfinished))
    BY <1>1, <1>3, StepOwed
  <2> QED BY <2>1, <2>2, <2>3 DEF One
<1> QED BY <1>3, <1>4, PauseSteady

\* The checkpoint at the end of a step: what is owed is what its writes trigger,
\* or it holds writes that were replayed already.
LEMMA LoopFaithful ==
  ASSUME Typed, Quiet, Stopped, Drained, Matched, StepOver, err = NoError, NEW sk, NEW k,
         k = Snapshot(step, SetToBag(GetNextNodes), pendW, "none", sk)
  PROVE  FaithfulTo(k)
<1>1. /\ k.step = step /\ k.next = SetToBag(GetNextNodes) /\ k.writes = pendW /\ k.saw = saw /\ k.owed = Owed
      /\ k.vers = Versions /\ k.seen = [c \in Channels |-> chan[c].seen] /\ k.replayed = replaying
  BY DEF Snapshot, Versions
<1>2. step \in Nat /\ pc = "exec"
  BY DEF Typed, GraphOK, StepOver
<1>3. \A c \in Channels : /\ k.seen[c] = chan[c].seen
                          /\ chan[c].avail => c \in known /\ Written(pendW, c)
                          /\ Settled(c, chan[c])
  BY <1>1, <1>2 DEF Drained, Available, Typed, ChanOK, ChannelsOK
<1>4. \A c \in Channels : IsJoin(c) /\ k.seen[c] # {} /\ Satisfied(c, k.seen[c]) => Written(k.writes, c)
  BY <1>1, <1>3 DEF Settled
<1>5. Behind(k.saw, k.vers)
  BY <1>1 DEF Matched
<1>6. ASSUME NEW n \in Nodes
      PROVE  Owed[n] = One(n \in GetNextNodes) /\ CopiesOf(n, k.next) = One(n \in GetNextNodes)
  <2>1. n \notin NodesOf(Unfinished)
    BY NothingStopped
  <2>2. Owed[n] = One(n \in GetNextNodes) + One(n \in NodesOf(Unfinished))
    BY <1>2, StepOwed
  <2> QED BY <1>1, <2>1, <2>2, SetBag DEF One
<1>7. \A n \in Nodes : CopiesOf(n, k.next) <= 1 /\ k.owed[n] \in Nat
  BY <1>1, <1>6 DEF One
<1>8. k.writes = EmptyBag => ListedIn(k)
  BY <1>1, <1>6 DEF ListedIn, One
<1>9. ASSUME ~k.replayed
      PROVE  WrittenIn(k)
  <2>1. \A w \in BagToSet(pendW) : /\ w[1] \in Channels
                                   /\ IF IsJoin(w[1]) THEN w[2] \in chan[w[1]].seen ELSE chan[w[1]].avail
    BY <1>1, <1>2, <1>9 DEF Matched, OwnWrites, Typed, ChanOK, WritesOK
  <2>2. GetNextNodes = Again(k)
    <3>1. ASSUME NEW c \in Available \cap known
          PROVE  c \in Channels /\ Written(k.writes, c) /\ Ready(c, k.seen[c])
      BY <1>1, <1>3 DEF Available, Ready, Settled
    <3>2. ASSUME NEW c \in Channels, Written(k.writes, c), Ready(c, k.seen[c])
          PROVE  c \in Available \cap known
      <4>1. PICK w \in BagToSet(pendW) : w[1] = c
        BY <1>1, <3>2 DEF Written
      <4>2. chan[c].avail
        BY <1>3, <2>1, <3>2, <4>1 DEF Ready, Settled
      <4> QED BY <1>3, <4>2 DEF Available
    <3> QED BY <3>1, <3>2 DEF GetNextNodes, Again
  <2> QED BY <1>1, <1>3, <1>6, <2>1, <2>2 DEF WrittenIn
<1> QED BY <1>1, <1>2, <1>4, <1>5, <1>7, <1>8, <1>9 DEF FaithfulTo

LEMMA LoopSteady ==
  ASSUME Typed, Steady, NoFanOut, LoopCheckpoint
  PROVE  Steady'
<1>1. Quiet /\ Stopped /\ Drained /\ Matched /\ Faithful /\ Untouched /\ Routed
  BY DEF Steady
<1>2. PICK k : k = Snapshot(step, SetToBag(GetNextNodes), pendW, "none", skips)
  OBVIOUS
<1>3. /\ pc = "exec" /\ StepOver /\ err = NoError /\ SaveInRun(k) /\ pendW' = EmptyBag /\ tasks' = NoTasks
      /\ pc' = "plan" /\ step' = step + 1 /\ ~replaying'
      /\ UNCHANGED <<graph, known, nextN, chan, saw, base, resumed, err, pendT, crashes, ext, fresh>>
  BY <1>2 DEF LoopCheckpoint, StepOver, graphVars, stateVars
<1>4. /\ Nodes' = Nodes /\ Channels' = Channels /\ Compiled' = Compiled
      /\ Outcomes' = Outcomes /\ NoError' = NoError /\ CanForce' = CanForce
      /\ StaticRoutes' = StaticRoutes /\ MaxCrashes' = MaxCrashes /\ \A n : Triggers(n)' = Triggers(n)
  BY <1>3, GraphSame
<1>5. k.writes = pendW /\ ~fresh'
  BY <1>1, <1>2, <1>3 DEF Untouched, Snapshot
<1>6. FaithfulTo(k)
  BY <1>1, <1>2, <1>3, LoopFaithful
<1>7. StaticRoutes \/ MaxCrashes = 0 => RoutedIn(k.writes)
  BY <1>1, <1>5 DEF Routed
<1>8. /\ Faithful'
      /\ (StaticRoutes' \/ MaxCrashes' = 0) /\ ckpt' # NoCheckpoint => RoutedIn(ckpt.writes)'
  BY <1>1, <1>3, <1>6, <1>7, SaveSteady
<1>9. DOMAIN tasks' = {} /\ BagToSet(pendW') = {} /\ nextN' = EmptyBag /\ Available' = Available
  BY <1>1, <1>3, <1>4, EmptyBagParts DEF NoTasks, Quiet, Available
<1>10. Quiet'
  BY <1>1, <1>3, <1>4, <1>9 DEF Quiet
<1>11. Stopped'
  BY <1>1, <1>3, <1>4, <1>9 DEF Stopped, NoError
<1>12. Drained'
  <2>1. step' # 0
    BY <1>3 DEF Typed, GraphOK
  <2> QED BY <1>1, <1>3, <1>4, <1>9, <2>1 DEF Drained
<1>13. Matched'
  <2>1. Behind(saw, Versions)' /\ Behind(base, Versions)'
    BY <1>1, <1>3, <1>4 DEF Matched, Behind, Versions
  <2> QED BY <1>1, <1>3, <1>9, <2>1 DEF Matched, OwnWrites
<1>14. Untouched' /\ Routed'
  BY <1>4, <1>5, <1>8, <1>9 DEF Untouched, Routed, RoutedIn
<1> QED BY <1>8, <1>10, <1>11, <1>12, <1>13, <1>14 DEF Steady

LEMMA GraphStays == Next \/ UNCHANGED vars => graph' = graph
BY DEF Next, Execute, StartFresh, Resume, Engine, InputCheckpoint, Plan, OutOfSteps, BeforeStep,
       ExternalInterruptBeforeStep, StaticInterruptBeforeStep, HandleInterrupt, StartStep, TaskStep,
       RunTask, FinishTask, ReleaseTask, InterruptTask, FailTask, FailCondition, BarrierTimesOut,
       CancelTask, StopTask, UNCHANGED_Exec, StepEnd, InternalInterrupt, ForcedInterrupt, StepFails,
       StaticInterruptAfterStep, LoopCheckpoint, Environment, RequestPause, ForcePause, Crash, graphVars, vars

LEMMA SteadyNext ==
  ASSUME Typed, Typed', Steady, Clean', Next
  PROVE  Steady'
<1>1. NoFanOut' = NoFanOut
  BY GraphStays, GraphSame
<1>2. CASE ~NoFanOut
  BY <1>1, <1>2 DEF Steady
<1>3. CASE NoFanOut
  <2>1. CASE Execute
    BY <1>3, <2>1, StartFreshSteady, ResumeSteady DEF Execute
  <2>2. CASE Environment
    BY <1>3, <2>2, AsideSteps, CrashSteady DEF Environment
  <2>3. CASE StepEnd
    BY <1>3, <2>3, InternalInterruptSteady, ForcedInterruptSteady, AsideSteps,
       StaticInterruptAfterStepSteady, LoopSteady DEF StepEnd
  <2>4. CASE InputCheckpoint \/ Plan \/ OutOfSteps \/ BeforeStep \/ TaskStep
    BY <1>3, <2>4, InputSteady, PlanSteady, AsideSteps, BeforeStepSteady, TaskStepSteady
  <2> QED BY <2>1, <2>2, <2>3, <2>4 DEF Next, Engine
<1> QED BY <1>2, <1>3

LEMMA StutterSteady ==
  ASSUME Typed, Steady, UNCHANGED vars
  PROVE  Steady'
<1>1. UNCHANGED <<graph, known, chan, pendW, saw, base, resumed, replaying, pendT, tasks, nextN, err,
                  crashes, pc, step, ckpt, fresh, ext>>
  BY DEF vars, graphVars, stateVars, chanVars, runVars, taskVars, envVars
<1>2. NoFanOut' = NoFanOut
  BY <1>1, GraphSame
<1>3. CASE ~NoFanOut
  BY <1>2, <1>3 DEF Steady
<1>4. CASE NoFanOut
  BY <1>1, <1>4, StandSteady
<1> QED BY <1>3, <1>4

LEMMA SteadyAlways == Spec /\ []Clean => [](Typed /\ Steady)
<1>1. Init => Typed /\ Steady
  BY InitTyped, SteadyInit
<1>2. Typed /\ Steady /\ Clean' /\ [Next]_vars => (Typed /\ Steady)'
  BY NextTyped, StutterTyped, SteadyNext, StutterSteady
<1> QED BY <1>1, <1>2, PTL DEF Spec

(***************************************************************************)
(* However often an execution is paused, crashes and is resumed, at        *)
(* whatever point, a resumed execution plans no run that the checkpointed  *)
(* one had completed (resumeOrInitWithSaver): where the checkpoint lists   *)
(* next nodes it has no writes to replay, and where it replays writes      *)
(* (applyPendingWrites) its next nodes are not run.  No graph is excluded  *)
(* but those whose nodes fan out, and no execution but one that resumes    *)
(* from writes that were replayed already or from an interrupt at a        *)
(* complete join.                                                          *)
(***************************************************************************)
THEOREM NothingRepeatedTheorem == Spec /\ []Clean => [](NoFanOut => NothingRepeated)
<1>1. Typed /\ Steady /\ Clean => (NoFanOut => NothingRepeated)
  BY SteadyMeans
<1> QED BY <1>1, SteadyAlways, PTL

(***************************************************************************)
(* Nor does it lose a run, when the branches that nodes take are edges of  *)
(* the compiled graph or the process does not die (every channel written   *)
(* before the checkpoint is then one the resuming process knows), when a   *)
(* node that asks a human is the only one to be cut off (one node of an    *)
(* internal interrupt is listed), and when no node was owed twice (next    *)
(* nodes are listed once).                                                 *)
(***************************************************************************)
THEOREM NothingLostTheorem ==
  Spec /\ []Clean => [](/\ NoFanOut /\ (StaticRoutes \/ MaxCrashes = 0) /\ AsksAlone
                        /\ fresh => \A n \in Nodes : ckpt.owed[n] <= 1
                        => NothingLost)
<1>1. Typed /\ Steady /\ Clean => (/\ NoFanOut /\ (StaticRoutes \/ MaxCrashes = 0) /\ AsksAlone
                                   /\ fresh => \A n \in Nodes : ckpt.owed[n] <= 1
                                   => NothingLost)
  BY SteadyMeans
<1> QED BY <1>1, SteadyAlways, PTL
-----------------------------------------------------------------------------
(* Joins.  How often a node behind a join has run, and will have.          *)

\* A task that is to be run, or is listed to be run again.
ListedAgain(n) == err.kind = "canceled" \/ (err.kind = "interrupt" /\ err.node = n)
LeftTask(t) == tasks[t].st = "todo" \/ (tasks[t].st = "stopped" /\ ListedAgain(t[1]))
Left(n) == One(\E t \in DOMAIN tasks : t[1] = n /\ LeftTask(t))

\* Each sender has run once for every run of the join, past, listed or under way.
Counted ==
  /\ \A n \in Nodes : \A m \in JoinFrom[n] :
       ran[n] + Left(n) + CopiesOf(n, nextN) + One(m \in chan[<<"join", n>>].seen) <= ran[m]
  /\ \A c \in Channels : ~IsJoin(c) /\ (chan[c].avail \/ Written(pendW, c)) => JoinFrom[Target(c)] = {}
CountedIn(k) ==
  /\ ~ReadyJoin(k) =>
       \A n \in Nodes : \A m \in JoinFrom[n] :
         k.ran[n] + CopiesOf(n, ExecutableNextNodes(k)) + One(m \in k.seen[<<"join", n>>]) <= k.ran[m]
  /\ \A c \in Channels : ~IsJoin(c) /\ Written(k.writes, c) => JoinFrom[Target(c)] = {}
Joined == NoFanOut /\ OnlyJoined /\ CutEarly => Counted /\ (ckpt # NoCheckpoint => CountedIn(ckpt))

LEMMA OneTyped == \A p : One(p) \in {0, 1}
BY DEF One

\* The channels' part of a sum.
LEMMA JoinParts ==
  ASSUME Typed, NEW n \in Nodes, NEW m \in JoinFrom[n]
  PROVE  /\ <<"join", n>> \in Channels /\ IsJoin(<<"join", n>>) /\ Target(<<"join", n>>) = n
         /\ m \in Nodes /\ ran[n] \in Nat /\ ran[m] \in Nat /\ CopiesOf(n, nextN) \in Nat
BY GraphTyped, CopiesTyped DEF Typed, GraphOK, StateOK, Channels, IsJoin, Target

LEMMA JoinedMeans ==
  ASSUME Typed, Joined, NoFanOut, OnlyJoined, CutEarly
  PROVE  JoinRunsOnce
<1> SUFFICES ASSUME NEW n \in Nodes, NEW m \in JoinFrom[n] PROVE ran[n] <= ran[m]
  BY DEF JoinRunsOnce
<1>1. ran[n] + Left(n) + CopiesOf(n, nextN) + One(m \in chan[<<"join", n>>].seen) <= ran[m]
  BY DEF Joined, Counted
<1>2. Left(n) \in {0, 1} /\ One(m \in chan[<<"join", n>>].seen) \in {0, 1}
  BY OneTyped DEF Left
<1> QED BY <1>1, <1>2, JoinParts

\* Nothing new is to be run.
LEMMA CountedSame ==
  ASSUME Typed, Counted, UNCHANGED <<graph, chan, ran, nextN>>,
         \A n \in Nodes : Left(n)' <= Left(n) /\ Left(n) \in {0, 1} /\ Left(n)' \in {0, 1},
         pendW' = pendW \/ pendW' = EmptyBag
  PROVE  Counted'
<1>1. Nodes' = Nodes /\ Channels' = Channels /\ JoinFrom' = JoinFrom
  BY GraphSame
<1>2. ASSUME NEW n \in Nodes, NEW m \in JoinFrom[n]
      PROVE  ran[n] + Left(n)' + CopiesOf(n, nextN) + One(m \in chan[<<"join", n>>].seen) <= ran[m]
  <2>1. ran[n] + Left(n) + CopiesOf(n, nextN) + One(m \in chan[<<"join", n>>].seen) <= ran[m]
    BY DEF Counted
  <2>2. One(m \in chan[<<"join", n>>].seen) \in {0, 1}
    BY OneTyped
  <2>3. Left(n)' <= Left(n) /\ Left(n) \in {0, 1} /\ Left(n)' \in {0, 1}
    OBVIOUS
  <2> QED BY <2>1, <2>2, <2>3, JoinParts
<1>3. \A c : Written(pendW', c) => Written(pendW, c)
  BY EmptyBagParts DEF Written
<1> QED BY <1>1, <1>2, <1>3 DEF Counted

LEMMA CountedInSame ==
  ASSUME graph' = graph, NEW k, CountedIn(k)
  PROVE  CountedIn(k)'
<1>1. Nodes' = Nodes /\ Channels' = Channels /\ JoinFrom' = JoinFrom
  BY GraphSame
<1>2. ReadyJoin(k)' = ReadyJoin(k)
  BY <1>1 DEF ReadyJoin, Satisfied
<1> QED BY <1>1, <1>2 DEF CountedIn, Written, ExecutableNextNodes

\* The last checkpoint stays, or another is taken.
LEMMA SaveCounted ==
  ASSUME graph' = graph, ckpt # NoCheckpoint => CountedIn(ckpt),
         ckpt' = ckpt \/ \E k : ckpt' = k /\ CountedIn(k)
  PROVE  ckpt' # NoCheckpoint => CountedIn(ckpt)'
<1>1. CASE ckpt' = ckpt
  <2>1. PICK k : k = ckpt
    OBVIOUS
  <2>2. ckpt # NoCheckpoint => CountedIn(k)'
    BY <2>1, CountedInSame
  <2>3. ckpt' = k /\ NoCheckpoint' = NoCheckpoint
    BY <1>1, <2>1 DEF NoCheckpoint
  <2> QED BY <2>1, <2>2, <2>3 DEF CountedIn, ReadyJoin, Written, ExecutableNextNodes
<1>2. CASE \E k : ckpt' = k /\ CountedIn(k)
  <2>1. PICK k : ckpt' = k /\ CountedIn(k)
    BY <1>2
  <2>2. CountedIn(k)'
    BY <2>1, CountedInSame
  <2> QED BY <2>1, <2>2 DEF CountedIn, ReadyJoin, Written, ExecutableNextNodes
<1> QED BY <1>1, <1>2

\* What a task step leaves of the tasks of the other nodes.
LEMMA LeftByTask ==
  ASSUME Typed, Quiet, NEW t \in DOMAIN tasks, DOMAIN tasks' = DOMAIN tasks,
         \A u \in DOMAIN tasks : u # t => (LeftTask(u)' <=> LeftTask(u))
  PROVE  /\ \A n : n # t[1] => Left(n)' = Left(n)
         /\ Left(t[1]) = One(LeftTask(t)) /\ Left(t[1])' = One(LeftTask(t))'
<1>1. \A u \in DOMAIN tasks : u[1] = t[1] => u = t
  BY DEF Typed, TasksOK, TaskOK, Quiet
<1>2. \A n : n # t[1] => Left(n)' = Left(n)
  <2> TAKE n
  <2> HAVE n # t[1]
  <2>1. (\E u \in DOMAIN tasks' : u[1] = n /\ LeftTask(u)') <=> (\E u \in DOMAIN tasks : u[1] = n /\ LeftTask(u))
    OBVIOUS
  <2> QED BY <2>1 DEF Left, One
<1>3. Left(t[1]) = One(LeftTask(t))
  BY <1>1 DEF Left, One
<1>4. Left(t[1])' = One(LeftTask(t))'
  <2>1. (\E u \in DOMAIN tasks' : u[1] = t[1] /\ LeftTask(u)') <=> LeftTask(t)'
    BY <1>1
  <2> QED BY <2>1 DEF Left, One
<1> QED BY <1>2, <1>3, <1>4

\* Nothing can cut a task off after its result, nor two at once.
CutExactly == AsksAlone /\ (\A n \in Nodes : ~MayFail(n)) /\ ~(CanForce /\ NodeBarrier)

LEMMA TaskLeft ==
  ASSUME Typed, Quiet, Stopped, CutEarly, NEW t \in DOMAIN tasks,
         \/ RunTask(t) \/ FinishTask(t) \/ ReleaseTask(t) \/ InterruptTask(t) \/ FailTask(t)
         \/ FailCondition(t) \/ BarrierTimesOut(t) \/ CancelTask(t)
  PROVE  /\ \A n : Left(n)' <= Left(n) /\ Left(n) \in {0, 1} /\ Left(n)' \in {0, 1}
         /\ RunTask(t) => /\ Left(t[1]) = 1 /\ Left(t[1])' = 0
                          /\ \A n : n # t[1] => Left(n)' = Left(n)
         /\ CutExactly /\ ~RunTask(t) => \A n : Left(n)' = Left(n)
<1>1. PICK a \in Nodes : a = t[1] /\ t = <<a, 1>>
  BY DEF Typed, TasksOK, TaskOK, Quiet
<1>2. graph' = graph
  BY DEF RunTask, FinishTask, ReleaseTask, InterruptTask, FailTask, FailCondition, BarrierTimesOut,
         CancelTask, StopTask, UNCHANGED_Exec
<1>3. NoError' = NoError
  BY <1>2, GraphSame
<1>4. PICK st, to : SetTask(t, st, to)
  BY DEF RunTask, ResultState, ResultGoTo, ResultFanOut, FinishTask, ReleaseTask, InterruptTask, FailTask,
         FailCondition, BarrierTimesOut, CancelTask, StopTask
<1>5. /\ DOMAIN tasks' = DOMAIN tasks /\ \A u \in DOMAIN tasks : u # t => tasks'[u] = tasks[u]
      /\ tasks'[t] = [st |-> st, to |-> to]
  BY <1>4 DEF SetTask
<1>6. err' = err \/ err = NoError
  BY DEF RunTask, FinishTask, ReleaseTask, InterruptTask, FailTask, FailCondition, BarrierTimesOut,
         CancelTask, StopTask, FirstError
<1>7. \A u \in DOMAIN tasks : u # t => (LeftTask(u)' <=> LeftTask(u))
  <2>1. CASE err' = err
    BY <1>5, <2>1 DEF LeftTask, ListedAgain
  <2>2. CASE err = NoError
    <3>1. \A u \in DOMAIN tasks : tasks[u].st # "stopped"
      BY <2>2 DEF Stopped
    <3> QED BY <1>5, <3>1 DEF LeftTask
  <2> QED BY <1>6, <2>1, <2>2
<1>8. /\ \A n : n # a => Left(n)' = Left(n)
      /\ Left(a) = One(LeftTask(t)) /\ Left(a)' = One(LeftTask(t))'
  BY <1>1, <1>5, <1>7, LeftByTask
<1>9. \A n : Left(n) \in {0, 1} /\ Left(n)' \in {0, 1}
  BY DEF Left, One
<1>10. SUFFICES /\ LeftTask(t)' => LeftTask(t)
                /\ RunTask(t) => LeftTask(t) /\ ~LeftTask(t)'
                /\ CutExactly /\ ~RunTask(t) => (LeftTask(t)' <=> LeftTask(t))
  BY <1>1, <1>8, <1>9 DEF One
<1>11. RunTask(t) => tasks[t].st = "todo" /\ tasks'[t].st = "wrote"
  BY DEF RunTask, ResultState, ResultGoTo, ResultFanOut, SetTask
<1>12. CASE RunTask(t)
  BY <1>11, <1>12 DEF LeftTask
<1>13. CASE FinishTask(t) \/ ReleaseTask(t)
  <2>1. tasks[t].st \notin {"todo", "stopped"} /\ tasks'[t].st \notin {"todo", "stopped"}
    BY <1>13 DEF FinishTask, ReleaseTask, SetTask
  <2> QED BY <1>11, <2>1 DEF LeftTask
<1>14. ASSUME NEW kind, StopTask(t, kind)
       PROVE  /\ tasks'[t].st = "stopped" /\ ~RunTask(t)
              /\ err' = IF err = NoError THEN [kind |-> kind, node |-> a] ELSE err
  <2>1. tasks'[t].st = "stopped"
    BY <1>14 DEF StopTask, SetTask
  <2> QED BY <1>1, <1>11, <1>14, <2>1 DEF StopTask, FirstError
<1>15. err # NoError => err.kind \in {"interrupt", "error", "canceled"} /\ err.node \in Nodes
  BY DEF Stopped, Typed, TasksOK
<1>16. err.kind = "interrupt" => MayAsk(err.node) /\ (tasks[t].st # "stopped" => err.node # a)
  BY <1>1 DEF Stopped
<1>17. CutExactly => err.kind # "error" /\ \A n \in Nodes : ~MayFail(n)
  BY <1>15 DEF CutExactly, Stopped, NoError
<1>18. CASE InterruptTask(t)
  <2>1. tasks[t].st = "todo" /\ StopTask(t, "interrupt") /\ MayAsk(a)
    BY <1>1, <1>18 DEF InterruptTask, MayAsk
  <2>2. /\ tasks'[t].st = "stopped" /\ ~RunTask(t)
        /\ err' = IF err = NoError THEN [kind |-> "interrupt", node |-> a] ELSE err
    BY <1>14, <2>1
  <2>3. ASSUME CutExactly PROVE ListedAgain(a)'
    <3>1. CASE err = NoError
      BY <2>2, <3>1 DEF ListedAgain
    <3>2. CASE err # NoError
      <4>1. ~CanForce /\ err.kind # "canceled"
        BY <2>1, <2>3 DEF CutExactly, AsksAlone, Stopped
      <4>2. err.kind = "interrupt"
        BY <1>15, <1>17, <2>3, <3>2, <4>1
      <4>3. MayAsk(err.node) /\ err.node # a
        BY <1>16, <2>1, <4>2
      <4> QED BY <1>15, <2>1, <2>3, <3>2, <4>3 DEF CutExactly, AsksAlone
    <3> QED BY <3>1, <3>2
  <2> QED BY <1>1, <2>1, <2>2, <2>3 DEF LeftTask
<1>19. CASE FailTask(t) \/ FailCondition(t) \/ BarrierTimesOut(t)
  <2>1. /\ MayFail(a) /\ StopTask(t, "error")
        /\ tasks[t].st = "todo" \/ (tasks[t].st \in {"wrote", "waiting"})
    BY <1>1, <1>19 DEF FailTask, FailCondition, BarrierTimesOut, MayFail
  <2>2. /\ tasks'[t].st = "stopped" /\ ~RunTask(t) /\ ~CutExactly
        /\ err' = IF err = NoError THEN [kind |-> "error", node |-> a] ELSE err
    BY <1>14, <1>17, <2>1
  <2>3. tasks[t].st # "todo" => ~ListedAgain(a)'
    <3>1. ~CanForce /\ err.kind # "canceled"
      BY <2>1 DEF CutEarly, Stopped
    <3>2. err.kind = "interrupt" => err.node # a
      BY <1>16, <2>1
    <3> QED BY <2>2, <3>1, <3>2 DEF ListedAgain
  <2> QED BY <1>1, <2>1, <2>2, <2>3 DEF LeftTask
<1>20. CASE CancelTask(t)
  <2>1. /\ ext = "forced" /\ tasks[t].st \in {"todo", "waiting"} /\ StopTask(t, "canceled") /\ CanForce
    BY <1>20 DEF CancelTask, Stopped
  <2>2. tasks[t].st = "todo"
    BY <2>1 DEF Stopped, CutEarly
  <2>3. /\ tasks'[t].st = "stopped" /\ ~RunTask(t)
        /\ err' = IF err = NoError THEN [kind |-> "canceled", node |-> a] ELSE err
    BY <1>14, <2>1
  <2>4. ASSUME CutExactly PROVE ListedAgain(a)'
    <3>1. CASE err = NoError
      BY <2>3, <3>1 DEF ListedAgain
    <3>2. CASE err # NoError
      <4>1. err.kind # "interrupt"
        BY <1>15, <1>16, <2>1, <2>4, <3>2 DEF CutExactly, AsksAlone
      <4> QED BY <1>15, <1>17, <2>3, <2>4, <3>2, <4>1 DEF ListedAgain
    <3> QED BY <3>1, <3>2
  <2> QED BY <1>1, <2>2, <2>3, <2>4 DEF LeftTask
<1> QED BY <1>12, <1>13, <1>18, <1>19, <1>20

LEMMA JoinedInit == Init => Joined
<1> SUFFICES ASSUME Init PROVE Counted /\ ckpt = NoCheckpoint
  BY DEF Joined
<1>1. /\ chan = [c \in Channels |-> EmptyChannel] /\ pendW = EmptyBag /\ ran = [n \in Nodes |-> 0]
      /\ nextN = EmptyBag /\ tasks = NoTasks /\ ckpt = NoCheckpoint /\ graph \in Graphs
  BY DEF Init
<1>2. DOMAIN tasks = {} /\ (\A n : CopiesOf(n, nextN) = 0) /\ \A c : ~Written(pendW, c)
  BY <1>1, EmptyBagParts DEF NoTasks, Written
<1>3. ASSUME NEW n \in Nodes, NEW m \in JoinFrom[n]
      PROVE  ran[n] + Left(n) + CopiesOf(n, nextN) + One(m \in chan[<<"join", n>>].seen) <= ran[m]
  <2>1. m \in Nodes /\ <<"join", n>> \in Channels
    BY <1>1, GraphTyped DEF Channels
  <2>2. Left(n) = 0 /\ One(m \in chan[<<"join", n>>].seen) = 0 /\ ran[n] = 0 /\ ran[m] = 0
    BY <1>1, <1>2, <2>1 DEF Left, One, EmptyChannel
  <2> QED BY <1>2, <2>2
<1> QED BY <1>1, <1>2, <1>3 DEF Counted, EmptyChannel

\* An execution that begins.
LEMMA BlankCounted ==
  ASSUME Typed, graph' = graph, CleanStep, nextN' = EmptyBag, pendW' = EmptyBag,
         chan' = [c \in Channels |-> EmptyChannel], ran' = [n \in Nodes |-> 0]
  PROVE  Counted'
<1>1. Nodes' = Nodes /\ Channels' = Channels /\ JoinFrom' = JoinFrom /\ tasks' = NoTasks
  BY GraphSame DEF CleanStep
<1>2. DOMAIN tasks' = {} /\ (\A n : CopiesOf(n, nextN') = 0) /\ \A c : ~Written(pendW', c)
  BY <1>1, EmptyBagParts DEF NoTasks, Written
<1>3. ASSUME NEW n \in Nodes, NEW m \in JoinFrom[n]
      PROVE  ran'[n] + Left(n)' + CopiesOf(n, nextN') + One(m \in chan'[<<"join", n>>].seen) <= ran'[m]
  <2>1. m \in Nodes /\ <<"join", n>> \in Channels
    BY JoinParts
  <2>2. Left(n)' = 0 /\ One(m \in chan'[<<"join", n>>].seen) = 0 /\ ran'[n] = 0 /\ ran'[m] = 0
    BY <1>2, <2>1 DEF Left, One, EmptyChannel
  <2> QED BY <1>2, <2>2
<1> QED BY <1>1, <1>2, <1>3 DEF Counted, EmptyChannel

LEMMA ResumeJoined ==
  ASSUME Typed, Typed', Steady, NoFanOut, Clean', CountedIn(ckpt), Resume
  PROVE  Counted'
<1>1. /\ ckpt # NoCheckpoint /\ CleanStep
      /\ chan' = [c \in Channels |-> Replayed(ckpt, c)] /\ pendW' = ckpt.writes /\ ran' = ckpt.ran
      /\ nextN' = ExecutableNextNodes(ckpt) /\ fresh' /\ UNCHANGED <<graph, known, ckpt>>
  BY DEF Resume, envVars
<1>2. Nodes' = Nodes /\ Channels' = Channels /\ JoinFrom' = JoinFrom
  BY <1>1, GraphSame
<1>3. CheckpointOK(ckpt) /\ FaithfulTo(ckpt) /\ ~Stale(ckpt) /\ ~ReadyJoin(ckpt)
  BY <1>1, CleanCheckpoint
<1>4. \A c \in Channels : chan'[c].seen = ckpt.seen[c] /\ (chan'[c].avail => Written(ckpt.writes, c))
  <2> TAKE c \in Channels
  <2>1. chan'[c] = Replayed(ckpt, c)
    BY <1>1
  <2> QED BY <1>3, <2>1, ReplayedParts
<1>5. ASSUME NEW n \in Nodes, NEW m \in JoinFrom[n]
      PROVE  ran'[n] + Left(n)' + CopiesOf(n, nextN') + One(m \in chan'[<<"join", n>>].seen) <= ran'[m]
  <2>1. DOMAIN tasks' = {} /\ Left(n)' = 0
    BY <1>1 DEF CleanStep, NoTasks, Left, One
  <2>2. ckpt.ran[n] + CopiesOf(n, ExecutableNextNodes(ckpt)) + One(m \in ckpt.seen[<<"join", n>>]) <= ckpt.ran[m]
    BY <1>3 DEF CountedIn
  <2>3. chan'[<<"join", n>>].seen = ckpt.seen[<<"join", n>>]
    BY <1>4, JoinParts
  <2>4. ckpt.ran[n] \in Nat
    BY <1>3 DEF CheckpointOK
  <2> QED BY <1>1, <2>1, <2>2, <2>3, <2>4
<1> QED BY <1>1, <1>2, <1>4, <1>5 DEF Counted, CountedIn

\* A checkpoint that lists no join but one that is left to run.
LEMMA SnapCounted ==
  ASSUME Typed, Counted, NEW k, k.ran = ran, k.seen = [c \in Channels |-> chan[c].seen],
         k.writes = EmptyBag \/ k.writes = pendW,
         ~ReadyJoin(k) => \A n \in Nodes : JoinFrom[n] # {} =>
           CopiesOf(n, ExecutableNextNodes(k)) \in Nat /\ CopiesOf(n, ExecutableNextNodes(k)) <= Left(n)
  PROVE  CountedIn(k)
<1>1. ASSUME ~ReadyJoin(k), NEW n \in Nodes, NEW m \in JoinFrom[n]
      PROVE  k.ran[n] + CopiesOf(n, ExecutableNextNodes(k)) + One(m \in k.seen[<<"join", n>>]) <= k.ran[m]
  <2>1. ran[n] + Left(n) + CopiesOf(n, nextN) + One(m \in chan[<<"join", n>>].seen) <= ran[m]
    BY DEF Counted
  <2>2. k.seen[<<"join", n>>] = chan[<<"join", n>>].seen
    BY JoinParts
  <2>3. Left(n) \in {0, 1} /\ One(m \in chan[<<"join", n>>].seen) \in {0, 1}
    BY OneTyped DEF Left
  <2>4. CopiesOf(n, ExecutableNextNodes(k)) \in Nat /\ CopiesOf(n, ExecutableNextNodes(k)) <= Left(n)
    BY <1>1
  <2> QED BY <2>1, <2>2, <2>3, <2>4, JoinParts
<1>2. \A c : Written(k.writes, c) => Written(pendW, c)
  BY EmptyBagParts DEF Written
<1> QED BY <1>1, <1>2 DEF CountedIn, Counted

\* A join that the checkpoint of an interrupt does not hold complete is not a next node.
LEMMA JoinNotNext ==
  ASSUME Typed, Counted, NEW k, k.seen = [c \in Channels |-> chan[c].seen], k.writes = EmptyBag, ~ReadyJoin(k),
         NEW n \in Nodes, JoinFrom[n] # {}
  PROVE  n \notin GetNextNodes
<1> SUFFICES ASSUME n \in GetNextNodes PROVE FALSE
  OBVIOUS
<1>1. PICK c \in Available \cap known : Target(c) = n
  BY DEF GetNextNodes
<1>2. c \in Channels /\ chan[c].avail
  BY DEF Available
<1>3. IsJoin(c)
  BY <1>1, <1>2 DEF Counted
<1>4. chan[c].seen # {} /\ Satisfied(c, chan[c].seen)
  BY <1>2, <1>3 DEF Typed, ChanOK, ChannelsOK, Settled
<1> QED BY <1>2, <1>3, <1>4 DEF ReadyJoin

LEMMA PauseCounted ==
  ASSUME Typed, Counted, NEW stp, NEW next, NEW node, NEW sk, NEW k, k = Snapshot(stp, next, EmptyBag, node, sk),
         ~ReadyJoin(k) => \A n \in Nodes : JoinFrom[n] # {} =>
           CopiesOf(n, next) \in Nat /\ CopiesOf(n, next) <= Left(n)
  PROVE  CountedIn(k)
<1>1. /\ k.ran = ran /\ k.seen = [c \in Channels |-> chan[c].seen] /\ k.writes = EmptyBag /\ k.next = next
  BY DEF Snapshot
<1>2. ExecutableNextNodes(k) = next
  BY <1>1 DEF ExecutableNextNodes
<1> QED BY <1>1, <1>2, SnapCounted

\* The runs of joins when a task writes: noted once for each sender.
LEMMA WriteCounted ==
  ASSUME Typed, Counted, graph' = graph, nextN' = nextN,
         NEW a \in Nodes, NEW cs \in SUBSET Channels,
         chan' = WriteAll(cs, a), pendW' = PendingAll(cs, a),
         \A c \in cs : ~IsJoin(c) => JoinFrom[Target(c)] = {},
         \A n : Left(n)' <= Left(n) /\ Left(n) \in {0, 1} /\ Left(n)' \in {0, 1},
         \/ ran' = [ran EXCEPT ![a] = ran[a] + 1] /\ Left(a) = 1 /\ Left(a)' = 0
         \/ ran' = ran /\ \A c \in cs : ~IsJoin(c)
  PROVE  Counted'
<1>1. Nodes' = Nodes /\ Channels' = Channels /\ JoinFrom' = JoinFrom
  BY GraphSame
<1>2. /\ \A c \in Channels : /\ c \notin cs => chan'[c] = chan[c]
                             /\ c \in cs /\ IsJoin(c) => chan'[c].seen = chan[c].seen \cup {a}
      /\ \A c : Written(pendW', c) <=> Written(pendW, c) \/ c \in cs
  BY WriteParts
<1>3. ASSUME NEW n \in Nodes, NEW m \in JoinFrom[n]
      PROVE  ran'[n] + Left(n)' + CopiesOf(n, nextN') + One(m \in chan'[<<"join", n>>].seen) <= ran'[m]
  <2>1. PICK j \in Channels : j = <<"join", n>> /\ IsJoin(j)
    BY JoinParts
  <2>2. PICK in \in {0, 1} : in = One(m \in chan[j].seen)
    BY OneTyped
  <2>3. PICK inp \in {0, 1} : inp = One(m \in chan'[j].seen)
    BY OneTyped
  <2>4. ran[n] + Left(n) + CopiesOf(n, nextN) + in <= ran[m]
    BY <2>1, <2>2 DEF Counted
  <2>5. m \in Nodes /\ ran[n] \in Nat /\ ran[m] \in Nat /\ CopiesOf(n, nextN) \in Nat
    BY JoinParts
  <2>6. Left(n) \in {0, 1} /\ Left(n)' \in {0, 1} /\ Left(n)' <= Left(n)
    OBVIOUS
  <2>7. /\ m # a => inp = in
        /\ j \notin cs => inp = in
    <3>1. \/ chan'[j] = chan[j]
          \/ j \in cs /\ chan'[j].seen = chan[j].seen \cup {a}
      BY <1>2, <2>1
    <3>2. m # a => (m \in chan'[j].seen <=> m \in chan[j].seen)
      BY <3>1
    <3>3. j \notin cs => (m \in chan'[j].seen <=> m \in chan[j].seen)
      BY <3>1
    <3> QED BY <2>2, <2>3, <3>2, <3>3 DEF One
  <2>8. CASE ran' = [ran EXCEPT ![a] = ran[a] + 1] /\ Left(a) = 1 /\ Left(a)' = 0
    <3>1. /\ ran'[n] = IF n = a THEN ran[n] + 1 ELSE ran[n]
          /\ ran'[m] = IF m = a THEN ran[m] + 1 ELSE ran[m]
      BY <2>5, <2>8 DEF Typed, StateOK
    <3>2. n = a => Left(n) = 1 /\ Left(n)' = 0
      BY <2>8
    <3>3. ran'[n] + Left(n)' + CopiesOf(n, nextN) + inp <= ran'[m]
      BY <2>4, <2>5, <2>6, <2>7, <3>1, <3>2
    <3> QED BY <2>1, <2>3, <3>3
  <2>9. CASE ran' = ran /\ \A c \in cs : ~IsJoin(c)
    <3>1. inp = in
      BY <2>1, <2>7, <2>9
    <3>2. ran[n] + Left(n)' + CopiesOf(n, nextN) + inp <= ran[m]
      BY <2>4, <2>5, <2>6, <3>1
    <3> QED BY <2>1, <2>3, <2>9, <3>2
  <2> QED BY <2>8, <2>9
<1>4. ASSUME NEW c \in Channels, ~IsJoin(c), chan'[c].avail \/ Written(pendW', c)
      PROVE  JoinFrom[Target(c)] = {}
  <2>1. CASE c \in cs
    BY <1>4, <2>1
  <2>2. CASE c \notin cs
    <3>1. chan[c].avail \/ Written(pendW, c)
      BY <1>2, <1>4, <2>2
    <3> QED BY <1>4, <3>1 DEF Counted
  <2> QED BY <2>1, <2>2
<1> QED BY <1>1, <1>3, <1>4 DEF Counted

\* The steps of a task.
LEMMA TaskCounted ==
  ASSUME Typed, Steady, NoFanOut, OnlyJoined, CutEarly, Counted, NEW t \in DOMAIN tasks,
         \/ RunTask(t) \/ FinishTask(t) \/ ReleaseTask(t) \/ InterruptTask(t) \/ FailTask(t)
         \/ FailCondition(t) \/ BarrierTimesOut(t) \/ CancelTask(t)
  PROVE  Counted'
<1>1. Quiet /\ Stopped
  BY DEF Steady
<1>2. PICK a \in Nodes : a = t[1]
  BY DEF Typed, TasksOK, TaskOK
<1>3. graph' = graph /\ nextN' = nextN
  BY DEF RunTask, FinishTask, ReleaseTask, InterruptTask, FailTask, FailCondition, BarrierTimesOut,
         CancelTask, StopTask, UNCHANGED_Exec
<1>4. /\ \A n : Left(n)' <= Left(n) /\ Left(n) \in {0, 1} /\ Left(n)' \in {0, 1}
      /\ RunTask(t) => Left(a) = 1 /\ Left(a)' = 0
  BY <1>1, <1>2, TaskLeft
<1>5. \A x \in Nodes : \A o \in Outcomes[x] : o.to \subseteq Nodes
  BY GraphTyped DEF Typed, GraphOK, OutcomeType
<1>6. CASE RunTask(t)
  <2>1. PICK o \in Outcomes[a] : ResultState(t, o) \/ ResultGoTo(t, o)
    BY <1>2, <1>6 DEF RunTask, ResultFanOut, NoFanOut
  <2>2. PICK cs : /\ chan' = WriteAll(cs, a) /\ pendW' = PendingAll(cs, a)
                  /\ cs = Writers(a) \/ cs = {<<"trigger", m>> : m \in o.to}
    BY <1>2, <2>1 DEF ResultState, ResultGoTo
  <2>3. cs \subseteq Channels
    <3>1. Writers(a) \subseteq Channels
      BY WritersParts, GraphTyped DEF Typed, GraphOK
    <3>2. {<<"trigger", m>> : m \in o.to} \subseteq Channels
      BY <1>5 DEF Channels
    <3> QED BY <2>2, <3>1, <3>2
  <2>4. \A c \in cs : ~IsJoin(c) => JoinFrom[Target(c)] = {}
    <3>1. \A m \in o.to : JoinFrom[m] = {}
      BY <1>5 DEF OnlyJoined
    <3>2. \A c \in {<<"trigger", m>> : m \in o.to} : JoinFrom[Target(c)] = {}
      BY <3>1 DEF Target
    <3> QED BY <2>2, <3>2, WritersParts
  <2>5. ran' = [ran EXCEPT ![a] = ran[a] + 1]
    BY <1>2, <1>6 DEF RunTask
  <2> QED BY <1>3, <1>4, <1>6, <2>2, <2>3, <2>4, <2>5, WriteCounted
<1>7. CASE FinishTask(t)
  <2>1. PICK cs : cs = {<<"branch", m>> : m \in tasks[t].to}
    OBVIOUS
  <2>2. chan' = WriteAll(cs, a) /\ pendW' = PendingAll(cs, a) /\ ran' = ran
    BY <1>2, <1>7, <2>1 DEF FinishTask
  <2>3. \A m \in tasks[t].to : m \in Nodes /\ JoinFrom[m] = {}
    <3> TAKE m \in tasks[t].to
    <3>1. PICK o \in Outcomes[a] : m \in o.to
      BY <1>1, <1>2 DEF Quiet
    <3> QED BY <1>5, <3>1 DEF OnlyJoined
  <2>4. cs \subseteq Channels /\ \A c \in cs : ~IsJoin(c) /\ JoinFrom[Target(c)] = {}
    BY <2>1, <2>3 DEF Channels, IsJoin, Target
  <2> QED BY <1>3, <1>4, <2>2, <2>4, WriteCounted
<1>8. CASE ~RunTask(t) /\ ~FinishTask(t)
  <2>1. UNCHANGED <<chan, ran, pendW>>
    BY <1>8 DEF ReleaseTask, InterruptTask, FailTask, FailCondition, BarrierTimesOut, CancelTask, StopTask,
                chanVars
  <2> QED BY <1>3, <1>4, <2>1, CountedSame
<1> QED BY <1>6, <1>7, <1>8

\* An interrupt lists what is left of the step and the nodes that are triggered.
LEMMA PauseLists ==
  ASSUME Typed, Steady, NoFanOut,
         \/ ExternalInterruptBeforeStep \/ StaticInterruptBeforeStep \/ InternalInterrupt \/ ForcedInterrupt
         \/ StaticInterruptAfterStep
  PROVE  /\ pc \in {"start", "exec"}
         /\ \E stp, next, node, sk :
              /\ HandleInterrupt(stp, next, node, sk) /\ (pc = "exec" => stp = step)
              /\ \A n \in Nodes : CopiesOf(n, next) = One(Left(n) = 1 \/ n \in GetNextNodes)
<1>1. Quiet /\ Stopped /\ Drained /\ Matched
  BY DEF Steady
<1>2. IsFiniteSet(DOMAIN tasks) /\ Unfinished \in SUBSET DOMAIN tasks /\ IsFiniteSet(Unfinished)
  <2>1. Unfinished \in SUBSET DOMAIN tasks /\ IsFiniteSet(DOMAIN tasks)
    BY DEF Unfinished, Typed, TasksOK
  <2> QED BY <2>1, FS_Subset
<1>3. \A S \in SUBSET DOMAIN tasks, n \in Nodes :
        IsFiniteSet(S) => CopiesOf(n, BagOfTasks(S)) = One(n \in NodesOf(S)) /\ IsABag(BagOfTasks(S))
  <2> TAKE S \in SUBSET DOMAIN tasks, n \in Nodes
  <2> HAVE IsFiniteSet(S)
  <2>1. CopiesOf(n, BagOfTasks(S)) = Cardinality({t \in S : t[1] = n}) /\ IsABag(BagOfTasks(S))
    BY TaskBag
  <2>2. Cardinality({t \in S : t[1] = n}) = IF n \in NodesOf(S) THEN 1 ELSE 0
    BY <1>1, OneTask
  <2> QED BY <2>1, <2>2 DEF One
<1>4. ASSUME pc = "start"
      PROVE  \A n \in Nodes : Left(n) = One(n \in NodesOf(DOMAIN tasks)) /\ n \notin GetNextNodes
  <2>1. Available = {} /\ \A t \in DOMAIN tasks : LeftTask(t)
    BY <1>1, <1>4 DEF Quiet, Drained, LeftTask
  <2> QED BY <2>1 DEF Left, NodesOf, One, GetNextNodes
<1>5. ASSUME StepOver
      PROVE  \A n \in Nodes : Left(n) = One(\E t \in Unfinished : t[1] = n /\ ListedAgain(n))
  <2> TAKE n \in Nodes
  <2>1. ASSUME NEW t \in DOMAIN tasks, t[1] = n
        PROVE  LeftTask(t) <=> t \in Unfinished /\ ListedAgain(n)
    BY <1>5, <2>1 DEF LeftTask, Unfinished, StepOver
  <2> QED BY <2>1 DEF Left, Unfinished, One
<1>6. CASE ExternalInterruptBeforeStep
  <2>1. PICK next : next = BagOfTasks(DOMAIN tasks)
    OBVIOUS
  <2>2. pc = "start" /\ HandleInterrupt(step - 1, next, "none", skips)
    BY <1>6, <2>1 DEF ExternalInterruptBeforeStep
  <2>3. \A n \in Nodes : CopiesOf(n, next) = One(n \in NodesOf(DOMAIN tasks))
    BY <1>2, <1>3, <2>1
  <2> QED BY <1>4, <2>2, <2>3 DEF One
<1>7. CASE StaticInterruptBeforeStep
  <2>1. PICK next : next = SetToBag(NodesOf(DOMAIN tasks))
    OBVIOUS
  <2>2. pc = "start" /\ HandleInterrupt(step, next, "none", skips \cup Hits)
    BY <1>7, <2>1 DEF StaticInterruptBeforeStep
  <2>3. \A n \in Nodes : CopiesOf(n, next) = One(n \in NodesOf(DOMAIN tasks))
    BY <2>1, SetBag DEF One
  <2> QED BY <1>4, <2>2, <2>3 DEF One
<1>8. CASE InternalInterrupt
  <2>1. PICK next : next = SetToBag(WithNode(GetNextNodes, err.node))
    OBVIOUS
  <2>2. pc = "exec" /\ StepOver /\ err.kind = "interrupt" /\ HandleInterrupt(step, next, err.node, skips)
    BY <1>8, <2>1 DEF InternalInterrupt, StepOver
  <2>3. <<err.node, 1>> \in Unfinished /\ <<err.node, 1>>[1] = err.node
    BY <1>1, <2>2 DEF Stopped, Unfinished
  <2>4. \A n \in Nodes : Left(n) = One(n = err.node)
    BY <1>5, <2>2, <2>3 DEF ListedAgain, One
  <2>5. \A n \in Nodes : CopiesOf(n, next) = One(n \in GetNextNodes \/ n = err.node)
    BY <2>1, SetBag DEF WithNode, One
  <2> QED BY <2>2, <2>4, <2>5 DEF One
<1>9. CASE ForcedInterrupt
  <2>1. PICK a, b : a = BagOfTasks(TasksToRerun) /\ b = SetToBag(GetNextNodes \ NodesOf(TasksToRerun))
    OBVIOUS
  <2>2. PICK next : next = a (+) b
    OBVIOUS
  <2>3. pc = "exec" /\ StepOver /\ err.kind = "canceled" /\ HandleInterrupt(step, next, "none", skips)
    BY <1>9, <2>1, <2>2 DEF ForcedInterrupt, StepOver
  <2>4. \A n \in Nodes : Left(n) = One(n \in NodesOf(Unfinished))
    BY <1>5, <2>3 DEF ListedAgain, NodesOf, One
  <2>5. ASSUME NEW n \in Nodes
        PROVE  CopiesOf(n, next) = One(n \in NodesOf(Unfinished) \/ n \in GetNextNodes)
    <3>1. IsABag(a) /\ IsABag(b) /\ CopiesOf(n, a) = One(n \in NodesOf(Unfinished))
      BY <1>2, <1>3, <2>1, SetBag DEF TasksToRerun
    <3>2. CopiesOf(n, b) = One(n \in GetNextNodes \ NodesOf(Unfinished))
      BY <2>1, SetBag DEF One, TasksToRerun
    <3>3. CopiesOf(n, next) = CopiesOf(n, a) + CopiesOf(n, b)
      BY <2>2, <3>1, SumCopies
    <3> QED BY <3>1, <3>2, <3>3 DEF One
  <2> QED BY <2>3, <2>4, <2>5 DEF One
<1>10. CASE StaticInterruptAfterStep
  <2>1. PICK next : next = SetToBag(GetNextNodes)
    OBVIOUS
  <2>2. pc = "exec" /\ StepOver /\ err = NoError /\ HandleInterrupt(step, next, "none", skips)
    BY <1>10, <2>1 DEF StaticInterruptAfterStep, StepOver
  <2>3. \A n \in Nodes : Left(n) = 0
    BY <1>1, <1>5, <2>2, NothingStopped DEF One
  <2>4. \A n \in Nodes : CopiesOf(n, next) = One(n \in GetNextNodes)
    BY <2>1, SetBag DEF One
  <2> QED BY <2>2, <2>3, <2>4 DEF One
<1> QED BY <1>6, <1>7, <1>8, <1>9, <1>10

\* A step that leaves the execution alone.
LEMMA LeftSame ==
  ASSUME UNCHANGED <<graph, tasks, err>>
  PROVE  \A n : Left(n)' = Left(n) /\ Left(n) \in {0, 1}
<1>1. \A t \in DOMAIN tasks : LeftTask(t)' <=> LeftTask(t)
  BY DEF LeftTask, ListedAgain
<1>2. \A n : (\E t \in DOMAIN tasks' : t[1] = n /\ LeftTask(t)') <=> (\E t \in DOMAIN tasks : t[1] = n /\ LeftTask(t))
  BY <1>1
<1> QED BY <1>2 DEF Left, One

LEMMA PauseJoined ==
  ASSUME Typed, Steady, NoFanOut, Counted, ckpt # NoCheckpoint => CountedIn(ckpt),
         \/ ExternalInterruptBeforeStep \/ StaticInterruptBeforeStep \/ InternalInterrupt \/ ForcedInterrupt
         \/ StaticInterruptAfterStep
  PROVE  Counted' /\ (ckpt' # NoCheckpoint => CountedIn(ckpt)')
<1>1. PICK stp, next, node, sk : /\ HandleInterrupt(stp, next, node, sk)
                                 /\ \A n \in Nodes : CopiesOf(n, next) = One(Left(n) = 1 \/ n \in GetNextNodes)
  BY PauseLists
<1>2. PICK k : k = Snapshot(stp, next, EmptyBag, node, sk)
  OBVIOUS
<1>3. UNCHANGED <<graph, chan, ran, nextN, pendW, tasks, err>> /\ Save(k)
  BY <1>1, <1>2 DEF HandleInterrupt, graphVars, chanVars, taskVars
<1>4. Counted'
  BY <1>3, LeftSame, CountedSame
<1>5. ASSUME ~ReadyJoin(k), NEW n \in Nodes, JoinFrom[n] # {}
      PROVE  CopiesOf(n, next) \in Nat /\ CopiesOf(n, next) <= Left(n)
  <2>1. k.seen = [c \in Channels |-> chan[c].seen] /\ k.writes = EmptyBag
    BY <1>2 DEF Snapshot
  <2>2. n \notin GetNextNodes
    BY <1>5, <2>1, JoinNotNext
  <2> QED BY <1>1, <1>3, <2>2, LeftSame DEF One
<1>6. CountedIn(k)
  BY <1>2, <1>5, PauseCounted
<1> QED BY <1>3, <1>4, <1>6, SaveCounted DEF Save

LEMMA InputJoined ==
  ASSUME Typed, Steady, NoFanOut, OnlyJoined, Counted, ckpt # NoCheckpoint => CountedIn(ckpt), InputCheckpoint
  PROVE  Counted' /\ (ckpt' # NoCheckpoint => CountedIn(ckpt)')
<1>1. PICK k : k = [Snapshot(-1, SetToBag({Entry}), EmptyBag, "none", skips)
                      EXCEPT !.owed = [n \in Nodes |-> IF n = Entry THEN 1 ELSE 0]]
  OBVIOUS
<1>2. SaveInRun(k) /\ UNCHANGED <<graph, chan, ran, nextN, pendW, tasks, err>>
  BY <1>1 DEF InputCheckpoint, graphVars, stateVars, chanVars, taskVars
<1>3. Counted'
  BY <1>2, LeftSame, CountedSame
<1>4. /\ k.ran = ran /\ k.seen = [c \in Channels |-> chan[c].seen] /\ k.writes = EmptyBag
      /\ k.next = SetToBag({Entry})
  BY <1>1 DEF Snapshot
<1>5. ASSUME NEW n \in Nodes, JoinFrom[n] # {}
      PROVE  /\ CopiesOf(n, ExecutableNextNodes(k)) \in Nat
             /\ CopiesOf(n, ExecutableNextNodes(k)) <= Left(n)
  <2>1. CopiesOf(n, ExecutableNextNodes(k)) = IF n \in {Entry} THEN 1 ELSE 0
    BY <1>4, SetBag DEF ExecutableNextNodes
  <2>2. n # Entry
    BY <1>5 DEF OnlyJoined
  <2> QED BY <1>2, <2>1, <2>2, LeftSame
<1>6. CountedIn(k)
  BY <1>4, <1>5, SnapCounted
<1> QED BY <1>2, <1>3, <1>6, SaveCounted DEF SaveInRun, Save

LEMMA LoopJoined ==
  ASSUME Typed, Steady, NoFanOut, Counted, ckpt # NoCheckpoint => CountedIn(ckpt), LoopCheckpoint
  PROVE  Counted' /\ (ckpt' # NoCheckpoint => CountedIn(ckpt)')
<1>1. PICK k : k = Snapshot(step, SetToBag(GetNextNodes), pendW, "none", skips)
  OBVIOUS
<1>2. /\ SaveInRun(k) /\ pendW' = EmptyBag /\ tasks' = NoTasks
      /\ UNCHANGED <<graph, chan, ran, nextN, err>>
  BY <1>1 DEF LoopCheckpoint, graphVars, stateVars
<1>3. \A n : Left(n)' = 0 /\ Left(n) \in {0, 1}
  <2>1. DOMAIN tasks' = {}
    BY <1>2 DEF NoTasks
  <2> QED BY <2>1 DEF Left, One
<1>4. Counted'
  BY <1>2, <1>3, CountedSame
<1>5. /\ k.ran = ran /\ k.seen = [c \in Channels |-> chan[c].seen] /\ k.writes = pendW
      /\ k.next = SetToBag(GetNextNodes)
  BY <1>1 DEF Snapshot
<1>6. ASSUME ~ReadyJoin(k), NEW n \in Nodes, JoinFrom[n] # {}
      PROVE  /\ CopiesOf(n, ExecutableNextNodes(k)) \in Nat
             /\ CopiesOf(n, ExecutableNextNodes(k)) <= Left(n)
  <2>1. CASE k.writes = EmptyBag
    <3>1. n \notin GetNextNodes
      BY <1>5, <1>6, <2>1, JoinNotNext
    <3>2. CopiesOf(n, ExecutableNextNodes(k)) = 0
      BY <1>5, <2>1, <3>1, SetBag DEF ExecutableNextNodes
    <3> QED BY <1>3, <3>2
  <2>2. CASE k.writes # EmptyBag
    <3>1. CopiesOf(n, ExecutableNextNodes(k)) = 0
      BY <2>2, EmptyBagParts DEF ExecutableNextNodes
    <3> QED BY <1>3, <3>1
  <2> QED BY <2>1, <2>2
<1>7. CountedIn(k)
  BY <1>5, <1>6, SnapCounted
<1> QED BY <1>2, <1>4, <1>7, SaveCounted DEF SaveInRun, Save

\* What is planned is left to run, and was listed or is a join that is complete.
LEMMA PlanLeft ==
  ASSUME Typed, Quiet, Drained, Plan
  PROVE  /\ \A n \in Nodes : /\ Left(n) = 0
                             /\ Left(n)' = One(\/ PlanTriggered /\ n \in Triggered
                                               \/ PlanEntry /\ n = Entry
                                               \/ PlanNextNodes /\ CopiesOf(n, nextN) = 1)
                             /\ CopiesOf(n, nextN') = 0
         /\ UNCHANGED <<graph, ran, pendW, known, step, err>>
<1>1. /\ pc = "plan" /\ UNCHANGED <<graph, ran, pendW, known, step, err>>
  BY DEF Plan, graphVars
<1>2. /\ nextN' = EmptyBag
      /\ \A t \in DOMAIN tasks' : tasks'[t].st = "todo"
      /\ \A n \in Nodes :
              (\E t \in DOMAIN tasks' : t[1] = n) <=> \/ PlanTriggered /\ n \in Triggered
                                                      \/ PlanEntry /\ n = Entry
                                                      \/ PlanNextNodes /\ CopiesOf(n, nextN) = 1
  BY PlanParts
<1>3. ASSUME NEW n \in Nodes
      PROVE  Left(n) = 0 /\ CopiesOf(n, nextN') = 0
  <2>1. DOMAIN tasks = {}
    BY <1>1 DEF Quiet, NoTasks
  <2> QED BY <1>2, <2>1, EmptyBagParts DEF Left, One
<1>4. \A n \in Nodes : Left(n)' = One(\E t \in DOMAIN tasks' : t[1] = n)
  BY <1>2 DEF Left, LeftTask, One
<1> QED BY <1>1, <1>2, <1>3, <1>4 DEF One

LEMMA PlanJoined ==
  ASSUME Typed, Steady, NoFanOut, OnlyJoined, Counted, Plan
  PROVE  Counted'
<1>1. Quiet /\ Drained
  BY DEF Steady
<1>2. /\ \A n \in Nodes : /\ Left(n) = 0
                          /\ Left(n)' = One(\/ PlanTriggered /\ n \in Triggered
                                            \/ PlanEntry /\ n = Entry
                                            \/ PlanNextNodes /\ CopiesOf(n, nextN) = 1)
                          /\ CopiesOf(n, nextN') = 0
      /\ graph' = graph /\ ran' = ran /\ pendW' = pendW
  BY <1>1, PlanLeft
<1>3. /\ \A c \in Channels : /\ chan'[c].seen = chan[c].seen \/ chan'[c].seen = {}
                             /\ chan'[c].avail => chan[c].avail
                             /\ PlanTriggered /\ chan[c].avail => chan'[c].seen = {}
      /\ PlanTriggered => nextN = EmptyBag /\ step # 0
      /\ PlanEntry => nextN = EmptyBag /\ step = 0
      /\ PlanNextNodes => nextN # EmptyBag
  BY <1>1, PlanParts
<1>4. Nodes' = Nodes /\ Channels' = Channels /\ JoinFrom' = JoinFrom
  BY <1>2, GraphSame
<1>5. ASSUME NEW n \in Nodes, NEW m \in JoinFrom[n]
      PROVE  ran'[n] + Left(n)' + CopiesOf(n, nextN') + One(m \in chan'[<<"join", n>>].seen) <= ran'[m]
  <2>1. PICK j \in Channels : j = <<"join", n>> /\ IsJoin(j) /\ Target(j) = n
    BY JoinParts
  <2>2. PICK in \in {0, 1} : in = One(m \in chan[j].seen)
    BY OneTyped
  <2>3. PICK inp \in {0, 1} : inp = One(m \in chan'[j].seen)
    BY OneTyped
  <2>4. ran[n] + Left(n) + CopiesOf(n, nextN) + in <= ran[m]
    BY <2>1, <2>2 DEF Counted
  <2>5. m \in Nodes /\ ran[n] \in Nat /\ ran[m] \in Nat /\ CopiesOf(n, nextN) \in Nat
    BY JoinParts
  <2>6. inp <= in
    BY <1>3, <2>1, <2>2, <2>3 DEF One
  <2>7. PICK p \in {0, 1} : p = Left(n)'
    BY <1>2, OneTyped
  <2>8. p + inp <= CopiesOf(n, nextN) + in
    <3>1. CASE PlanTriggered /\ n \in Triggered
      <4>1. PICK c \in Available : Target(c) = n
        BY <3>1 DEF Triggered
      <4>2. c \in Channels /\ chan[c].avail
        BY DEF Available
      <4>3. IsJoin(c)
        BY <4>1, <4>2 DEF Counted
      <4>4. c = j
        BY <2>1, <4>1, <4>2, <4>3, ChannelParts DEF IsJoin, Target
      <4>5. m \in chan[j].seen
        BY <2>1, <4>2, <4>4 DEF Typed, ChanOK, ChannelsOK, Settled, Satisfied
      <4>6. chan'[j].seen = {}
        BY <1>3, <3>1, <4>2, <4>4
      <4>7. in = 1 /\ inp = 0
        BY <2>2, <2>3, <4>5, <4>6 DEF One
      <4> QED BY <2>5, <2>7, <4>7
    <3>2. CASE PlanNextNodes /\ CopiesOf(n, nextN) = 1
      BY <2>2, <2>3, <2>6, <2>7, <3>2
    <3>3. CASE ~(PlanTriggered /\ n \in Triggered) /\ ~(PlanNextNodes /\ CopiesOf(n, nextN) = 1)
      <4>1. n # Entry
        BY DEF OnlyJoined
      <4>2. p = 0
        BY <1>2, <2>7, <3>3, <4>1 DEF One
      <4> QED BY <2>2, <2>3, <2>5, <2>6, <4>2
    <3> QED BY <3>1, <3>2, <3>3
  <2>9. Left(n) = 0 /\ CopiesOf(n, nextN') = 0 /\ ran' = ran
    BY <1>2
  <2>10. ran[n] + p + 0 + inp <= ran[m]
    BY <2>2, <2>3, <2>4, <2>5, <2>7, <2>8, <2>9
  <2> QED BY <2>1, <2>3, <2>7, <2>9, <2>10
<1>6. \A c \in Channels : ~IsJoin(c) /\ (chan'[c].avail \/ Written(pendW', c)) => JoinFrom[Target(c)] = {}
  BY <1>2, <1>3 DEF Counted
<1> QED BY <1>4, <1>5, <1>6 DEF Counted

LEMMA JoinedNext ==
  ASSUME Typed, Typed', Steady, Joined, Clean', Next
  PROVE  Joined'
<1>1. graph' = graph
  BY GraphStays
<1>2. NoFanOut' = NoFanOut /\ OnlyJoined' = OnlyJoined /\ CutEarly' = CutEarly
  BY <1>1, GraphSame
<1> SUFFICES ASSUME NoFanOut, OnlyJoined, CutEarly
             PROVE  Counted' /\ (ckpt' # NoCheckpoint => CountedIn(ckpt)')
  BY <1>2 DEF Joined
<1>3. Counted /\ (ckpt # NoCheckpoint => CountedIn(ckpt))
  BY DEF Joined
<1>4. ckpt' = ckpt => (ckpt' # NoCheckpoint => CountedIn(ckpt)')
  BY <1>1, <1>3, SaveCounted
<1>5. CASE StartFresh \/ Crash
  <2>1. /\ CleanStep /\ nextN' = EmptyBag /\ pendW' = EmptyBag
        /\ chan' = [c \in Channels |-> EmptyChannel] /\ ran' = [n \in Nodes |-> 0] /\ ckpt' = ckpt
    BY <1>5 DEF StartFresh, Crash
  <2> QED BY <1>1, <1>4, <2>1, BlankCounted
<1>6. CASE Resume
  <2>1. ckpt # NoCheckpoint /\ ckpt' = ckpt
    BY <1>6 DEF Resume
  <2> QED BY <1>3, <1>4, <1>6, <2>1, ResumeJoined
<1>7. CASE InputCheckpoint
  BY <1>3, <1>7, InputJoined
<1>8. CASE Plan
  <2>1. ckpt' = ckpt
    BY <1>8 DEF Plan
  <2> QED BY <1>3, <1>4, <1>8, <2>1, PlanJoined
<1>9. CASE OutOfSteps \/ StartStep \/ StepFails \/ RequestPause \/ ForcePause
  <2>1. UNCHANGED <<chan, ran, nextN, tasks, err, pendW, ckpt>>
    BY <1>9 DEF OutOfSteps, StartStep, StepFails, RequestPause, ForcePause, stateVars, chanVars, taskVars
  <2>2. Counted'
    BY <1>1, <1>3, <2>1, LeftSame, CountedSame
  <2> QED BY <1>4, <2>1, <2>2
<1>10. CASE \/ ExternalInterruptBeforeStep \/ StaticInterruptBeforeStep \/ InternalInterrupt \/ ForcedInterrupt
            \/ StaticInterruptAfterStep
  BY <1>3, <1>10, PauseJoined
<1>11. CASE TaskStep
  <2>1. PICK t \in DOMAIN tasks : \/ RunTask(t) \/ FinishTask(t) \/ ReleaseTask(t) \/ InterruptTask(t)
                                  \/ FailTask(t) \/ FailCondition(t) \/ BarrierTimesOut(t) \/ CancelTask(t)
    BY <1>11 DEF TaskStep
  <2>2. ckpt' = ckpt
    BY <2>1 DEF RunTask, FinishTask, ReleaseTask, InterruptTask, FailTask, FailCondition, BarrierTimesOut,
                CancelTask, StopTask, UNCHANGED_Exec
  <2> QED BY <1>3, <1>4, <2>1, <2>2, TaskCounted
<1>12. CASE LoopCheckpoint
  BY <1>3, <1>12, LoopJoined
<1> QED BY <1>5, <1>6, <1>7, <1>8, <1>9, <1>10, <1>11, <1>12
        DEF Next, Execute, Engine, BeforeStep, StepEnd, Environment

LEMMA StutterJoined ==
  ASSUME Typed, Joined, UNCHANGED vars
  PROVE  Joined'
<1>1. UNCHANGED <<graph, chan, ran, nextN, tasks, err, pendW, ckpt>>
  BY DEF vars, graphVars, stateVars, chanVars, taskVars
<1>2. NoFanOut' = NoFanOut /\ OnlyJoined' = OnlyJoined /\ CutEarly' = CutEarly
  BY <1>1, GraphSame
<1> SUFFICES ASSUME NoFanOut, OnlyJoined, CutEarly
             PROVE  Counted' /\ (ckpt' # NoCheckpoint => CountedIn(ckpt)')
  BY <1>2 DEF Joined
<1>3. Counted /\ (ckpt # NoCheckpoint => CountedIn(ckpt))
  BY DEF Joined
<1>4. Counted'
  BY <1>1, <1>3, LeftSame, CountedSame
<1> QED BY <1>1, <1>3, <1>4, SaveCounted

(***************************************************************************)
(* A node behind a join (AddJoinEdge) never runs oftener than any of its   *)
(* senders, however the execution is paused, crashes and is resumed: each  *)
(* run of the join uses up a mark of every sender (Acknowledge), also      *)
(* when the marks come from a checkpoint.  The join's node is reached by   *)
(* its join alone, and a pause that cuts tasks off finds none that has     *)
(* added its result.                                                       *)
(***************************************************************************)
THEOREM JoinRunsOnceTheorem == Spec /\ []Clean => [](NoFanOut /\ OnlyJoined /\ CutEarly => JoinRunsOnce)
<1>1. Init => Joined
  BY JoinedInit
<1>2. Typed /\ Steady /\ Joined /\ (Typed /\ Steady)' /\ Clean' /\ [Next]_vars => Joined'
  BY JoinedNext, StutterJoined
<1>3. Typed /\ Joined => (NoFanOut /\ OnlyJoined /\ CutEarly => JoinRunsOnce)
  BY JoinedMeans
<1> QED BY <1>1, <1>2, <1>3, SteadyAlways, PTL DEF Spec
-----------------------------------------------------------------------------
(* Completion.  Where a run of each node is, in a graph that runs it once.  *)

\* Every node but the entry is reached by one edge or by one join, and there is no other way.
OneWay ==
  /\ \A n \in Nodes : \A o \in Outcomes[n] :
       o.kind \in {"state", "interrupt"} /\ \A m \in o.to : <<n, m>> \in Edges
  /\ JoinFrom[Entry] = {} /\ \A e \in Edges : e[2] # Entry
  /\ \A n \in Nodes : IF JoinFrom[n] = {} THEN \A d, e \in Edges : d[2] = n /\ e[2] = n => d = e
                                          ELSE \A e \in Edges : e[2] # n
  /\ \A S \in SUBSET Nodes :
       /\ Entry \in S /\ \A e \in Edges : e[1] \in S => e[2] \in S
       /\ \A n \in Nodes : JoinFrom[n] # {} /\ JoinFrom[n] \subseteq S => n \in S
       => S = Nodes
\* What is cut off can be told from what has run.
Undisturbed == OneWay /\ AsksAlone /\ ~(CanForce /\ NodeBarrier)

\* The runs of a node that are over, under way or listed, and whether its edge was written.
Ahead(n) == ran[n] + Left(n) + CopiesOf(n, nextN)
Fired(n) == One(chan[<<"branch", n>>].avail)
\* A run of a node is one of its edge's source, or one of each of its join's senders.
Along ==
  /\ \A n \in Nodes : Ahead(n) + Fired(n) <= 1
  /\ \A e \in Edges : Ahead(e[2]) + Fired(e[2]) = ran[e[1]]
  /\ \A n \in Nodes : \A m \in JoinFrom[n] : Ahead(n) + One(m \in chan[<<"join", n>>].seen) = ran[m]
Unplanned == pc = "input" \/ (pc = "plan" /\ step = 0 /\ nextN = EmptyBag)
Begun == pc # "idle" /\ ~(pc = "completed" /\ step >= MaxSteps) => Ahead(Entry) = One(~Unplanned)
Within == Available \subseteq Compiled /\ \A w \in BagToSet(pendW) : w[1] \in Compiled
Going ==
  /\ pc = "input" => step = 0
  /\ pc = "start" => DOMAIN tasks # {}
  /\ pc = "exec" => \A t \in DOMAIN tasks, e \in Edges :
                      tasks[t].st = "wrote" /\ e[1] = t[1] => chan[<<"branch", e[2]>>].avail
Ended == pc = "completed" /\ step < MaxSteps => Available = {} /\ tasks = NoTasks /\ nextN = EmptyBag
Flow == Along /\ Begun /\ Within /\ Going /\ Ended

\* The same of an execution that resumes from checkpoint k.
Due(k, n) == k.ran[n] + CopiesOf(n, ExecutableNextNodes(k))
Kept(k, n) == One(Written(k.writes, <<"branch", n>>))
FlowIn(k) ==
  ~ReadyJoin(k) /\ ~Stale(k) =>
    /\ \A n \in Nodes : Due(k, n) + Kept(k, n) <= 1
    /\ \A e \in Edges : Due(k, e[2]) + Kept(k, e[2]) = k.ran[e[1]]
    /\ \A n \in Nodes : \A m \in JoinFrom[n] : Due(k, n) + One(m \in k.seen[<<"join", n>>]) = k.ran[m]
    /\ Due(k, Entry) = 1
    /\ \A w \in BagToSet(k.writes) : w[1] \in Compiled
    /\ k.step = -1 => k.next # EmptyBag
Flowing == Undisturbed => Flow /\ (ckpt # NoCheckpoint => FlowIn(ckpt))

LEMMA UndisturbedSame ==
  ASSUME graph' = graph
  PROVE  Undisturbed' = Undisturbed
<1>1. /\ Nodes' = Nodes /\ Edges' = Edges /\ JoinFrom' = JoinFrom /\ Outcomes' = Outcomes /\ Entry' = Entry
      /\ AsksAlone' = AsksAlone /\ CanForce' = CanForce /\ NodeBarrier' = NodeBarrier
  BY GraphSame
<1>2. OneWay' = OneWay
  BY <1>1 DEF OneWay
<1> QED BY <1>1, <1>2 DEF Undisturbed

LEMMA UndisturbedMeans ==
  ASSUME Typed, Undisturbed
  PROVE  NoFanOut /\ OnlyJoined /\ CutEarly /\ CutExactly /\ \A n \in Nodes : ~MayFail(n)
<1>1. \A n \in Nodes : \A o \in Outcomes[n] :
        o.kind \in {"state", "interrupt"} /\ \A m \in o.to : <<n, m>> \in Edges
  BY DEF Undisturbed, OneWay
<1>2. NoFanOut /\ \A n \in Nodes : ~MayFail(n)
  BY <1>1 DEF NoFanOut, MayFail
<1>3. CutEarly /\ CutExactly
  BY <1>2 DEF Undisturbed, CutEarly, CutExactly
<1>4. ASSUME NEW n \in Nodes, JoinFrom[n] # {}
      PROVE  n # Entry /\ \A e \in Edges : e[2] # n
  BY <1>4 DEF Undisturbed, OneWay
<1>5. ASSUME NEW n \in Nodes, JoinFrom[n] # {}, NEW m \in Nodes, NEW o \in Outcomes[m], n \in o.to
      PROVE  FALSE
  <2>1. <<m, n>> \in Edges /\ <<m, n>>[2] = n
    BY <1>1, <1>5
  <2> QED BY <1>4, <1>5, <2>1
<1> QED BY <1>2, <1>3, <1>4, <1>5 DEF OnlyJoined

\* The compiled channels of a node.
LEMMA CompiledParts ==
  ASSUME Typed, Undisturbed
  PROVE  /\ \A c \in Compiled : \/ c = <<"branch", Target(c)>> /\ \E e \in Edges : e[2] = Target(c)
                                \/ c = <<"join", Target(c)>> /\ JoinFrom[Target(c)] # {} /\ IsJoin(c)
         /\ \A n \in Nodes : <<"branch", n>> \in Channels /\ ~IsJoin(<<"branch", n>>)
                             /\ Target(<<"branch", n>>) = n
         /\ \A e \in Edges : e[1] \in Nodes /\ e[2] \in Nodes /\ <<"branch", e[2]>> \in Compiled
                             /\ JoinFrom[e[2]] = {} /\ e[2] # Entry
         /\ \A d, e \in Edges : d[2] = e[2] => d = e
         /\ \A n \in Nodes : JoinFrom[n] # {} => <<"branch", n>> \notin Compiled
         /\ <<"branch", Entry>> \notin Compiled /\ JoinFrom[Entry] = {}
<1>1. Edges \subseteq Nodes \X Nodes
  BY GraphTyped DEF Typed, GraphOK
<1>2. \A c \in Compiled : \/ c = <<"branch", Target(c)>> /\ \E e \in Edges : e[2] = Target(c)
                          \/ c = <<"join", Target(c)>> /\ JoinFrom[Target(c)] # {} /\ IsJoin(c)
  BY DEF Compiled, Target, IsJoin
<1>3. \A n \in Nodes : <<"branch", n>> \in Channels /\ ~IsJoin(<<"branch", n>>) /\ Target(<<"branch", n>>) = n
  BY DEF Channels, IsJoin, Target
<1>4. \A e \in Edges : e[1] \in Nodes /\ e[2] \in Nodes /\ <<"branch", e[2]>> \in Compiled
  BY <1>1 DEF Compiled
<1>5. \A e \in Edges : JoinFrom[e[2]] = {} /\ e[2] # Entry
  BY <1>4 DEF Undisturbed, OneWay
<1>6. \A d, e \in Edges : d[2] = e[2] => d = e
  BY <1>4, <1>5 DEF Undisturbed, OneWay
<1>7. \A n \in Nodes : <<"branch", n>> \in Compiled => \E e \in Edges : e[2] = n
  BY DEF Compiled
<1>8. JoinFrom[Entry] = {} /\ Entry \in Nodes
  BY GraphTyped DEF Undisturbed, OneWay, Typed, GraphOK
<1> QED BY <1>2, <1>3, <1>4, <1>5, <1>6, <1>7, <1>8

LEMMA AheadTyped ==
  ASSUME Typed, NEW n \in Nodes
  PROVE  /\ ran[n] \in Nat /\ CopiesOf(n, nextN) \in Nat /\ Left(n) \in {0, 1} /\ Fired(n) \in {0, 1}
         /\ Ahead(n) \in Nat
<1>1. ran[n] \in Nat /\ CopiesOf(n, nextN) \in Nat
  BY CopiesTyped DEF Typed, StateOK
<1>2. Left(n) \in {0, 1} /\ Fired(n) \in {0, 1}
  BY OneTyped DEF Left, Fired
<1> QED BY <1>1, <1>2 DEF Ahead

\* At the end every node has run.
LEMMA FlowMeans ==
  ASSUME Typed, Flow, Undisturbed, pc = "completed", step < MaxSteps, NEW x \in Nodes
  PROVE  ran[x] = 1
<1>1. Available = {} /\ tasks = NoTasks /\ nextN = EmptyBag
  BY DEF Flow, Ended
<1>2. \A n \in Nodes : Left(n) = 0 /\ CopiesOf(n, nextN) = 0 /\ Fired(n) = 0
  <2>1. DOMAIN tasks = {}
    BY <1>1 DEF NoTasks
  <2>2. \A n \in Nodes : ~chan[<<"branch", n>>].avail
    BY <1>1, CompiledParts DEF Available
  <2> QED BY <1>1, <2>1, <2>2, EmptyBagParts DEF Left, Fired, One
<1>3. \A n \in Nodes : Ahead(n) = ran[n] /\ ran[n] \in Nat
  BY <1>2, AheadTyped DEF Ahead
<1>4. Entry \in Nodes /\ ran[Entry] = 1
  <2>1. Entry \in Nodes
    BY GraphTyped DEF Typed, GraphOK
  <2>2. ~Unplanned /\ ~(step >= MaxSteps)
    BY StepAssumption DEF Unplanned, Typed, GraphOK
  <2>3. Ahead(Entry) = 1
    BY <2>2 DEF Flow, Begun, One
  <2> QED BY <1>3, <2>1, <2>3
<1>5. ASSUME NEW e \in Edges PROVE ran[e[2]] = ran[e[1]]
  <2>1. PICK n \in Nodes : n = e[2]
    BY CompiledParts
  <2>2. Ahead(e[2]) + Fired(e[2]) = ran[e[1]]
    BY DEF Flow, Along
  <2>3. Ahead(n) = ran[n] /\ Fired(n) = 0 /\ ran[n] \in Nat
    BY <1>2, <1>3
  <2> QED BY <2>1, <2>2, <2>3
<1>6. ASSUME NEW n \in Nodes, JoinFrom[n] # {}, \A m \in JoinFrom[n] : ran[m] = 1
      PROVE  ran[n] = 1
  <2>1. PICK j \in Channels : j = <<"join", n>> /\ IsJoin(j) /\ Target(j) = n
    BY <1>6, JoinParts
  <2>2. \A m \in JoinFrom[n] : ran[n] + One(m \in chan[j].seen) = 1
    BY <1>3, <1>6, <2>1 DEF Flow, Along
  <2>3. ~chan[j].avail
    BY <1>1 DEF Available
  <2>4. chan[j].seen = {} \/ ~(JoinFrom[n] \subseteq chan[j].seen)
    BY <2>1, <2>3 DEF Typed, ChanOK, ChannelsOK, Settled, Satisfied
  <2>5. PICK m \in JoinFrom[n] : m \notin chan[j].seen
    BY <1>6, <2>4
  <2> QED BY <1>3, <2>2, <2>5 DEF One
<1>7. PICK S \in SUBSET Nodes : S = {n \in Nodes : ran[n] = 1}
  OBVIOUS
<1>8. Entry \in S /\ \A e \in Edges : e[1] \in S => e[2] \in S
  BY <1>4, <1>5, <1>7, CompiledParts
<1>9. \A n \in Nodes : JoinFrom[n] # {} /\ JoinFrom[n] \subseteq S => n \in S
  BY <1>6, <1>7
<1>10. S = Nodes
  BY <1>8, <1>9 DEF Undisturbed, OneWay
<1> QED BY <1>7, <1>10

\* Nothing moves.
LEMMA AlongSame ==
  ASSUME Typed, Along, UNCHANGED <<graph, chan, ran>>, \A n \in Nodes : Ahead(n)' = Ahead(n)
  PROVE  Along'
<1>1. Nodes' = Nodes /\ Edges' = Edges /\ JoinFrom' = JoinFrom
  BY GraphSame
<1>2. \A n : Fired(n)' = Fired(n)
  BY DEF Fired, One
<1>3. \A e \in Edges : e[2] \in Nodes
  BY GraphTyped DEF Typed, GraphOK
<1>4. \A n \in Nodes : Ahead(n)' + Fired(n)' <= 1
  BY <1>2 DEF Along
<1>5. \A e \in Edges : Ahead(e[2])' + Fired(e[2])' = ran'[e[1]]
  BY <1>2, <1>3 DEF Along
<1>6. \A n \in Nodes : \A m \in JoinFrom[n] : Ahead(n)' + One(m \in chan'[<<"join", n>>].seen) = ran'[m]
  BY DEF Along
<1> QED BY <1>1, <1>4, <1>5, <1>6 DEF Along

LEMMA FlowInSame ==
  ASSUME graph' = graph, NEW k, FlowIn(k)
  PROVE  FlowIn(k)'
<1>1. /\ Nodes' = Nodes /\ Channels' = Channels /\ JoinFrom' = JoinFrom /\ Edges' = Edges
      /\ Entry' = Entry /\ Compiled' = Compiled
  BY GraphSame
<1>2. ReadyJoin(k)' = ReadyJoin(k) /\ Stale(k)' = Stale(k)
  BY <1>1 DEF ReadyJoin, Satisfied, Stale
<1>3. \A n : Due(k, n)' = Due(k, n) /\ Kept(k, n)' = Kept(k, n)
  BY DEF Due, Kept, Written, ExecutableNextNodes, One
<1> QED BY <1>1, <1>2, <1>3 DEF FlowIn

LEMMA SaveFlow ==
  ASSUME graph' = graph, ckpt # NoCheckpoint => FlowIn(ckpt),
         ckpt' = ckpt \/ \E k : ckpt' = k /\ FlowIn(k)
  PROVE  ckpt' # NoCheckpoint => FlowIn(ckpt)'
<1>1. ASSUME NEW k, ckpt' = k, FlowIn(k)
      PROVE  FlowIn(ckpt)'
  <2>1. FlowIn(k)'
    BY <1>1, FlowInSame
  <2> QED BY <1>1, <2>1 DEF FlowIn, ReadyJoin, Stale, Due, Kept, Written, ExecutableNextNodes
<1>2. CASE ckpt' = ckpt
  <2>1. PICK k : k = ckpt
    OBVIOUS
  <2>2. NoCheckpoint' = NoCheckpoint
    BY DEF NoCheckpoint
  <2> QED BY <1>1, <1>2, <2>1, <2>2
<1>3. CASE \E k : ckpt' = k /\ FlowIn(k)
  BY <1>1, <1>3
<1> QED BY <1>2, <1>3

LEMMA FlowInit == Init => Flowing
<1> SUFFICES ASSUME Init PROVE Flow /\ ckpt = NoCheckpoint
  BY DEF Flowing
<1>1. /\ chan = [c \in Channels |-> EmptyChannel] /\ pendW = EmptyBag /\ ran = [n \in Nodes |-> 0]
      /\ nextN = EmptyBag /\ tasks = NoTasks /\ ckpt = NoCheckpoint /\ graph \in Graphs /\ pc = "idle"
  BY DEF Init
<1>2. /\ DOMAIN tasks = {} /\ (\A n : CopiesOf(n, nextN) = 0) /\ BagToSet(pendW) = {} /\ Available = {}
  BY <1>1, EmptyBagParts DEF NoTasks, Available, EmptyChannel
<1>3. \A n \in Nodes : Ahead(n) = 0 /\ Fired(n) = 0
  BY <1>1, <1>2 DEF Ahead, Left, Fired, One, EmptyChannel, Channels
<1>4. \A n \in Nodes : \A m : One(m \in chan[<<"join", n>>].seen) = 0
  BY <1>1 DEF One, EmptyChannel, Channels
<1>5. \A n \in Nodes : JoinFrom[n] \subseteq Nodes
  BY <1>1, GraphTyped
<1>6. \A e \in Edges : e[1] \in Nodes /\ e[2] \in Nodes
  BY <1>1, GraphTyped
<1>7. Along
  <2>1. ASSUME NEW n \in Nodes, NEW m \in JoinFrom[n]
        PROVE  Ahead(n) + One(m \in chan[<<"join", n>>].seen) = ran[m]
    <3>1. m \in Nodes /\ ran[m] = 0
      BY <1>1, <1>5
    <3>2. Ahead(n) = 0 /\ One(m \in chan[<<"join", n>>].seen) = 0
      BY <1>3, <1>4
    <3> QED BY <3>1, <3>2
  <2>2. \A e \in Edges : Ahead(e[2]) + Fired(e[2]) = ran[e[1]]
    BY <1>1, <1>3, <1>6
  <2> QED BY <1>3, <2>1, <2>2 DEF Along
<1> QED BY <1>1, <1>2, <1>7 DEF Flow, Begun, Within, Going, Ended

\* An execution that begins, or that is gone.
LEMMA BlankFlow ==
  ASSUME Typed, graph' = graph, CleanStep, nextN' = EmptyBag, pendW' = EmptyBag, step' = 0,
         chan' = [c \in Channels |-> EmptyChannel], ran' = [n \in Nodes |-> 0], pc' \in {"idle", "input"}
  PROVE  Flow'
<1>1. /\ Nodes' = Nodes /\ Channels' = Channels /\ JoinFrom' = JoinFrom /\ Edges' = Edges
      /\ Entry' = Entry /\ Compiled' = Compiled
  BY GraphSame
<1>2. /\ DOMAIN tasks' = {} /\ (\A n : CopiesOf(n, nextN') = 0) /\ BagToSet(pendW') = {} /\ Available' = {}
  BY <1>1, EmptyBagParts DEF CleanStep, NoTasks, Available, EmptyChannel
<1>3. \A n \in Nodes : Ahead(n)' = 0 /\ Fired(n)' = 0
  BY <1>1, <1>2 DEF Ahead, Left, Fired, One, EmptyChannel, Channels
<1>4. \A n \in Nodes : \A m : One(m \in chan'[<<"join", n>>].seen) = 0
  BY <1>1 DEF One, EmptyChannel, Channels
<1>5. Entry \in Nodes /\ \A n \in Nodes : JoinFrom[n] \subseteq Nodes
  BY GraphTyped DEF Typed, GraphOK
<1>6. \A e \in Edges : e[1] \in Nodes /\ e[2] \in Nodes
  BY GraphTyped DEF Typed, GraphOK
<1>7. Along'
  <2>1. ASSUME NEW n \in Nodes, NEW m \in JoinFrom[n]
        PROVE  Ahead(n)' + One(m \in chan'[<<"join", n>>].seen) = ran'[m]
    <3>1. m \in Nodes /\ ran'[m] = 0
      BY <1>5
    <3>2. Ahead(n)' = 0 /\ One(m \in chan'[<<"join", n>>].seen) = 0
      BY <1>3, <1>4
    <3> QED BY <3>1, <3>2
  <2>2. \A e \in Edges : Ahead(e[2])' + Fired(e[2])' = ran'[e[1]]
    BY <1>3, <1>6
  <2> QED BY <1>1, <1>3, <2>1, <2>2 DEF Along
<1>8. Begun'
  BY <1>1, <1>3, <1>5 DEF Begun, Unplanned, One
<1> QED BY <1>2, <1>7, <1>8 DEF Flow, Within, Going, Ended

\* What is available is what the checkpoint's writes make so.
LEMMA ResumeFlow ==
  ASSUME Typed, Typed', Steady, Undisturbed, NoFanOut, Clean', FlowIn(ckpt), Resume
  PROVE  Flow'
<1>1. /\ ckpt # NoCheckpoint /\ CleanStep /\ pc' = "plan" /\ step' = ckpt.step + 1
      /\ chan' = [c \in Channels |-> Replayed(ckpt, c)] /\ pendW' = ckpt.writes /\ ran' = ckpt.ran
      /\ nextN' = ExecutableNextNodes(ckpt) /\ fresh' /\ UNCHANGED <<graph, known, ckpt>>
  BY DEF Resume, ResumedStep, envVars
<1>2. /\ Nodes' = Nodes /\ Channels' = Channels /\ JoinFrom' = JoinFrom /\ Edges' = Edges
      /\ Entry' = Entry /\ Compiled' = Compiled
  BY <1>1, GraphSame
<1>3. CheckpointOK(ckpt) /\ FaithfulTo(ckpt) /\ ~Stale(ckpt) /\ ~ReadyJoin(ckpt)
  BY <1>1, CleanCheckpoint
<1>4. \A w \in BagToSet(ckpt.writes) : w[1] \in Compiled
  BY <1>3 DEF FlowIn
<1>5. \A c \in Channels : /\ chan'[c].seen = ckpt.seen[c] /\ (chan'[c].avail => Written(ckpt.writes, c))
                          /\ ~IsJoin(c) /\ Written(ckpt.writes, c) => chan'[c].avail
  <2> TAKE c \in Channels
  <2>1. chan'[c] = Replayed(ckpt, c)
    BY <1>1
  <2>2. Written(ckpt.writes, c) => Exists(c)
    BY <1>4 DEF Written, Exists, Steady, Drained
  <2> QED BY <1>3, <2>1, <2>2, ReplayedParts DEF Ready
<1>6. \A n \in Nodes : Ahead(n)' = Due(ckpt, n) /\ Fired(n)' = Kept(ckpt, n)
  <2> TAKE n \in Nodes
  <2>1. DOMAIN tasks' = {} /\ Left(n)' = 0
    BY <1>1 DEF CleanStep, NoTasks, Left, One
  <2>2. ckpt.ran[n] \in Nat
    BY <1>3 DEF CheckpointOK
  <2>3. Ahead(n)' = Due(ckpt, n)
    BY <1>1, <2>1, <2>2 DEF Ahead, Due
  <2>4. <<"branch", n>> \in Channels /\ ~IsJoin(<<"branch", n>>)
    BY CompiledParts
  <2> QED BY <1>5, <2>3, <2>4 DEF Fired, Kept, One
<1>7. \A e \in Edges : e[2] \in Nodes
  BY CompiledParts
<1>8. Along'
  <2>1. \A n \in Nodes : \A m \in JoinFrom[n] : Ahead(n)' + One(m \in chan'[<<"join", n>>].seen) = ran'[m]
    <3> TAKE n \in Nodes
    <3> TAKE m \in JoinFrom[n]
    <3>1. <<"join", n>> \in Channels
      BY JoinParts
    <3>2. Due(ckpt, n) + One(m \in ckpt.seen[<<"join", n>>]) = ckpt.ran[m]
      BY <1>3 DEF FlowIn
    <3> QED BY <1>1, <1>5, <1>6, <3>1, <3>2
  <2>2. \A e \in Edges : Ahead(e[2])' + Fired(e[2])' = ran'[e[1]]
    BY <1>1, <1>3, <1>6, <1>7 DEF FlowIn
  <2>3. \A n \in Nodes : Ahead(n)' + Fired(n)' <= 1
    BY <1>3, <1>6 DEF FlowIn
  <2> QED BY <1>2, <2>1, <2>2, <2>3 DEF Along
<1>9. Begun'
  <2>1. Entry \in Nodes
    BY GraphTyped DEF Typed, GraphOK
  <2>2. Ahead(Entry)' = 1
    BY <1>2, <1>3, <1>6, <2>1 DEF FlowIn
  <2>3. ~Unplanned'
    <3>1. step' = 0 => ckpt.step = -1
      BY <1>1, <1>3 DEF CheckpointOK
    <3>2. ckpt.step = -1 => ckpt.next # EmptyBag /\ ckpt.writes = EmptyBag
      BY <1>3 DEF FlowIn, FaithfulTo
    <3> QED BY <1>1, <3>1, <3>2 DEF Unplanned, ExecutableNextNodes
  <2> QED BY <1>2, <2>2, <2>3 DEF Begun, One
<1>10. Within'
  <2>1. \A c \in Available' : c \in Compiled
    BY <1>2, <1>4, <1>5 DEF Available, Written
  <2> QED BY <1>1, <1>2, <1>4, <2>1 DEF Within
<1> QED BY <1>1, <1>8, <1>9, <1>10 DEF Flow, Going, Ended

\* A step that only moves on.
LEMMA StandFlow ==
  ASSUME Typed, Flow, UNCHANGED <<graph, chan, ran, nextN, tasks, err, pendW, step>>,
         \/ pc' = pc
         \/ pc = "plan" /\ pc' = "completed" /\ step >= MaxSteps
         \/ pc = "start" /\ pc' = "exec" /\ \A t \in DOMAIN tasks : tasks[t].st = "todo"
         \/ pc \in {"start", "exec"} /\ pc' \in {"paused", "failed"}
         \/ pc = "input" /\ pc' = "plan" /\ nextN = EmptyBag
  PROVE  Flow'
<1>1. /\ Nodes' = Nodes /\ Channels' = Channels /\ JoinFrom' = JoinFrom /\ Edges' = Edges
      /\ Entry' = Entry /\ Compiled' = Compiled
  BY GraphSame
<1>2. \A n \in Nodes : Ahead(n)' = Ahead(n)
  BY LeftSame DEF Ahead
<1>3. Along'
  BY <1>2, AlongSame DEF Flow
<1>4. Available' = Available
  BY <1>1 DEF Available
<1>5. Within'
  BY <1>1, <1>4 DEF Flow, Within
<1>6. Going'
  BY <1>1 DEF Flow, Going
<1>7. Ended'
  <2>1. step >= MaxSteps => ~(step < MaxSteps)
    BY StepAssumption DEF Typed, GraphOK
  <2> QED BY <1>4, <2>1 DEF Flow, Ended, NoTasks
<1>8. Entry \in Nodes
  BY GraphTyped DEF Typed, GraphOK
<1>9. ASSUME pc' # "idle", ~(pc' = "completed" /\ step' >= MaxSteps)
      PROVE  Ahead(Entry)' = One(~Unplanned)'
  <2>1. Ahead(Entry) = One(~Unplanned)
    BY <1>9 DEF Flow, Begun
  <2>2. Unplanned' <=> Unplanned
    BY <1>9 DEF Unplanned, Flow, Going
  <2> QED BY <1>1, <1>2, <1>8, <2>1, <2>2 DEF One
<1> QED BY <1>3, <1>5, <1>6, <1>7, <1>9 DEF Flow, Begun

\* What the available channels trigger: a node by its edge, or by its join.
LEMMA Reached ==
  ASSUME Typed, Undisturbed, Within, NEW n \in Nodes
  PROVE  /\ (\E c \in Available : Target(c) = n) <=> \/ chan[<<"branch", n>>].avail
                                                     \/ JoinFrom[n] # {} /\ chan[<<"join", n>>].avail
         /\ JoinFrom[n] # {} \/ n = Entry => ~chan[<<"branch", n>>].avail
<1>1. <<"branch", n>> \in Channels /\ Target(<<"branch", n>>) = n
  BY CompiledParts
<1>2. <<"join", n>> \in Channels /\ Target(<<"join", n>>) = n
  BY DEF Channels, Target
<1>3. ASSUME NEW c \in Available, Target(c) = n
      PROVE  \/ c = <<"branch", n>> /\ chan[c].avail
             \/ JoinFrom[n] # {} /\ c = <<"join", n>> /\ chan[c].avail
  <2>1. c \in Compiled /\ chan[c].avail
    BY DEF Within, Available
  <2> QED BY <1>3, <2>1, CompiledParts
<1>4. JoinFrom[n] # {} \/ n = Entry => <<"branch", n>> \notin Compiled
  BY CompiledParts
<1>5. chan[<<"branch", n>>].avail => <<"branch", n>> \in Available
  BY <1>1 DEF Available
<1>6. chan[<<"join", n>>].avail => <<"join", n>> \in Available
  BY <1>2 DEF Available
<1> QED BY <1>1, <1>2, <1>3, <1>4, <1>5, <1>6 DEF Within

\* A checkpoint that lists or keeps what is under way.
LEMMA SnapFlow ==
  ASSUME Typed, Undisturbed, Flow, pc \in {"input", "start", "exec"},
         NEW k, k.ran = ran, k.seen = [c \in Channels |-> chan[c].seen],
         k.writes = EmptyBag \/ k.writes = pendW, k.step = -1 => k.next # EmptyBag,
         ~ReadyJoin(k) /\ ~Stale(k) =>
           \A n \in Nodes : /\ CopiesOf(n, ExecutableNextNodes(k)) \in Nat
                            /\ CopiesOf(n, ExecutableNextNodes(k)) + Kept(k, n)
                                 = Left(n) + CopiesOf(n, nextN) + Fired(n) + One(n = Entry /\ Unplanned)
  PROVE  FlowIn(k)
<1> SUFFICES ASSUME ~ReadyJoin(k), ~Stale(k)
             PROVE  /\ \A n \in Nodes : Due(k, n) + Kept(k, n) <= 1
                    /\ \A e \in Edges : Due(k, e[2]) + Kept(k, e[2]) = k.ran[e[1]]
                    /\ \A n \in Nodes : \A m \in JoinFrom[n] :
                         Due(k, n) + One(m \in k.seen[<<"join", n>>]) = k.ran[m]
                    /\ Due(k, Entry) = 1
                    /\ \A w \in BagToSet(k.writes) : w[1] \in Compiled
  BY DEF FlowIn
<1>1. \A w \in BagToSet(k.writes) : w[1] \in Compiled
  BY EmptyBagParts DEF Flow, Within
<1>2. \A n \in Nodes : Kept(k, n) \in {0, 1} /\ One(n = Entry /\ Unplanned) \in {0, 1}
  BY OneTyped DEF Kept
<1>3. \A n \in Nodes : Due(k, n) + Kept(k, n) = Ahead(n) + Fired(n) + One(n = Entry /\ Unplanned)
  <2> TAKE n \in Nodes
  <2>1. /\ CopiesOf(n, ExecutableNextNodes(k)) \in Nat
        /\ CopiesOf(n, ExecutableNextNodes(k)) + Kept(k, n)
             = Left(n) + CopiesOf(n, nextN) + Fired(n) + One(n = Entry /\ Unplanned)
    OBVIOUS
  <2>2. k.ran[n] = ran[n]
    OBVIOUS
  <2> QED BY <1>2, <2>1, <2>2, AheadTyped DEF Due, Ahead
<1>4. ASSUME NEW n \in Nodes, JoinFrom[n] # {} \/ n = Entry
      PROVE  Kept(k, n) = 0 /\ Fired(n) = 0
  <2>1. <<"branch", n>> \notin Compiled /\ ~chan[<<"branch", n>>].avail
    BY <1>4, CompiledParts, Reached DEF Flow
  <2> QED BY <1>1, <2>1 DEF Kept, Fired, One, Written
<1>5. Entry \in Nodes /\ Ahead(Entry) = One(~Unplanned) /\ JoinFrom[Entry] = {}
  BY GraphTyped, CompiledParts DEF Typed, GraphOK, Flow, Begun
<1>6. \A n \in Nodes : CopiesOf(n, ExecutableNextNodes(k)) \in Nat /\ Due(k, n) \in Nat
  BY AheadTyped DEF Due
<1>7. \A n \in Nodes : n # Entry => Due(k, n) + Kept(k, n) = Ahead(n) + Fired(n)
  <2> TAKE n \in Nodes
  <2> HAVE n # Entry
  <2>1. One(n = Entry /\ Unplanned) = 0
    BY DEF One
  <2> QED BY <1>3, <2>1, AheadTyped
<1>8. Due(k, Entry) = 1 /\ Kept(k, Entry) = 0
  <2>1. Due(k, Entry) + Kept(k, Entry) = Ahead(Entry) + Fired(Entry) + One(Entry = Entry /\ Unplanned)
    BY <1>3, <1>5
  <2>2. Kept(k, Entry) = 0 /\ Fired(Entry) = 0
    BY <1>4, <1>5
  <2> QED BY <1>5, <1>6, <2>1, <2>2 DEF One
<1>9. \A n \in Nodes : Due(k, n) + Kept(k, n) <= 1
  <2> TAKE n \in Nodes
  <2>1. CASE n = Entry
    BY <1>8, <2>1
  <2>2. CASE n # Entry
    BY <1>7, <2>2 DEF Flow, Along
  <2> QED BY <2>1, <2>2
<1>10. ASSUME NEW e \in Edges
       PROVE  Due(k, e[2]) + Kept(k, e[2]) = k.ran[e[1]]
  <2>1. e[2] \in Nodes /\ e[2] # Entry
    BY CompiledParts
  <2>2. Ahead(e[2]) + Fired(e[2]) = ran[e[1]]
    BY DEF Flow, Along
  <2> QED BY <1>7, <2>1, <2>2
<1>11. ASSUME NEW n \in Nodes, NEW m \in JoinFrom[n]
       PROVE  Due(k, n) + One(m \in k.seen[<<"join", n>>]) = k.ran[m]
  <2>1. k.seen[<<"join", n>>] = chan[<<"join", n>>].seen
    BY JoinParts
  <2>2. n # Entry
    BY <1>5
  <2>3. Kept(k, n) = 0 /\ Fired(n) = 0
    BY <1>4
  <2>4. Due(k, n) + Kept(k, n) = Ahead(n) + Fired(n)
    BY <1>7, <2>2
  <2>5. Due(k, n) = Ahead(n)
    BY <1>6, <2>3, <2>4, AheadTyped
  <2>6. Ahead(n) + One(m \in chan[<<"join", n>>].seen) = ran[m]
    BY DEF Flow, Along
  <2> QED BY <2>1, <2>5, <2>6
<1> QED BY <1>1, <1>8, <1>9, <1>10, <1>11

LEMMA PauseFlow ==
  ASSUME Typed, Steady, NoFanOut, Undisturbed, Flow, ckpt # NoCheckpoint => FlowIn(ckpt),
         \/ ExternalInterruptBeforeStep \/ StaticInterruptBeforeStep \/ InternalInterrupt \/ ForcedInterrupt
         \/ StaticInterruptAfterStep
  PROVE  Flow' /\ (ckpt' # NoCheckpoint => FlowIn(ckpt)')
<1>1. PICK stp, next, node, sk : /\ HandleInterrupt(stp, next, node, sk) /\ (pc = "exec" => stp = step)
                                 /\ \A n \in Nodes : CopiesOf(n, next) = One(Left(n) = 1 \/ n \in GetNextNodes)
  BY PauseLists
<1>2. PICK k : k = Snapshot(stp, next, EmptyBag, node, sk)
  OBVIOUS
<1>3. /\ UNCHANGED <<graph, chan, ran, nextN, pendW, tasks, err, step>> /\ Save(k)
      /\ pc \in {"start", "exec"} /\ pc' = "paused"
  BY <1>1, <1>2, PauseLists DEF HandleInterrupt, graphVars, chanVars, taskVars
<1>4. Flow'
  BY <1>3, StandFlow
<1>5. /\ k.ran = ran /\ k.seen = [c \in Channels |-> chan[c].seen] /\ k.writes = EmptyBag
      /\ k.next = next /\ k.step = stp
  BY <1>2 DEF Snapshot
<1>6. Quiet /\ Drained /\ Along /\ Within /\ Going
  BY DEF Steady, Flow
<1>7. k.step = -1 => k.next # EmptyBag
  <2> SUFFICES ASSUME k.step = -1 PROVE k.next # EmptyBag
    OBVIOUS
  <2>1. pc = "start"
    BY <1>1, <1>3, <1>5 DEF Typed, GraphOK
  <2>2. PICK t \in DOMAIN tasks : tasks[t].st = "todo" /\ t[1] \in Nodes
    BY <1>6, <2>1 DEF Going, Quiet, Typed, TasksOK, TaskOK
  <2>3. CopiesOf(t[1], next) = 1
    BY <1>1, <2>2 DEF Left, LeftTask, One
  <2> QED BY <1>5, <2>3, EmptyBagParts
<1>8. ASSUME ~ReadyJoin(k), NEW n \in Nodes
      PROVE  /\ CopiesOf(n, ExecutableNextNodes(k)) \in Nat
             /\ CopiesOf(n, ExecutableNextNodes(k)) + Kept(k, n)
                  = Left(n) + CopiesOf(n, nextN) + Fired(n) + One(n = Entry /\ Unplanned)
  <2>1. JoinFrom[n] # {} => ~chan[<<"join", n>>].avail
    <3> SUFFICES ASSUME JoinFrom[n] # {}, chan[<<"join", n>>].avail PROVE FALSE
      OBVIOUS
    <3>1. PICK j \in Channels : j = <<"join", n>> /\ IsJoin(j)
      BY JoinParts
    <3>2. chan[j].seen # {} /\ Satisfied(j, chan[j].seen)
      BY <3>1 DEF Typed, ChanOK, ChannelsOK, Settled
    <3> QED BY <1>5, <1>8, <3>1, <3>2 DEF ReadyJoin
  <2>2. n \in GetNextNodes <=> \E c \in Available : Target(c) = n
    BY <1>6 DEF GetNextNodes, Within, Drained
  <2>3. n \in GetNextNodes <=> Fired(n) = 1
    BY <1>6, <2>1, <2>2, Reached DEF Fired, One
  <2>4. Left(n) + Fired(n) <= 1
    BY <1>6, AheadTyped DEF Along, Ahead
  <2>5. CopiesOf(n, next) = Left(n) + Fired(n)
    BY <1>1, <2>3, <2>4, AheadTyped DEF One
  <2>6. CopiesOf(n, nextN) = 0 /\ ~Unplanned /\ Kept(k, n) = 0
    BY <1>3, <1>5, <1>6, EmptyBagParts DEF Quiet, Unplanned, Kept, Written, One
  <2>7. ExecutableNextNodes(k) = next
    BY <1>5 DEF ExecutableNextNodes
  <2> QED BY <2>5, <2>6, <2>7, AheadTyped DEF One
<1>9. FlowIn(k)
  BY <1>3, <1>5, <1>7, <1>8, SnapFlow
<1> QED BY <1>3, <1>4, <1>9, SaveFlow DEF Save

LEMMA InputFlow ==
  ASSUME Typed, Steady, NoFanOut, Undisturbed, Flow, ckpt # NoCheckpoint => FlowIn(ckpt), InputCheckpoint
  PROVE  Flow' /\ (ckpt' # NoCheckpoint => FlowIn(ckpt)')
<1>1. PICK k : k = [Snapshot(-1, SetToBag({Entry}), EmptyBag, "none", skips)
                      EXCEPT !.owed = [n \in Nodes |-> IF n = Entry THEN 1 ELSE 0]]
  OBVIOUS
<1>2. /\ SaveInRun(k) /\ pc = "input" /\ pc' = "plan"
      /\ UNCHANGED <<graph, chan, ran, nextN, pendW, tasks, err, step>>
  BY <1>1 DEF InputCheckpoint, graphVars, stateVars, chanVars, taskVars
<1>3. Quiet /\ Drained
  BY DEF Steady
<1>4. nextN = EmptyBag /\ tasks = NoTasks /\ Available = {}
  BY <1>2, <1>3 DEF Quiet, Drained
<1>5. Flow'
  BY <1>2, <1>4, StandFlow
<1>6. /\ k.ran = ran /\ k.seen = [c \in Channels |-> chan[c].seen] /\ k.writes = EmptyBag
      /\ k.next = SetToBag({Entry})
  BY <1>1 DEF Snapshot
<1>7. ASSUME NEW n \in Nodes
      PROVE  /\ CopiesOf(n, ExecutableNextNodes(k)) \in Nat
             /\ CopiesOf(n, ExecutableNextNodes(k)) + Kept(k, n)
                  = Left(n) + CopiesOf(n, nextN) + Fired(n) + One(n = Entry /\ Unplanned)
  <2>1. CopiesOf(n, ExecutableNextNodes(k)) = One(n = Entry)
    BY <1>6, SetBag DEF ExecutableNextNodes, One
  <2>2. Kept(k, n) = 0 /\ CopiesOf(n, nextN) = 0
    BY <1>4, <1>6, EmptyBagParts DEF Kept, Written, One
  <2>3. Left(n) = 0
    <3>1. DOMAIN tasks = {}
      BY <1>4 DEF NoTasks
    <3> QED BY <3>1 DEF Left, One
  <2>4. Fired(n) = 0
    BY <1>4, CompiledParts DEF Fired, One, Available
  <2>5. Unplanned
    BY <1>2 DEF Unplanned
  <2> QED BY <2>1, <2>2, <2>3, <2>4, <2>5 DEF One
<1>8. k.next # EmptyBag
  <2>1. Entry \in Nodes /\ CopiesOf(Entry, k.next) = 1
    BY <1>6, GraphTyped, SetBag DEF Typed, GraphOK
  <2> QED BY <2>1, EmptyBagParts
<1>9. FlowIn(k)
  BY <1>2, <1>6, <1>7, <1>8, SnapFlow
<1> QED BY <1>2, <1>5, <1>9, SaveFlow DEF SaveInRun, Save

LEMMA LoopFlow ==
  ASSUME Typed, Steady, NoFanOut, Undisturbed, Flow, ckpt # NoCheckpoint => FlowIn(ckpt), LoopCheckpoint
  PROVE  Flow' /\ (ckpt' # NoCheckpoint => FlowIn(ckpt)')
<1>1. PICK k : k = Snapshot(step, SetToBag(GetNextNodes), pendW, "none", skips)
  OBVIOUS
<1>2. /\ pc = "exec" /\ StepOver /\ err = NoError /\ SaveInRun(k) /\ pendW' = EmptyBag /\ tasks' = NoTasks
      /\ pc' = "plan" /\ step' = step + 1 /\ UNCHANGED <<graph, chan, ran, nextN, err>>
  BY <1>1 DEF LoopCheckpoint, StepOver, graphVars, stateVars
<1>3. /\ Nodes' = Nodes /\ Channels' = Channels /\ JoinFrom' = JoinFrom /\ Edges' = Edges
      /\ Entry' = Entry /\ Compiled' = Compiled
  BY <1>2, GraphSame
<1>4. Quiet /\ Stopped /\ Drained /\ Matched /\ Along /\ Begun /\ Within
  BY DEF Steady, Flow
<1>5. \A n \in Nodes : Left(n) = 0 /\ Left(n)' = 0
  <2>1. DOMAIN tasks' = {} /\ Unfinished = {}
    BY <1>2, <1>4, NothingStopped DEF NoTasks
  <2>2. \A t \in DOMAIN tasks : ~LeftTask(t)
    BY <2>1 DEF Unfinished, LeftTask
  <2> QED BY <2>1, <2>2 DEF Left, One
<1>6. \A n \in Nodes : Ahead(n)' = Ahead(n)
  BY <1>2, <1>5 DEF Ahead
<1>7. Flow'
  <2>1. Along'
    BY <1>2, <1>4, <1>6, AlongSame
  <2>2. Within'
    <3>1. Available' = Available /\ BagToSet(pendW') = {}
      BY <1>2, <1>3, EmptyBagParts DEF Available
    <3> QED BY <1>3, <1>4, <3>1 DEF Within
  <2>3. Begun'
    <3>1. Entry \in Nodes /\ ~Unplanned /\ ~Unplanned'
      BY <1>2, GraphTyped DEF Unplanned, Typed, GraphOK
    <3>2. Ahead(Entry) = 1
      BY <1>2, <1>4, <3>1 DEF Begun, One
    <3> QED BY <1>3, <1>6, <3>1, <3>2 DEF Begun, One
  <2> QED BY <1>2, <2>1, <2>2, <2>3 DEF Flow, Going, Ended
<1>8. /\ k.ran = ran /\ k.seen = [c \in Channels |-> chan[c].seen] /\ k.writes = pendW
      /\ k.next = SetToBag(GetNextNodes) /\ k.step = step /\ k.replayed = replaying
  BY <1>1 DEF Snapshot
<1>9. k.step # -1
  BY <1>8 DEF Typed, GraphOK
<1>10. ASSUME ~Stale(k), NEW n \in Nodes
       PROVE  /\ CopiesOf(n, ExecutableNextNodes(k)) \in Nat
              /\ CopiesOf(n, ExecutableNextNodes(k)) + Kept(k, n)
                   = Left(n) + CopiesOf(n, nextN) + Fired(n) + One(n = Entry /\ Unplanned)
  <2>1. PICK b \in Channels : b = <<"branch", n>> /\ ~IsJoin(b)
    BY CompiledParts
  <2>2. CopiesOf(n, nextN) = 0 /\ ~Unplanned
    BY <1>2, <1>4, EmptyBagParts DEF Quiet, Unplanned
  <2>3. \A c \in Available : Written(pendW, c)
    BY <1>2, <1>4 DEF Drained
  <2>4. CopiesOf(n, ExecutableNextNodes(k)) = 0
    <3>1. CASE pendW = EmptyBag
      <4>1. Available = {}
        BY <2>3, <3>1, EmptyBagParts DEF Written
      <4>2. n \notin GetNextNodes
        BY <4>1 DEF GetNextNodes
      <4> QED BY <1>8, <3>1, <4>2, SetBag DEF ExecutableNextNodes
    <3>2. CASE pendW # EmptyBag
      BY <1>8, <3>2, EmptyBagParts DEF ExecutableNextNodes
    <3> QED BY <3>1, <3>2
  <2>5. Written(pendW, b) => chan[b].avail
    <3> SUFFICES ASSUME Written(pendW, b) PROVE chan[b].avail
      OBVIOUS
    <3>1. PICK w \in BagToSet(pendW) : w[1] = b
      BY DEF Written
    <3>2. pendW # EmptyBag
      BY EmptyBagParts
    <3>3. OwnWrites
      BY <1>4, <1>8, <1>10, <3>2 DEF Stale, Matched
    <3> QED BY <1>2, <2>1, <3>1, <3>3 DEF OwnWrites
  <2>6. Kept(k, n) = Fired(n)
    BY <1>8, <2>1, <2>3, <2>5 DEF Kept, Fired, One, Available
  <2> QED BY <1>5, <2>2, <2>4, <2>6, AheadTyped DEF One
<1>11. FlowIn(k)
  BY <1>2, <1>8, <1>9, <1>10, SnapFlow
<1> QED BY <1>2, <1>7, <1>11, SaveFlow DEF SaveInRun, Save

\* A plan turns each edge written into a run, each complete join into a run for its marks.
LEMMA PlanFlow ==
  ASSUME Typed, Steady, NoFanOut, Undisturbed, Flow, Plan
  PROVE  Flow'
<1>1. Quiet /\ Drained /\ Matched /\ Along /\ Begun /\ Within
  BY DEF Steady, Flow
<1>2. /\ \A n \in Nodes : /\ Left(n) = 0
                          /\ Left(n)' = One(\/ PlanTriggered /\ n \in Triggered
                                            \/ PlanEntry /\ n = Entry
                                            \/ PlanNextNodes /\ CopiesOf(n, nextN) = 1)
                          /\ CopiesOf(n, nextN') = 0
      /\ UNCHANGED <<graph, ran, pendW, known, step, err>>
  BY <1>1, PlanLeft
<1>3. /\ nextN' = EmptyBag /\ (PlanTriggered \/ PlanEntry \/ PlanNextNodes) /\ Available' = {}
      /\ \A c \in Channels : /\ PlanTriggered /\ chan[c].avail => chan'[c].seen = {}
                             /\ ~PlanTriggered \/ ~chan[c].avail => chan'[c].seen = chan[c].seen
      /\ ~PlanTriggered => Available = {}
      /\ PlanTriggered => nextN = EmptyBag /\ step # 0
      /\ PlanEntry => nextN = EmptyBag /\ step = 0
      /\ PlanNextNodes => nextN # EmptyBag
  BY <1>1, PlanParts
<1>4. /\ Nodes' = Nodes /\ Channels' = Channels /\ JoinFrom' = JoinFrom /\ Edges' = Edges
      /\ Entry' = Entry /\ Compiled' = Compiled
  BY <1>2, GraphSame
<1>5. pc = "plan" /\ pc' = IF tasks' = NoTasks THEN "completed" ELSE "start"
  BY DEF Plan
<1>6. \A n : n \in Triggered <=> \E c \in Available : Target(c) = n
  <2>1. \A c \in Available : c \in known /\ ShouldTrigger(c)
    BY <1>1, <1>5 DEF Within, Drained, Matched, ShouldTrigger
  <2> QED BY <2>1 DEF Triggered
<1>7. \A n \in Nodes : Fired(n)' = 0 /\ (Available = {} => Fired(n) = 0)
  <2> TAKE n \in Nodes
  <2>1. <<"branch", n>> \in Channels
    BY CompiledParts
  <2> QED BY <1>3, <1>4, <2>1 DEF Fired, One, Available
<1>8. ASSUME NEW n \in Nodes
          PROVE  /\ Ahead(n)' = ran[n] + Left(n)' /\ Ahead(n) = ran[n] + CopiesOf(n, nextN)
                 /\ ran[n] \in Nat /\ Left(n)' \in Nat /\ CopiesOf(n, nextN) \in Nat
  <2>1. ran[n] \in Nat /\ CopiesOf(n, nextN) \in Nat
    BY AheadTyped
  <2>2. Left(n) = 0 /\ CopiesOf(n, nextN') = 0 /\ ran' = ran
    BY <1>2
  <2>3. Left(n)' = 0 \/ Left(n)' = 1
    BY <1>2, OneTyped
  <2>4. Ahead(n)' = ran[n] + Left(n)' + 0
    BY <2>2 DEF Ahead
  <2>5. Ahead(n) = ran[n] + 0 + CopiesOf(n, nextN)
    BY <2>2 DEF Ahead
  <2> QED BY <2>1, <2>3, <2>4, <2>5
<1>9. ASSUME NEW n \in Nodes, JoinFrom[n] = {}, ~(PlanEntry /\ n = Entry)
      PROVE  Ahead(n)' = Ahead(n) + Fired(n)
  <2>1. CASE PlanTriggered
    <3>1. n \in Triggered <=> chan[<<"branch", n>>].avail
      BY <1>1, <1>6, <1>9, Reached
    <3>2. Left(n)' = Fired(n)
      BY <1>2, <1>3, <1>9, <2>1, <3>1 DEF Fired, One
    <3>3. CopiesOf(n, nextN) = 0
      BY <1>3, <2>1, EmptyBagParts
    <3> QED BY <1>8, <3>2, <3>3
  <2>2. CASE PlanEntry
    <3>1. Left(n)' = 0 /\ CopiesOf(n, nextN) = 0 /\ Fired(n) = 0
      BY <1>2, <1>3, <1>7, <1>9, <2>2, EmptyBagParts DEF One
    <3> QED BY <1>8, <3>1
  <2>3. CASE PlanNextNodes
    <3>1. Left(n)' = One(CopiesOf(n, nextN) = 1) /\ Fired(n) = 0
      BY <1>2, <1>3, <1>7, <2>3 DEF One
    <3>2. CopiesOf(n, nextN) <= 1
      BY <1>1 DEF Quiet
    <3>3. Left(n)' = CopiesOf(n, nextN)
      BY <3>1, <3>2, AheadTyped DEF One
    <3> QED BY <1>8, <3>1, <3>3
  <2> QED BY <1>3, <2>1, <2>2, <2>3
<1>10. ASSUME NEW n \in Nodes, NEW m \in JoinFrom[n]
      PROVE  Ahead(n)' + One(m \in chan'[<<"join", n>>].seen) = Ahead(n) + One(m \in chan[<<"join", n>>].seen)
  <2>1. PICK j \in Channels : j = <<"join", n>> /\ IsJoin(j) /\ Target(j) = n
    BY JoinParts
  <2>2. ~chan[<<"branch", n>>].avail /\ n # Entry
    BY <1>1, Reached, CompiledParts
  <2>3. CASE PlanTriggered
    <3>1. n \in Triggered <=> chan[j].avail
      BY <1>1, <1>6, <2>1, <2>2, Reached
    <3>2. Left(n)' = One(chan[j].avail) /\ CopiesOf(n, nextN) = 0
      BY <1>2, <1>3, <2>2, <2>3, <3>1, EmptyBagParts DEF One
    <3>3. chan[j].avail => m \in chan[j].seen
      BY <2>1 DEF Typed, ChanOK, ChannelsOK, Settled, Satisfied
    <3>4. One(m \in chan[j].seen) = One(chan[j].avail) + One(m \in chan'[j].seen)
      BY <1>3, <2>3, <3>3 DEF One
    <3> QED BY <1>8, <2>1, <3>2, <3>4, OneTyped
  <2>4. CASE PlanEntry
    <3>1. Left(n)' = 0 /\ CopiesOf(n, nextN) = 0 /\ chan'[j].seen = chan[j].seen
      BY <1>2, <1>3, <2>2, <2>4, EmptyBagParts DEF One
    <3> QED BY <1>8, <2>1, <3>1, OneTyped
  <2>5. CASE PlanNextNodes
    <3>1. Left(n)' = One(CopiesOf(n, nextN) = 1) /\ chan'[j].seen = chan[j].seen
      BY <1>2, <1>3, <2>5 DEF One
    <3>2. CopiesOf(n, nextN) <= 1
      BY <1>1 DEF Quiet
    <3>3. Left(n)' = CopiesOf(n, nextN)
      BY <3>1, <3>2, AheadTyped DEF One
    <3> QED BY <1>8, <2>1, <3>1, <3>3, OneTyped
  <2> QED BY <1>3, <2>3, <2>4, <2>5
<1>11. Entry \in Nodes /\ JoinFrom[Entry] = {} /\ Fired(Entry) = 0
  <2>1. Entry \in Nodes
    BY GraphTyped DEF Typed, GraphOK
  <2> QED BY <1>1, <2>1, CompiledParts, Reached DEF Fired, One
<1>12. Ahead(Entry)' = 1
  <2>1. CASE PlanEntry
    <3>1. Unplanned /\ CopiesOf(Entry, nextN) = 0
      BY <1>3, <1>5, <2>1, EmptyBagParts DEF Unplanned
    <3>2. Ahead(Entry) = 0
      BY <1>1, <1>5, <3>1 DEF Begun, One
    <3>4. PICK n \in Nodes : n = Entry
      BY <1>11
    <3>5. ran[n] = 0
      BY <1>8, <3>1, <3>2, <3>4
    <3>6. Left(n)' = 1
      BY <1>2, <2>1, <3>4 DEF One
    <3>7. Ahead(n)' = 1
      BY <1>8, <3>5, <3>6
    <3> QED BY <1>4, <3>4, <3>7
  <2>2. CASE ~PlanEntry
    <3>1. ~Unplanned
      BY <1>3, <1>5, <2>2 DEF Unplanned
    <3>2. Ahead(Entry) = 1
      BY <1>1, <1>5, <3>1 DEF Begun, One
    <3>3. PICK n \in Nodes : n = Entry
      BY <1>11
    <3>4. Ahead(n)' = 1
      BY <1>9, <1>11, <2>2, <3>2, <3>3
    <3> QED BY <1>4, <3>3, <3>4
  <2> QED BY <2>1, <2>2
<1>13. Along'
  <2>1. ASSUME NEW n \in Nodes, NEW m \in JoinFrom[n]
        PROVE  Ahead(n)' + One(m \in chan'[<<"join", n>>].seen) = ran'[m]
    BY <1>1, <1>2, <1>10 DEF Along
  <2>2. ASSUME NEW e \in Edges
        PROVE  Ahead(e[2])' + Fired(e[2])' = ran'[e[1]]
    <3>1. PICK n \in Nodes : n = e[2] /\ JoinFrom[n] = {} /\ n # Entry
      BY CompiledParts
    <3>2. Ahead(n)' = Ahead(n) + Fired(n) /\ Fired(n)' = 0
      BY <1>7, <1>9, <3>1
    <3>3. Ahead(n) + Fired(n) = ran[e[1]]
      BY <1>1, <3>1 DEF Along
    <3>4. Ahead(n) + Fired(n) \in Nat
      BY AheadTyped
    <3> QED BY <1>2, <3>1, <3>2, <3>3, <3>4
  <2>3. ASSUME NEW n \in Nodes
        PROVE  Ahead(n)' + Fired(n)' <= 1
    <3>1. CASE n = Entry
      BY <1>4, <1>7, <1>12, <3>1
    <3>2. CASE n # Entry /\ JoinFrom[n] = {}
      <4>1. Ahead(n)' = Ahead(n) + Fired(n)
        BY <1>9, <3>2
      <4> QED BY <1>1, <1>7, <4>1, AheadTyped DEF Along
    <3>3. CASE JoinFrom[n] # {}
      <4>1. PICK m \in JoinFrom[n] : m \in Nodes
        BY <3>3, JoinParts
      <4>2. Ahead(n)' + One(m \in chan'[<<"join", n>>].seen) = ran[m]
        BY <1>2, <2>1
      <4>3. ran[m] <= 1
        BY <1>1, <4>1, AheadTyped DEF Along, Ahead
      <4>4. Ahead(n)' \in Nat
        BY <1>8
      <4> QED BY <1>7, <4>1, <4>2, <4>3, <4>4, AheadTyped, OneTyped
    <3> QED BY <3>1, <3>2, <3>3
  <2> QED BY <1>4, <2>1, <2>2, <2>3 DEF Along
<1>14. Begun'
  BY <1>5, <1>12 DEF Begun, Unplanned, One
<1>15. Going'
  <2>1. DOMAIN tasks' = {} => tasks' = NoTasks
    BY <1>3 DEF PlanTriggered, PlanEntry, PlanNextNodes, TasksOf, NoTasks
  <2> QED BY <1>5, <2>1 DEF Going
<1>16. Within' /\ Ended'
  BY <1>1, <1>2, <1>3, <1>4, <1>5 DEF Within, Ended, NoTasks
<1> QED BY <1>13, <1>14, <1>15, <1>16 DEF Flow

\* A node that adds its result writes the edges and joins that wait for it.
LEMMA RunFlow ==
  ASSUME Typed, Steady, NoFanOut, Undisturbed, Flow, NEW t \in DOMAIN tasks, RunTask(t)
  PROVE  Flow'
<1>1. Quiet /\ Stopped /\ CutEarly /\ Along /\ Begun /\ Within /\ Going
  BY UndisturbedMeans DEF Steady, Flow
<1>2. PICK a \in Nodes : a = t[1]
  BY DEF Typed, TasksOK, TaskOK
<1>3. /\ UNCHANGED <<graph, nextN, step, pc>> /\ pc = "exec" /\ ran' = [ran EXCEPT ![a] = ran[a] + 1]
      /\ \E o \in Outcomes[a] : ResultState(t, o) \/ ResultGoTo(t, o) \/ ResultFanOut(t, o)
  BY <1>2 DEF RunTask, UNCHANGED_Exec
<1>4. /\ Nodes' = Nodes /\ Channels' = Channels /\ JoinFrom' = JoinFrom /\ Edges' = Edges
      /\ Entry' = Entry /\ Compiled' = Compiled
  BY <1>3, GraphSame
<1>5. /\ Left(a) = 1 /\ Left(a)' = 0
      /\ \A n : n # a => Left(n)' = Left(n)
  BY <1>1, <1>2, TaskLeft
<1>6. PICK o \in Outcomes[a] : ResultState(t, o)
  BY <1>3 DEF Undisturbed, OneWay, ResultGoTo, ResultFanOut
<1>7. /\ chan' = WriteAll(Writers(a), a) /\ pendW' = PendingAll(Writers(a), a)
      /\ tasks' = [tasks EXCEPT ![t] = [st |-> "wrote", to |-> o.to]]
  BY <1>2, <1>6 DEF ResultState, SetTask
<1>8. Writers(a) \subseteq Compiled /\ Writers(a) \subseteq Channels
  BY WritersParts, GraphTyped DEF Typed, GraphOK
<1>9. /\ BagToSet(pendW') = BagToSet(pendW) \cup {<<c, a>> : c \in Writers(a)}
      /\ \A c \in Channels : /\ c \notin Writers(a) => chan'[c] = chan[c]
                             /\ c \in Writers(a) => /\ IsJoin(c) => chan'[c].seen = chan[c].seen \cup {a}
                                                    /\ ~IsJoin(c) => chan'[c].avail
  BY <1>3, <1>7, <1>8, WriteParts
<1>10. ran[a] = 0 /\ ran'[a] = 1 /\ \A n \in Nodes : n # a => ran'[n] = ran[n]
  <2>1. Ahead(a) + Fired(a) <= 1
    BY <1>1 DEF Along
  <2>2. ran[a] + Left(a) + CopiesOf(a, nextN) + Fired(a) <= 1
    BY <2>1 DEF Ahead
  <2>3. ran[a] = 0
    BY <1>5, <2>2, AheadTyped
  <2> QED BY <1>3, <2>3 DEF Typed, StateOK
<1>11. \A n \in Nodes : Ahead(n)' = Ahead(n)
  <2> TAKE n \in Nodes
  <2>1. CASE n = a
    <3>1. ran'[n] + Left(n)' = ran[n] + Left(n)
      BY <1>5, <1>10, <2>1
    <3>2. Ahead(n)' = (ran'[n] + Left(n)') + CopiesOf(n, nextN')
      BY DEF Ahead
    <3>3. Ahead(n) = (ran[n] + Left(n)) + CopiesOf(n, nextN)
      BY DEF Ahead
    <3> QED BY <1>3, <3>1, <3>2, <3>3
  <2>2. CASE n # a
    BY <1>3, <1>5, <1>10, <2>2 DEF Ahead
  <2> QED BY <2>1, <2>2
<1>12. ASSUME NEW e \in Edges
       PROVE  /\ e[1] = a => Ahead(e[2]) = 0 /\ Fired(e[2])' = 1
              /\ e[1] # a => Fired(e[2])' = Fired(e[2])
              /\ e[1] = a => chan'[<<"branch", e[2]>>].avail
  <2>1. PICK n \in Nodes, b \in Channels : n = e[2] /\ b = <<"branch", n>> /\ ~IsJoin(b)
    BY CompiledParts
  <2>2. CASE e[1] = a
    <3>1. Ahead(n) + Fired(n) = 0
      BY <1>1, <1>10, <2>1, <2>2 DEF Along
    <3>2. b \in Writers(a)
      BY <2>1, <2>2 DEF Writers
    <3> QED BY <1>9, <2>1, <2>2, <3>1, <3>2, AheadTyped DEF Fired, One
  <2>3. CASE e[1] # a
    <3>1. \A d \in Edges : d[2] = n => d = e
      BY <2>1, CompiledParts
    <3>2. b \notin Writers(a)
      BY <2>1, <2>3, <3>1 DEF Writers
    <3> QED BY <1>9, <2>1, <2>3, <3>2 DEF Fired, One
  <2> QED BY <2>2, <2>3
<1>13. ASSUME NEW n \in Nodes, \A e \in Edges : e[2] # n
       PROVE  Fired(n)' = Fired(n)
  <2>1. PICK b \in Channels : b = <<"branch", n>>
    BY CompiledParts
  <2>2. b \notin Writers(a)
    BY <1>13, <2>1 DEF Writers
  <2> QED BY <1>9, <2>1, <2>2 DEF Fired, One
<1>14. Along'
  <2>1. ASSUME NEW n \in Nodes
        PROVE  Ahead(n)' + Fired(n)' <= 1
    <3>1. CASE \A e \in Edges : e[2] # n
      BY <1>1, <1>11, <1>13, <3>1 DEF Along
    <3>2. ASSUME NEW e \in Edges, e[2] = n
          PROVE  Ahead(n)' + Fired(n)' <= 1
      <4>1. e[1] = a => Ahead(n)' = 0 /\ Fired(n)' = 1
        BY <1>11, <1>12, <3>2
      <4>2. e[1] # a => Ahead(n)' = Ahead(n) /\ Fired(n)' = Fired(n)
        BY <1>11, <1>12, <3>2
      <4> QED BY <1>1, <4>1, <4>2 DEF Along
    <3> QED BY <3>1, <3>2
  <2>2. ASSUME NEW e \in Edges
        PROVE  Ahead(e[2])' + Fired(e[2])' = ran'[e[1]]
    <3>1. PICK n \in Nodes, x \in Nodes : n = e[2] /\ x = e[1]
      BY CompiledParts
    <3>2. Ahead(n)' = Ahead(n) /\ Ahead(n) + Fired(n) = ran[x]
      BY <1>1, <1>11, <3>1 DEF Along
    <3>3. x = a => Ahead(n) = 0 /\ Fired(n)' = 1
      BY <1>12, <3>1
    <3>4. x # a => Fired(n)' = Fired(n)
      BY <1>12, <3>1
    <3>5. Ahead(n)' + Fired(n)' = ran'[x]
      BY <1>10, <3>2, <3>3, <3>4
    <3> QED BY <3>1, <3>5
  <2>3. ASSUME NEW n \in Nodes, NEW m \in JoinFrom[n]
        PROVE  Ahead(n)' + One(m \in chan'[<<"join", n>>].seen) = ran'[m]
    <3>1. PICK j \in Channels : j = <<"join", n>> /\ IsJoin(j) /\ m \in Nodes
      BY JoinParts
    <3>2. Ahead(n) + One(m \in chan[j].seen) = ran[m]
      BY <1>1, <3>1 DEF Along
    <3>3. CASE m = a
      <4>1. j \in Writers(a)
        BY <3>1, <3>3 DEF Writers
      <4>2. m \in chan'[j].seen
        BY <1>9, <3>1, <3>3, <4>1
      <4>3. One(m \in chan'[j].seen) = 1
        BY <4>2 DEF One
      <4>4. Ahead(n) = 0
        BY <1>10, <3>2, <3>3, AheadTyped, OneTyped
      <4> QED BY <1>10, <1>11, <3>1, <3>3, <4>3, <4>4
    <3>4. CASE m # a
      <4>1. m \in chan'[j].seen <=> m \in chan[j].seen
        BY <1>9, <3>1, <3>4
      <4>2. One(m \in chan'[j].seen) = One(m \in chan[j].seen)
        BY <4>1 DEF One
      <4> QED BY <1>10, <1>11, <3>1, <3>2, <3>4, <4>2
    <3> QED BY <3>3, <3>4
  <2> QED BY <1>4, <2>1, <2>2, <2>3 DEF Along
<1>15. Begun'
  <2>1. Ahead(Entry) = 1
    BY <1>1, <1>3 DEF Begun, Unplanned, One
  <2>2. PICK n \in Nodes : n = Entry
    BY GraphTyped DEF Typed, GraphOK
  <2>3. Ahead(n)' = 1
    BY <1>11, <2>1, <2>2
  <2> QED BY <1>3, <1>4, <2>2, <2>3 DEF Begun, Unplanned, One
<1>16. Within'
  <2>1. \A c \in Available' : c \in Available \/ c \in Writers(a)
    BY <1>4, <1>9 DEF Available
  <2>2. \A w \in BagToSet(pendW') : w \in BagToSet(pendW) \/ w[1] \in Writers(a)
    BY <1>9
  <2> QED BY <1>1, <1>4, <1>8, <2>1, <2>2 DEF Within
<1>17. Going'
  <2> SUFFICES ASSUME NEW u \in DOMAIN tasks', NEW e \in Edges, tasks'[u].st = "wrote", e[1] = u[1]
               PROVE  chan'[<<"branch", e[2]>>].avail
    BY <1>3, <1>4 DEF Going
  <2>1. CASE e[1] = a
    BY <1>12, <2>1
  <2>2. CASE e[1] # a
    <3>1. u # t /\ u \in DOMAIN tasks /\ tasks[u].st = "wrote"
      BY <1>2, <1>7, <2>2
    <3>2. chan[<<"branch", e[2]>>].avail
      BY <1>1, <1>3, <3>1 DEF Going
    <3>3. PICK b \in Channels : b = <<"branch", e[2]>> /\ ~IsJoin(b)
      BY CompiledParts
    <3> QED BY <1>9, <3>2, <3>3
  <2> QED BY <2>1, <2>2
<1>18. Ended'
  BY <1>3 DEF Ended
<1> QED BY <1>14, <1>15, <1>16, <1>17, <1>18 DEF Flow

\* A conditional edge of an undisturbed graph was already written.
LEMMA FinishFlow ==
  ASSUME Typed, Steady, NoFanOut, Undisturbed, Flow, NEW t \in DOMAIN tasks, FinishTask(t)
  PROVE  Flow'
<1>1. Quiet /\ Stopped /\ CutEarly /\ CutExactly /\ Along /\ Begun /\ Within /\ Going
  BY UndisturbedMeans DEF Steady, Flow
<1>2. PICK a \in Nodes : a = t[1]
  BY DEF Typed, TasksOK, TaskOK
<1>3. UNCHANGED <<graph, nextN, step, pc, ran>> /\ pc = "exec" /\ tasks[t].st = "wrote"
  BY DEF FinishTask, UNCHANGED_Exec
<1>4. /\ Nodes' = Nodes /\ Channels' = Channels /\ JoinFrom' = JoinFrom /\ Edges' = Edges
      /\ Entry' = Entry /\ Compiled' = Compiled
  BY <1>3, GraphSame
<1>5. \A n : Left(n)' = Left(n)
  <2>1. ~RunTask(t)
    BY <1>3 DEF RunTask
  <2> QED BY <1>1, <2>1, TaskLeft
<1>6. PICK cs : cs = {<<"branch", m>> : m \in tasks[t].to}
  OBVIOUS
<1>7. /\ chan' = WriteAll(cs, a) /\ pendW' = PendingAll(cs, a)
      /\ \E st : tasks' = [tasks EXCEPT ![t] = [st |-> st, to |-> {}]] /\ st # "wrote"
  <2>1. PICK st : st = (IF NodeBarrier THEN "waiting" ELSE "done")
    OBVIOUS
  <2>2. SetTask(t, st, {}) /\ chan' = WriteAll(cs, a) /\ pendW' = PendingAll(cs, a)
    BY <1>2, <1>6, <2>1 DEF FinishTask
  <2>3. st # "wrote"
    BY <2>1
  <2> QED BY <2>2, <2>3 DEF SetTask
<1>8. \A c \in cs : c \in Compiled /\ c \in Channels /\ ~IsJoin(c) /\ chan[c].avail
  <2> SUFFICES ASSUME NEW m \in tasks[t].to
               PROVE  /\ <<"branch", m>> \in Compiled /\ <<"branch", m>> \in Channels
                      /\ ~IsJoin(<<"branch", m>>) /\ chan[<<"branch", m>>].avail
    BY <1>6
  <2>1. PICK o \in Outcomes[a] : m \in o.to
    BY <1>1, <1>2 DEF Quiet
  <2>2. PICK e \in Edges : e = <<a, m>>
    BY <2>1 DEF Undisturbed, OneWay
  <2>3. chan[<<"branch", m>>].avail
    BY <1>1, <1>2, <1>3, <2>2 DEF Going
  <2> QED BY <2>2, <2>3, CompiledParts
<1>9. /\ BagToSet(pendW') = BagToSet(pendW) \cup {<<c, a>> : c \in cs}
      /\ \A c \in Channels : /\ c \notin cs => chan'[c] = chan[c]
                             /\ c \in cs => chan'[c].avail
  <2>1. cs \subseteq Channels
    BY <1>8
  <2> QED BY <1>3, <1>7, <1>8, <2>1, WriteParts
<1>10. \A c \in Channels : /\ chan'[c].avail = chan[c].avail \/ c \in cs
                           /\ IsJoin(c) => chan'[c] = chan[c]
  BY <1>8, <1>9
<1>11. \A n \in Nodes : Ahead(n)' = Ahead(n) /\ Fired(n)' = Fired(n)
  <2> TAKE n \in Nodes
  <2>1. PICK b \in Channels : b = <<"branch", n>>
    BY CompiledParts
  <2>2. Fired(n)' = Fired(n)
    BY <1>8, <1>9, <2>1 DEF Fired, One
  <2> QED BY <1>3, <1>5, <2>2 DEF Ahead
<1>12. Along'
  <2>1. \A n \in Nodes : Ahead(n)' + Fired(n)' <= 1
    BY <1>1, <1>11 DEF Along
  <2>2. ASSUME NEW e \in Edges
        PROVE  Ahead(e[2])' + Fired(e[2])' = ran'[e[1]]
    <3>1. e[2] \in Nodes
      BY CompiledParts
    <3> QED BY <1>1, <1>3, <1>11, <3>1 DEF Along
  <2>3. ASSUME NEW n \in Nodes, NEW m \in JoinFrom[n]
        PROVE  Ahead(n)' + One(m \in chan'[<<"join", n>>].seen) = ran'[m]
    <3>1. PICK j \in Channels : j = <<"join", n>> /\ IsJoin(j)
      BY JoinParts
    <3>2. chan'[<<"join", n>>].seen = chan[<<"join", n>>].seen
      BY <1>10, <3>1
    <3> QED BY <1>1, <1>3, <1>11, <3>2 DEF Along
  <2> QED BY <1>4, <2>1, <2>2, <2>3 DEF Along
<1>13. Begun'
  <2>1. Ahead(Entry) = 1
    BY <1>1, <1>3 DEF Begun, Unplanned, One
  <2>2. PICK n \in Nodes : n = Entry
    BY GraphTyped DEF Typed, GraphOK
  <2>3. Ahead(n)' = 1
    BY <1>11, <2>1, <2>2
  <2> QED BY <1>3, <1>4, <2>2, <2>3 DEF Begun, Unplanned, One
<1>14. Within'
  <2>1. \A c \in Available' : c \in Available \/ c \in cs
    BY <1>4, <1>9 DEF Available
  <2>2. \A w \in BagToSet(pendW') : w \in BagToSet(pendW) \/ w[1] \in cs
    BY <1>9
  <2> QED BY <1>1, <1>4, <1>8, <2>1, <2>2 DEF Within
<1>15. Going'
  <2> SUFFICES ASSUME NEW u \in DOMAIN tasks', NEW e \in Edges, tasks'[u].st = "wrote", e[1] = u[1]
               PROVE  chan'[<<"branch", e[2]>>].avail
    BY <1>3, <1>4 DEF Going
  <2>1. u # t /\ u \in DOMAIN tasks /\ tasks[u].st = "wrote"
    BY <1>7
  <2>2. chan[<<"branch", e[2]>>].avail
    BY <1>1, <1>3, <2>1 DEF Going
  <2>3. PICK b \in Channels : b = <<"branch", e[2]>>
    BY CompiledParts
  <2> QED BY <1>9, <2>2, <2>3
<1>16. Ended'
  BY <1>3 DEF Ended
<1> QED BY <1>12, <1>13, <1>14, <1>15, <1>16 DEF Flow

\* The steps of a task.
LEMMA TaskFlow ==
  ASSUME Typed, Steady, NoFanOut, Undisturbed, Flow, NEW t \in DOMAIN tasks,
         \/ RunTask(t) \/ FinishTask(t) \/ ReleaseTask(t) \/ InterruptTask(t) \/ FailTask(t)
         \/ FailCondition(t) \/ BarrierTimesOut(t) \/ CancelTask(t)
  PROVE  Flow'
<1>1. Quiet /\ Stopped /\ CutEarly /\ CutExactly /\ Along /\ Begun /\ Within /\ Going
  BY UndisturbedMeans DEF Steady, Flow
<1>2. CASE RunTask(t)
  BY <1>2, RunFlow
<1>3. CASE FinishTask(t)
  BY <1>3, FinishFlow
<1>4. CASE ~RunTask(t) /\ ~FinishTask(t)
  <2>1. UNCHANGED <<graph, chan, ran, pendW, nextN, step, pc>> /\ pc = "exec"
    BY <1>4 DEF ReleaseTask, InterruptTask, FailTask, FailCondition, BarrierTimesOut, CancelTask, StopTask,
                chanVars, UNCHANGED_Exec
  <2>2. /\ Nodes' = Nodes /\ Channels' = Channels /\ Edges' = Edges
        /\ Entry' = Entry /\ Compiled' = Compiled
    BY <2>1, GraphSame
  <2>3. PICK st : tasks' = [tasks EXCEPT ![t] = [st |-> st, to |-> {}]] /\ st # "wrote"
    BY <1>4 DEF ReleaseTask, InterruptTask, FailTask, FailCondition, BarrierTimesOut, CancelTask, StopTask, SetTask
  <2>4. \A n : Left(n)' = Left(n)
    BY <1>1, <1>4, TaskLeft
  <2>5. \A n \in Nodes : Ahead(n)' = Ahead(n)
    BY <2>1, <2>4 DEF Ahead
  <2>6. Along'
    BY <1>1, <2>1, <2>5, AlongSame
  <2>7. Begun'
    <3>1. Ahead(Entry) = 1
      BY <1>1, <2>1 DEF Begun, Unplanned, One
    <3>2. PICK n \in Nodes : n = Entry
      BY GraphTyped DEF Typed, GraphOK
    <3>3. Ahead(n)' = 1
      BY <2>5, <3>1, <3>2
    <3> QED BY <2>1, <2>2, <3>2, <3>3 DEF Begun, Unplanned, One
  <2>8. Within'
    BY <1>1, <2>1, <2>2 DEF Within, Available
  <2>9. Going'
    <3>1. \A u \in DOMAIN tasks' : tasks'[u].st = "wrote" => u \in DOMAIN tasks /\ tasks[u].st = "wrote"
      BY <2>3
    <3> QED BY <1>1, <2>1, <2>2, <3>1 DEF Going
  <2>10. Ended'
    BY <2>1 DEF Ended
  <2> QED BY <2>6, <2>7, <2>8, <2>9, <2>10 DEF Flow
<1> QED BY <1>2, <1>3, <1>4

LEMMA FlowNext ==
  ASSUME Typed, Typed', Steady, Flowing, Clean', Next
  PROVE  Flowing'
<1>1. graph' = graph
  BY GraphStays
<1>2. Undisturbed' = Undisturbed
  BY <1>1, UndisturbedSame
<1> SUFFICES ASSUME Undisturbed
             PROVE  Flow' /\ (ckpt' # NoCheckpoint => FlowIn(ckpt)')
  BY <1>2 DEF Flowing
<1>3. Flow /\ (ckpt # NoCheckpoint => FlowIn(ckpt)) /\ NoFanOut
  BY UndisturbedMeans DEF Flowing
<1>4. ckpt' = ckpt => (ckpt' # NoCheckpoint => FlowIn(ckpt)')
  BY <1>1, <1>3, SaveFlow
<1>5. CASE StartFresh \/ Crash
  <2>1. /\ CleanStep /\ nextN' = EmptyBag /\ pendW' = EmptyBag /\ step' = 0 /\ pc' \in {"idle", "input"}
        /\ chan' = [c \in Channels |-> EmptyChannel] /\ ran' = [n \in Nodes |-> 0] /\ ckpt' = ckpt
    BY <1>5 DEF StartFresh, Crash
  <2> QED BY <1>1, <1>4, <2>1, BlankFlow
<1>6. CASE Resume
  <2>1. ckpt # NoCheckpoint /\ ckpt' = ckpt
    BY <1>6 DEF Resume
  <2> QED BY <1>3, <1>4, <1>6, <2>1, ResumeFlow
<1>7. CASE InputCheckpoint
  BY <1>3, <1>7, InputFlow
<1>8. CASE Plan
  <2>1. ckpt' = ckpt
    BY <1>8 DEF Plan
  <2> QED BY <1>3, <1>4, <1>8, <2>1, PlanFlow
<1>9. CASE OutOfSteps \/ StartStep \/ StepFails \/ RequestPause \/ ForcePause
  <2>1. UNCHANGED <<graph, chan, ran, nextN, tasks, err, pendW, step, ckpt>>
    BY <1>9 DEF OutOfSteps, StartStep, StepFails, RequestPause, ForcePause, graphVars, stateVars, chanVars, taskVars
  <2>2. pc = "start" => \A t \in DOMAIN tasks : tasks[t].st = "todo"
    BY <1>3 DEF Steady, Quiet
  <2>3. \/ pc' = pc
        \/ pc = "plan" /\ pc' = "completed" /\ step >= MaxSteps
        \/ pc = "start" /\ pc' = "exec" /\ \A t \in DOMAIN tasks : tasks[t].st = "todo"
        \/ pc \in {"start", "exec"} /\ pc' \in {"paused", "failed"}
    BY <1>9, <2>2 DEF OutOfSteps, StartStep, StepFails, StepOver, RequestPause, ForcePause
  <2>4. Flow'
    BY <1>3, <2>1, <2>3, StandFlow
  <2> QED BY <1>4, <2>1, <2>4
<1>10. CASE \/ ExternalInterruptBeforeStep \/ StaticInterruptBeforeStep \/ InternalInterrupt \/ ForcedInterrupt
            \/ StaticInterruptAfterStep
  BY <1>3, <1>10, PauseFlow
<1>11. CASE TaskStep
  <2>1. PICK t \in DOMAIN tasks : \/ RunTask(t) \/ FinishTask(t) \/ ReleaseTask(t) \/ InterruptTask(t)
                                  \/ FailTask(t) \/ FailCondition(t) \/ BarrierTimesOut(t) \/ CancelTask(t)
    BY <1>11 DEF TaskStep
  <2>2. ckpt' = ckpt
    BY <2>1 DEF RunTask, FinishTask, ReleaseTask, InterruptTask, FailTask, FailCondition, BarrierTimesOut,
                CancelTask, StopTask, UNCHANGED_Exec
  <2> QED BY <1>3, <1>4, <2>1, <2>2, TaskFlow
<1>12. CASE LoopCheckpoint
  BY <1>3, <1>12, LoopFlow
<1> QED BY <1>5, <1>6, <1>7, <1>8, <1>9, <1>10, <1>11, <1>12
        DEF Next, Execute, Engine, BeforeStep, StepEnd, Environment

LEMMA StutterFlow ==
  ASSUME Typed, Flowing, UNCHANGED vars
  PROVE  Flowing'
<1>1. UNCHANGED <<graph, chan, ran, nextN, tasks, err, pendW, step, ckpt, pc>>
  BY DEF vars, graphVars, stateVars, chanVars, taskVars
<1>2. Undisturbed' = Undisturbed
  BY <1>1, UndisturbedSame
<1> SUFFICES ASSUME Undisturbed
             PROVE  Flow' /\ (ckpt' # NoCheckpoint => FlowIn(ckpt)')
  BY <1>2 DEF Flowing
<1>3. Flow /\ (ckpt # NoCheckpoint => FlowIn(ckpt))
  BY DEF Flowing
<1>4. Flow'
  BY <1>1, <1>3, StandFlow
<1> QED BY <1>1, <1>3, <1>4, SaveFlow

(***************************************************************************)
(* Execute reports completion with one result of every node in the State,  *)
(* however the graph was paused, crashed, lost a checkpoint and was        *)
(* resumed on the way: a graph in which each node is reached by one edge   *)
(* or one join, no task can fail and a pause cuts off no node that has     *)
(* added its result.  An execution that stops at MaxSteps reports          *)
(* completion too and has not run every node.                              *)
(***************************************************************************)
THEOREM CompletedOnceTheorem == Spec /\ []Clean => [](Undisturbed /\ step < MaxSteps => CompletedOnce)
<1>1. Init => Flowing
  BY FlowInit
<1>2. Typed /\ Steady /\ Flowing /\ (Typed /\ Steady)' /\ Clean' /\ [Next]_vars => Flowing'
  BY FlowNext, StutterFlow
<1>3. Typed /\ Flowing => (Undisturbed /\ step < MaxSteps => CompletedOnce)
  <2> SUFFICES ASSUME Typed, Flowing, Undisturbed, step < MaxSteps, pc = "completed", NEW n \in Nodes
               PROVE  ran[n] = 1
    BY DEF CompletedOnce
  <2> QED BY FlowMeans DEF Flowing
<1> QED BY <1>1, <1>2, <1>3, SteadyAlways, PTL DEF Spec
-----------------------------------------------------------------------------
(* Graphs that keep an execution clean, whatever happens to it.            *)

\* Nothing stops or cuts off a step that has begun.
Gentle == BreakAfter = {} /\ ~CanForce /\ \A n \in Nodes : ~MayAsk(n)
Joinless == \A n \in Nodes : JoinFrom[n] = {}
Tame ==
  /\ NoFanOut /\ (\A n \in Nodes : ~MayFail(n)) /\ MaxCrashes + MaxFailedSaves <= 1
  /\ Gentle \/ Joinless

\* It takes a crash or a failed save to resume from writes, and two to resume from them twice.
Spent == crashes + failedSaves
Startable == pc \in {"idle", "failed", "paused"}
Spared ==
  /\ crashes \in Nat /\ failedSaves \in Nat /\ crashes <= MaxCrashes /\ failedSaves <= MaxFailedSaves
  /\ replaying => Spent # 0
  /\ fresh => ckpt # NoCheckpoint
  /\ ckpt # NoCheckpoint => /\ Stale(ckpt) => Spent # 0 /\ ~Startable /\ ~fresh
                            /\ ckpt.writes # EmptyBag /\ Startable => Spent # 0
\* Without joins none is marked or written.
Unmarked == Joinless => /\ \A c \in Channels : IsJoin(c) => chan[c].seen = {}
                        /\ \A w \in BagToSet(pendW) : ~IsJoin(w[1])
Mild(k) == /\ ~ReadyJoin(k)
           /\ Joinless => /\ \A c \in Channels : IsJoin(c) => k.seen[c] = {}
                          /\ \A w \in BagToSet(k.writes) : ~IsJoin(w[1])
           /\ Gentle => \A n \in Nodes : k.owed[n] <= 1
Tamed == Spared /\ Unmarked /\ (ckpt # NoCheckpoint => Mild(ckpt))

LEMMA TameSame ==
  ASSUME graph' = graph
  PROVE  Tame' = Tame /\ Gentle' = Gentle /\ Joinless' = Joinless
<1>1. /\ Nodes' = Nodes /\ JoinFrom' = JoinFrom /\ NoFanOut' = NoFanOut /\ CanForce' = CanForce
      /\ MaxCrashes' = MaxCrashes /\ \A n : MayAsk(n)' = MayAsk(n) /\ MayFail(n)' = MayFail(n)
  BY GraphSame
<1>2. BreakAfter' = BreakAfter /\ MaxFailedSaves' = MaxFailedSaves
  BY DEF BreakAfter, MaxFailedSaves
<1>3. Gentle' = Gentle /\ Joinless' = Joinless
  BY <1>1, <1>2 DEF Gentle, Joinless
<1> QED BY <1>1, <1>2, <1>3 DEF Tame

LEMMA TamedClean ==
  ASSUME Tamed
  PROVE  Clean
BY DEF Tamed, Spared, Mild, Clean

LEMMA TamedInit == Init => Tamed
<1> SUFFICES ASSUME Init PROVE Tamed
  OBVIOUS
<1>1. /\ graph \in Graphs /\ crashes = 0 /\ failedSaves = 0 /\ replaying = FALSE /\ fresh = FALSE /\ ckpt = NoCheckpoint
      /\ pendW = EmptyBag /\ chan = [c \in Channels |-> EmptyChannel]
  BY DEF Init
<1>2. MaxCrashes \in Nat /\ MaxFailedSaves \in Nat
  BY <1>1, GraphAssumption DEF IsGraph, MaxCrashes, MaxFailedSaves
<1> QED BY <1>1, <1>2, EmptyBagParts DEF Tamed, Spared, Unmarked, EmptyChannel

LEMMA MildSame ==
  ASSUME graph' = graph, NEW k, Mild(k)
  PROVE  Mild(k)'
<1>1. Channels' = Channels /\ JoinFrom' = JoinFrom /\ Nodes' = Nodes
  BY GraphSame
<1>2. ReadyJoin(k)' = ReadyJoin(k) /\ Gentle' = Gentle /\ Joinless' = Joinless
  BY <1>1, TameSame DEF ReadyJoin, Satisfied
<1> QED BY <1>1, <1>2 DEF Mild

LEMMA SaveMild ==
  ASSUME graph' = graph, ckpt # NoCheckpoint => Mild(ckpt),
         ckpt' = ckpt \/ \E k : ckpt' = k /\ Mild(k)
  PROVE  ckpt' # NoCheckpoint => Mild(ckpt)'
<1>1. ASSUME NEW k, ckpt' = k, Mild(k)
      PROVE  Mild(ckpt)'
  <2>1. Mild(k)'
    BY <1>1, MildSame
  <2> QED BY <1>1, <2>1 DEF Mild, ReadyJoin
<1>2. CASE ckpt' = ckpt
  <2>1. PICK k : k = ckpt
    OBVIOUS
  <2>2. NoCheckpoint' = NoCheckpoint
    BY DEF NoCheckpoint
  <2> QED BY <1>1, <1>2, <2>1, <2>2
<1>3. CASE \E k : ckpt' = k /\ Mild(k)
  BY <1>1, <1>3
<1> QED BY <1>2, <1>3

\* A complete join is available, and what is available was written.
LEMMA SnapMild ==
  ASSUME Typed, Unmarked, Gentle \/ Joinless, NEW k, k.seen = [c \in Channels |-> chan[c].seen],
         k.writes = EmptyBag \/ k.writes = pendW, Gentle /\ k.writes = EmptyBag => Available = {},
         Gentle => \A n \in Nodes : k.owed[n] <= 1
  PROVE  Mild(k)
<1>1. ~ReadyJoin(k)
  <2> SUFFICES ASSUME NEW c \in Channels, k.writes = EmptyBag, IsJoin(c), chan[c].seen # {},
                      Satisfied(c, chan[c].seen)
               PROVE  FALSE
    BY DEF ReadyJoin
  <2>1. ~Joinless
    BY DEF Unmarked
  <2>2. chan[c].avail
    BY DEF Typed, ChanOK, ChannelsOK, Settled
  <2> QED BY <2>1, <2>2 DEF Available
<1>2. Joinless => /\ \A c \in Channels : IsJoin(c) => k.seen[c] = {}
                  /\ \A w \in BagToSet(k.writes) : ~IsJoin(w[1])
  BY EmptyBagParts DEF Unmarked
<1> QED BY <1>1, <1>2 DEF Mild

\* A step between crashes and saves.
LEMMA KeepSpared ==
  ASSUME Spared, UNCHANGED <<graph, replaying, ckpt, crashes, failedSaves>>, fresh' => fresh,
         Startable' => Startable
  PROVE  Spared'
<1>1. MaxCrashes' = MaxCrashes /\ MaxFailedSaves' = MaxFailedSaves /\ NoCheckpoint' = NoCheckpoint
  BY DEF MaxCrashes, MaxFailedSaves, NoCheckpoint
<1> QED BY <1>1 DEF Spared, Spent, Stale

\* A save that holds no replayed write, or holds the first after a resumption.
LEMMA SaveSpared ==
  ASSUME Typed, Spared, MaxCrashes + MaxFailedSaves <= 1, ~fresh', UNCHANGED <<graph, crashes>>,
         replaying' = replaying \/ replaying' = FALSE,
         NEW k, Stale(k) => replaying /\ ~Startable',
         \/ ckpt' = k /\ failedSaves' = failedSaves /\ (k.writes # EmptyBag => ~Startable')
         \/ ckpt' = ckpt /\ failedSaves < MaxFailedSaves /\ failedSaves' = failedSaves + 1
         \/ ckpt' = ckpt /\ failedSaves' = failedSaves /\ ~Startable'
  PROVE  Spared'
<1>1. /\ MaxCrashes' = MaxCrashes /\ MaxFailedSaves' = MaxFailedSaves /\ NoCheckpoint' = NoCheckpoint
      /\ MaxCrashes \in Nat /\ MaxFailedSaves \in Nat
  BY GraphAssumption DEF MaxCrashes, MaxFailedSaves, NoCheckpoint, Typed, GraphOK, IsGraph
<1>2. /\ crashes \in Nat /\ failedSaves \in Nat /\ crashes <= MaxCrashes /\ failedSaves <= MaxFailedSaves
      /\ replaying => crashes + failedSaves # 0
      /\ ckpt # NoCheckpoint => /\ Stale(ckpt) => crashes + failedSaves # 0
                                /\ ckpt.writes # EmptyBag /\ Startable => crashes + failedSaves # 0
  BY DEF Spared, Spent
<1>3. CASE ckpt' = k /\ failedSaves' = failedSaves /\ (k.writes # EmptyBag => ~Startable')
  <2>1. Stale(ckpt)' <=> Stale(k)
    BY <1>3 DEF Stale
  <2> QED BY <1>1, <1>2, <1>3, <2>1 DEF Spared, Spent
<1>4. CASE ckpt' = ckpt /\ failedSaves < MaxFailedSaves /\ failedSaves' = failedSaves + 1
  <2>1. crashes + failedSaves = 0 /\ failedSaves' \in Nat /\ failedSaves' <= MaxFailedSaves /\ crashes + failedSaves' # 0
    BY <1>1, <1>2, <1>4
  <2>2. ckpt # NoCheckpoint => ~Stale(ckpt)
    BY <1>2, <2>1
  <2>3. Stale(ckpt)' <=> Stale(ckpt)
    BY <1>4 DEF Stale
  <2> QED BY <1>1, <1>2, <1>4, <2>1, <2>2, <2>3 DEF Spared, Spent
<1>5. CASE ckpt' = ckpt /\ failedSaves' = failedSaves /\ ~Startable'
  <2>1. Stale(ckpt)' <=> Stale(ckpt)
    BY <1>5 DEF Stale
  <2> QED BY <1>1, <1>2, <1>5, <2>1 DEF Spared, Spent
<1> QED BY <1>3, <1>4, <1>5

\* The process dies once, and no save fails then.
LEMMA CrashSpared ==
  ASSUME Typed, Spared, MaxCrashes + MaxFailedSaves <= 1, Crash
  PROVE  Spared'
<1>1. /\ MaxCrashes' = MaxCrashes /\ MaxFailedSaves' = MaxFailedSaves /\ NoCheckpoint' = NoCheckpoint
      /\ MaxCrashes \in Nat /\ MaxFailedSaves \in Nat
  BY GraphAssumption DEF Crash, MaxCrashes, MaxFailedSaves, NoCheckpoint, Typed, GraphOK, IsGraph
<1>2. /\ crashes < MaxCrashes /\ crashes' = crashes + 1 /\ failedSaves' = failedSaves /\ ckpt' = ckpt
      /\ replaying' = FALSE /\ fresh' = FALSE
  BY DEF Crash
<1>3. /\ crashes \in Nat /\ failedSaves \in Nat /\ failedSaves <= MaxFailedSaves
      /\ ckpt # NoCheckpoint /\ Stale(ckpt) => crashes + failedSaves # 0
  BY DEF Spared, Spent
<1>4. crashes + failedSaves = 0 /\ crashes' \in Nat /\ crashes' <= MaxCrashes /\ crashes' + failedSaves # 0
  BY <1>1, <1>2, <1>3
<1>5. ckpt # NoCheckpoint => ~Stale(ckpt)
  BY <1>3, <1>4
<1>6. Stale(ckpt)' <=> Stale(ckpt)
  BY <1>2 DEF Stale
<1> QED BY <1>1, <1>2, <1>3, <1>4, <1>5, <1>6 DEF Spared, Spent

LEMMA ResumeSpared ==
  ASSUME Spared, Resume
  PROVE  Spared'
<1>1. /\ ckpt # NoCheckpoint /\ ckpt' = ckpt /\ crashes' = crashes /\ failedSaves' = failedSaves
      /\ pc' = "plan" /\ Startable /\ replaying' = (ckpt.writes # EmptyBag) /\ graph' = graph
  BY DEF Resume, envVars, Startable
<1>2. MaxCrashes' = MaxCrashes /\ MaxFailedSaves' = MaxFailedSaves /\ NoCheckpoint' = NoCheckpoint
  BY <1>1 DEF MaxCrashes, MaxFailedSaves, NoCheckpoint
<1> QED BY <1>1, <1>2 DEF Spared, Spent, Stale, Startable

\* Nodes write joins only along join edges.
LEMMA MarksNext ==
  ASSUME Typed, Steady, NoFanOut, Unmarked, ckpt # NoCheckpoint => Mild(ckpt), Next
  PROVE  Unmarked'
<1>1. graph' = graph
  BY GraphStays
<1>2. Channels' = Channels /\ Joinless' = Joinless
  BY <1>1, GraphSame, TameSame
<1> SUFFICES ASSUME Joinless
             PROVE  /\ \A c \in Channels : IsJoin(c) => chan'[c].seen = {}
                    /\ \A w \in BagToSet(pendW') : ~IsJoin(w[1])
  BY <1>2 DEF Unmarked
<1>3. /\ \A c \in Channels : IsJoin(c) => chan[c].seen = {}
      /\ \A w \in BagToSet(pendW) : ~IsJoin(w[1])
  BY DEF Unmarked
<1>4. CASE UNCHANGED <<chan, pendW>>
  BY <1>3, <1>4
<1>5. CASE StartFresh \/ Crash
  <2>1. chan' = [c \in Channels |-> EmptyChannel] /\ pendW' = EmptyBag
    BY <1>5 DEF StartFresh, Crash
  <2> QED BY <2>1, EmptyBagParts DEF EmptyChannel
<1>6. CASE Resume
  <2>1. /\ chan' = [c \in Channels |-> Replayed(ckpt, c)] /\ pendW' = ckpt.writes /\ ckpt # NoCheckpoint
    BY <1>6 DEF Resume
  <2>2. /\ \A c \in Channels : IsJoin(c) => ckpt.seen[c] = {}
        /\ \A w \in BagToSet(ckpt.writes) : ~IsJoin(w[1])
    BY <2>1 DEF Mild
  <2>3. ASSUME NEW c \in Channels, IsJoin(c)
        PROVE  Replayed(ckpt, c).seen = {}
    <3>1. {w \in BagToSet(ckpt.writes) : w[1] = c} = {}
      BY <2>2, <2>3
    <3>2. Replayed(ckpt, c) = RestoredChannel(ckpt, c)
      BY <3>1 DEF Replayed
    <3> QED BY <2>2, <2>3, <3>2 DEF RestoredChannel
  <2> QED BY <2>1, <2>2, <2>3
<1>7. CASE Plan
  <2>1. Quiet /\ Drained
    BY DEF Steady
  <2>2. pendW' = pendW /\ \A c \in Channels : chan'[c].seen = chan[c].seen \/ chan'[c].seen = {}
    BY <1>7, <2>1, PlanParts DEF Plan
  <2> QED BY <1>3, <2>2
<1>8. ASSUME NEW a \in Nodes, NEW cs \in SUBSET Channels, \A c \in cs : ~IsJoin(c),
             chan' = WriteAll(cs, a), pendW' = PendingAll(cs, a)
      PROVE  /\ \A c \in Channels : IsJoin(c) => chan'[c].seen = {}
             /\ \A w \in BagToSet(pendW') : ~IsJoin(w[1])
  <2>1. /\ BagToSet(pendW') = BagToSet(pendW) \cup {<<c, a>> : c \in cs}
        /\ \A c \in Channels : c \notin cs => chan'[c] = chan[c]
    BY <1>1, <1>8, WriteParts
  <2> QED BY <1>3, <1>8, <2>1
<1>9. CASE TaskStep
  <2>1. PICK t \in DOMAIN tasks : \/ RunTask(t) \/ FinishTask(t) \/ ReleaseTask(t) \/ InterruptTask(t)
                                  \/ FailTask(t) \/ FailCondition(t) \/ BarrierTimesOut(t) \/ CancelTask(t)
    BY <1>9 DEF TaskStep
  <2>2. PICK a \in Nodes : a = t[1]
    BY DEF Typed, TasksOK, TaskOK
  <2>3. CASE RunTask(t)
    <3>1. PICK o \in Outcomes[a] : ResultState(t, o) \/ ResultGoTo(t, o)
      BY <2>2, <2>3 DEF RunTask, ResultFanOut, NoFanOut
    <3>2. CASE ResultState(t, o)
      <4>1. Writers(a) \subseteq Channels /\ \A c \in Writers(a) : ~IsJoin(c)
        BY GraphTyped DEF Typed, GraphOK, Joinless, Writers, IsJoin
      <4> QED BY <1>8, <2>2, <3>2, <4>1 DEF ResultState
    <3>3. CASE ResultGoTo(t, o)
      <4>1. PICK cs : cs = {<<"trigger", m>> : m \in o.to}
        OBVIOUS
      <4>2. o.to \subseteq Nodes
        BY GraphTyped DEF Typed, GraphOK, OutcomeType
      <4>3. cs \subseteq Channels /\ \A c \in cs : ~IsJoin(c)
        BY <4>1, <4>2 DEF Channels, IsJoin
      <4>4. chan' = WriteAll(cs, a) /\ pendW' = PendingAll(cs, a)
        BY <2>2, <3>3, <4>1 DEF ResultGoTo
      <4> QED BY <1>8, <4>3, <4>4
    <3> QED BY <3>1, <3>2, <3>3
  <2>4. CASE FinishTask(t)
    <3>1. PICK cs : cs = {<<"branch", m>> : m \in tasks[t].to}
      OBVIOUS
    <3>2. tasks[t].to \subseteq Nodes
      BY DEF Typed, TasksOK, TaskOK
    <3>3. cs \subseteq Channels /\ \A c \in cs : ~IsJoin(c)
      BY <3>1, <3>2 DEF Channels, IsJoin
    <3>4. chan' = WriteAll(cs, a) /\ pendW' = PendingAll(cs, a)
      BY <2>2, <2>4, <3>1 DEF FinishTask
    <3> QED BY <1>8, <3>3, <3>4
  <2>5. CASE ~RunTask(t) /\ ~FinishTask(t)
    <3>1. UNCHANGED <<chan, pendW>>
      BY <2>1, <2>5 DEF ReleaseTask, InterruptTask, FailTask, FailCondition, BarrierTimesOut, CancelTask,
                        StopTask, chanVars
    <3> QED BY <1>4, <3>1
  <2> QED BY <2>3, <2>4, <2>5
<1>10. CASE LoopCheckpoint
  <2>1. chan' = chan /\ pendW' = EmptyBag
    BY <1>10 DEF LoopCheckpoint
  <2> QED BY <1>3, <2>1, EmptyBagParts
<1>11. CASE \/ InputCheckpoint \/ OutOfSteps \/ BeforeStep \/ InternalInterrupt \/ ForcedInterrupt \/ StepFails
            \/ StaticInterruptAfterStep \/ RequestPause \/ ForcePause
  <2>1. UNCHANGED <<chan, pendW>>
    BY <1>11 DEF InputCheckpoint, OutOfSteps, BeforeStep, ExternalInterruptBeforeStep, StaticInterruptBeforeStep,
                 StartStep, InternalInterrupt, ForcedInterrupt, StepFails, StaticInterruptAfterStep,
                 HandleInterrupt, RequestPause, ForcePause, chanVars
  <2> QED BY <1>4, <2>1
<1> QED BY <1>5, <1>6, <1>7, <1>9, <1>10, <1>11 DEF Next, Execute, Engine, StepEnd, Environment

\* The interrupts of such a graph.
LEMMA PauseMild ==
  ASSUME Typed, Steady, Tame, Unmarked,
         \/ ExternalInterruptBeforeStep \/ StaticInterruptBeforeStep \/ InternalInterrupt \/ ForcedInterrupt
         \/ StaticInterruptAfterStep
  PROVE  \E k : /\ Save(k) /\ Mild(k) /\ k.writes = EmptyBag /\ pc' = "paused" /\ ~fresh'
                /\ UNCHANGED <<graph, replaying, crashes>>
<1>1. NoFanOut /\ Quiet /\ Stopped /\ Drained /\ Untouched
  BY DEF Tame, Steady
<1>2. PICK stp, next, node, sk : HandleInterrupt(stp, next, node, sk) /\ pc \in {"start", "exec"}
  BY <1>1, PauseLists
<1>3. PICK k : k = Snapshot(stp, next, EmptyBag, node, sk)
  OBVIOUS
<1>4. /\ Save(k) /\ pc' = "paused" /\ fresh' = fresh /\ UNCHANGED <<graph, replaying, crashes>>
  BY <1>2, <1>3 DEF HandleInterrupt, graphVars, runVars
<1>5. /\ k.seen = [c \in Channels |-> chan[c].seen] /\ k.writes = EmptyBag /\ k.owed = Owed
  BY <1>3 DEF Snapshot
<1>6. Gentle => pc = "start"
  <2>1. ASSUME Gentle, InternalInterrupt
        PROVE  FALSE
    <3>1. MayAsk(err.node) /\ err.node \in Nodes
      BY <1>1, <2>1 DEF InternalInterrupt, Stopped, Typed, TasksOK
    <3> QED BY <2>1, <3>1 DEF Gentle
  <2>2. ASSUME Gentle, ForcedInterrupt
        PROVE  FALSE
    BY <1>1, <2>2 DEF ForcedInterrupt, Stopped, Gentle
  <2>3. ASSUME Gentle, StaticInterruptAfterStep
        PROVE  FALSE
    BY <2>3 DEF StaticInterruptAfterStep, BreaksAfter, Gentle
  <2> QED BY <2>1, <2>2, <2>3 DEF ExternalInterruptBeforeStep, StaticInterruptBeforeStep
<1>7. Gentle => Available = {} /\ \A n \in Nodes : k.owed[n] <= 1
  <2> SUFFICES ASSUME Gentle PROVE Available = {} /\ \A n \in Nodes : k.owed[n] <= 1
    OBVIOUS
  <2>1. Available = {}
    BY <1>1, <1>6 DEF Drained
  <2>2. \A n \in Nodes : Owed[n] <= 1
    BY <1>1, <1>6, PlannedTasks DEF One
  <2> QED BY <1>5, <2>1, <2>2
<1>8. Mild(k)
  BY <1>5, <1>7, SnapMild DEF Tame
<1> QED BY <1>1, <1>2, <1>4, <1>5, <1>8 DEF Untouched

LEMMA InputMild ==
  ASSUME Typed, Steady, Tame, Unmarked, InputCheckpoint
  PROVE  \E k : /\ SaveInRun(k) /\ Mild(k) /\ k.writes = EmptyBag /\ pc' = "plan" /\ ~fresh'
                /\ UNCHANGED <<graph, replaying, crashes>>
<1>1. NoFanOut /\ Quiet /\ Drained /\ Untouched
  BY DEF Tame, Steady
<1>2. PICK k : k = [Snapshot(-1, SetToBag({Entry}), EmptyBag, "none", skips)
                      EXCEPT !.owed = [n \in Nodes |-> IF n = Entry THEN 1 ELSE 0]]
  OBVIOUS
<1>3. /\ pc = "input" /\ pc' = "plan" /\ SaveInRun(k) /\ fresh' = fresh
      /\ UNCHANGED <<graph, replaying, crashes>>
  BY <1>2 DEF InputCheckpoint, graphVars, runVars
<1>4. /\ k.seen = [c \in Channels |-> chan[c].seen] /\ k.writes = EmptyBag
      /\ k.owed = [n \in Nodes |-> IF n = Entry THEN 1 ELSE 0]
  BY <1>2 DEF Snapshot
<1>5. Available = {} /\ \A n \in Nodes : k.owed[n] <= 1
  BY <1>1, <1>3, <1>4 DEF Drained
<1>6. Mild(k)
  BY <1>4, <1>5, SnapMild DEF Tame
<1> QED BY <1>1, <1>3, <1>4, <1>6 DEF Untouched

LEMMA LoopMild ==
  ASSUME Typed, Steady, Tame, Unmarked, LoopCheckpoint
  PROVE  \E k : /\ SaveInRun(k) /\ Mild(k) /\ (Stale(k) => replaying) /\ pc' = "plan" /\ ~fresh'
                /\ replaying' = FALSE /\ UNCHANGED <<graph, crashes>>
<1>1. NoFanOut /\ Quiet /\ Stopped /\ Drained /\ Matched /\ Untouched
  BY DEF Tame, Steady
<1>2. PICK k : k = Snapshot(step, SetToBag(GetNextNodes), pendW, "none", skips)
  OBVIOUS
<1>3. /\ pc = "exec" /\ StepOver /\ err = NoError /\ SaveInRun(k) /\ pc' = "plan" /\ fresh' = fresh
      /\ replaying' = FALSE /\ UNCHANGED <<graph, crashes>>
  BY <1>2 DEF LoopCheckpoint, StepOver, graphVars
<1>4. /\ k.seen = [c \in Channels |-> chan[c].seen] /\ k.writes = pendW /\ k.owed = Owed /\ k.replayed = replaying
  BY <1>2 DEF Snapshot
<1>5. pendW = EmptyBag => Available = {}
  BY <1>1, <1>3, EmptyBagParts DEF Drained, Written
<1>6. \A n \in Nodes : Owed[n] <= 1
  <2> TAKE n \in Nodes
  <2>1. NodesOf(Unfinished) = {}
    BY <1>1, <1>3, NothingStopped
  <2>2. Owed[n] = One(n \in GetNextNodes) + One(n \in NodesOf(Unfinished))
    BY <1>1, <1>3, StepOwed
  <2> QED BY <2>1, <2>2 DEF One
<1>7. Mild(k)
  BY <1>4, <1>5, <1>6, SnapMild DEF Tame
<1> QED BY <1>1, <1>3, <1>4, <1>7 DEF Untouched, Stale

LEMMA TamedNext ==
  ASSUME Typed, Steady, Tame, Tamed, Next
  PROVE  Tamed'
<1>1. graph' = graph
  BY GraphStays
<1>2. Spared /\ Unmarked /\ (ckpt # NoCheckpoint => Mild(ckpt)) /\ MaxCrashes + MaxFailedSaves <= 1 /\ NoFanOut
  BY DEF Tamed, Tame
<1>3. Unmarked'
  BY <1>2, MarksNext
<1>4. ckpt' = ckpt => (ckpt' # NoCheckpoint => Mild(ckpt)')
  BY <1>1, <1>2, SaveMild
<1>5. Stopped /\ Untouched
  BY <1>2 DEF Steady
<1>6. ASSUME NEW k, SaveInRun(k), Mild(k), Stale(k) => replaying, pc' = "plan", ~fresh',
             replaying' = replaying \/ replaying' = FALSE, crashes' = crashes
      PROVE  Spared' /\ (ckpt' # NoCheckpoint => Mild(ckpt)')
  <2>1. ~Startable'
    BY <1>6 DEF Startable
  <2>2. \/ ckpt' = k /\ failedSaves' = failedSaves
        \/ ckpt' = ckpt /\ failedSaves < MaxFailedSaves /\ failedSaves' = failedSaves + 1
        \/ ckpt' = ckpt /\ failedSaves' = failedSaves
    BY <1>6 DEF SaveInRun, Save
  <2>3. Spared'
    BY <1>1, <1>2, <1>6, <2>1, <2>2, SaveSpared
  <2>4. ckpt' = ckpt \/ ckpt' = k
    BY <2>2
  <2> QED BY <1>1, <1>2, <1>6, <2>3, <2>4, SaveMild
<1>7. CASE \/ ExternalInterruptBeforeStep \/ StaticInterruptBeforeStep \/ InternalInterrupt \/ ForcedInterrupt
           \/ StaticInterruptAfterStep
  <2>1. PICK k : /\ Save(k) /\ Mild(k) /\ k.writes = EmptyBag /\ pc' = "paused" /\ ~fresh'
                 /\ UNCHANGED <<graph, replaying, crashes>>
    BY <1>2, <1>7, PauseMild
  <2>2. ~Stale(k)
    BY <2>1 DEF Stale
  <2>3. \/ ckpt' = k /\ failedSaves' = failedSaves
        \/ ckpt' = ckpt /\ failedSaves < MaxFailedSaves /\ failedSaves' = failedSaves + 1
    BY <2>1 DEF Save
  <2>4. Spared'
    BY <1>2, <2>1, <2>2, <2>3, SaveSpared
  <2>5. ckpt' # NoCheckpoint => Mild(ckpt)'
    BY <1>1, <1>2, <2>1, <2>3, SaveMild
  <2> QED BY <1>3, <2>4, <2>5 DEF Tamed
<1>8. CASE InputCheckpoint
  <2>1. PICK k : /\ SaveInRun(k) /\ Mild(k) /\ k.writes = EmptyBag /\ pc' = "plan" /\ ~fresh'
                 /\ UNCHANGED <<graph, replaying, crashes>>
    BY <1>2, <1>8, InputMild
  <2>2. ~Stale(k)
    BY <2>1 DEF Stale
  <2> QED BY <1>3, <1>6, <2>1, <2>2 DEF Tamed
<1>9. CASE LoopCheckpoint
  <2>1. PICK k : /\ SaveInRun(k) /\ Mild(k) /\ (Stale(k) => replaying) /\ pc' = "plan" /\ ~fresh'
                 /\ replaying' = FALSE /\ UNCHANGED <<graph, crashes>>
    BY <1>2, <1>9, LoopMild
  <2> QED BY <1>3, <1>6, <2>1 DEF Tamed
<1>10. CASE Crash
  <2>1. ckpt' = ckpt
    BY <1>10 DEF Crash
  <2> QED BY <1>2, <1>3, <1>4, <1>10, <2>1, CrashSpared DEF Tamed
<1>11. CASE Resume
  <2>1. ckpt' = ckpt
    BY <1>11 DEF Resume
  <2> QED BY <1>2, <1>3, <1>4, <1>11, <2>1, ResumeSpared DEF Tamed
<1>12. CASE StartFresh
  <2>1. /\ ckpt = NoCheckpoint /\ ckpt' = ckpt /\ replaying' = FALSE
        /\ UNCHANGED <<graph, crashes, failedSaves, fresh>>
    BY <1>12 DEF StartFresh, graphVars, envVars
  <2>2. MaxCrashes' = MaxCrashes /\ MaxFailedSaves' = MaxFailedSaves /\ NoCheckpoint' = NoCheckpoint
    BY <1>1 DEF MaxCrashes, MaxFailedSaves, NoCheckpoint
  <2>3. Spared'
    BY <1>2, <2>1, <2>2 DEF Spared
  <2> QED BY <1>3, <1>4, <2>1, <2>3 DEF Tamed
<1>13. CASE Plan \/ OutOfSteps \/ StartStep \/ TaskStep \/ RequestPause \/ ForcePause
  <2>1. /\ UNCHANGED <<replaying, ckpt, crashes, failedSaves>> /\ (fresh' => fresh)
        /\ pc' = pc \/ pc' \in {"completed", "start", "exec"}
    <3>1. CASE Plan
      BY <3>1 DEF Plan, runVars, envVars
    <3>2. CASE OutOfSteps \/ StartStep
      BY <3>2 DEF OutOfSteps, StartStep, runVars, envVars
    <3>3. CASE RequestPause \/ ForcePause
      BY <3>3 DEF RequestPause, ForcePause, runVars, envVars
    <3>4. CASE TaskStep
      <4>1. PICK t \in DOMAIN tasks : \/ RunTask(t) \/ FinishTask(t) \/ ReleaseTask(t) \/ InterruptTask(t)
                                      \/ FailTask(t) \/ FailCondition(t) \/ BarrierTimesOut(t) \/ CancelTask(t)
        BY <3>4 DEF TaskStep
      <4>2. UNCHANGED_Exec
        BY <4>1 DEF RunTask, FinishTask, ReleaseTask, InterruptTask, FailTask, FailCondition, BarrierTimesOut,
                    CancelTask, StopTask
      <4> QED BY <4>2 DEF UNCHANGED_Exec, runVars, envVars
    <3> QED BY <1>13, <3>1, <3>2, <3>3, <3>4
  <2>2. Startable' => Startable
    BY <2>1 DEF Startable
  <2>3. Spared'
    BY <1>1, <1>2, <2>1, <2>2, KeepSpared
  <2> QED BY <1>3, <1>4, <2>1, <2>3 DEF Tamed
<1>14. ~StepFails
  <2> SUFFICES ASSUME StepFails PROVE FALSE
    OBVIOUS
  <2>1. MayFail(err.node) /\ err.node \in Nodes
    BY <1>5 DEF StepFails, Stopped, Typed, TasksOK
  <2> QED BY <2>1 DEF Tame
<1> QED BY <1>7, <1>8, <1>9, <1>10, <1>11, <1>12, <1>13, <1>14
        DEF Next, Execute, Engine, BeforeStep, StepEnd, Environment

LEMMA StutterTamed ==
  ASSUME Tamed, UNCHANGED vars
  PROVE  Tamed'
<1>1. UNCHANGED <<graph, chan, pendW, replaying, ckpt, crashes, failedSaves, fresh, pc>>
  BY DEF vars, graphVars, chanVars, runVars, envVars
<1>2. Spared'
  BY <1>1, KeepSpared DEF Tamed, Startable
<1>3. Unmarked'
  <2>1. Channels' = Channels /\ Joinless' = Joinless
    BY <1>1, GraphSame, TameSame
  <2> QED BY <1>1, <2>1 DEF Tamed, Unmarked
<1>4. ckpt' # NoCheckpoint => Mild(ckpt)'
  BY <1>1, SaveMild DEF Tamed
<1> QED BY <1>2, <1>3, <1>4 DEF Tamed

\* A tame graph keeps every execution clean.
LEMMA TameAlways == Spec => [](Tame => Typed /\ Steady /\ Tamed)
<1>1. Init => Typed /\ Steady /\ Tamed
  BY InitTyped, SteadyInit, TamedInit
<1>2. Typed /\ (Tame => Steady /\ Tamed) /\ [Next]_vars => (Typed /\ (Tame => Steady /\ Tamed))'
  <2> SUFFICES ASSUME Typed, Tame => Steady /\ Tamed, [Next]_vars
               PROVE  (Typed /\ (Tame => Steady /\ Tamed))'
    OBVIOUS
  <2>1. Typed'
    BY NextTyped, StutterTyped
  <2>2. Tame' = Tame
    BY GraphStays, TameSame
  <2>3. ASSUME Tame, Next
        PROVE  Steady' /\ Tamed'
    <3>1. Tamed'
      BY <2>3, TamedNext
    <3>2. Clean'
      BY <3>1 DEF Tamed, Spared, Mild, Clean
    <3> QED BY <2>1, <2>3, <3>1, <3>2, SteadyNext
  <2>4. ASSUME Tame, UNCHANGED vars
        PROVE  Steady' /\ Tamed'
    BY <2>4, StutterSteady, StutterTamed
  <2> QED BY <2>1, <2>2, <2>3, <2>4
<1> QED BY <1>1, <1>2, PTL DEF Spec

LEMMA CleanAlways == Spec => [](Tame => Clean)
<1>1. Typed /\ Steady /\ Tamed => Clean
  BY TamedClean
<1> QED BY <1>1, TameAlways, PTL

(***************************************************************************)
(* Some graphs keep every execution clean, so that nothing is left to      *)
(* assume about it: no node fans out or fails, at most once the process    *)
(* dies or a save fails, and either no step that has begun is stopped (no  *)
(* breakpoint after a node, no forced pause, no node that asks) or no node *)
(* waits at a join.  On those, resumption repeats and loses nothing, joins *)
(* run once, and completion means one result of every node.                *)
(***************************************************************************)
THEOREM TameGraphsTheorem ==
  Spec => [](Tame => /\ NothingRepeated
                     /\ /\ StaticRoutes \/ MaxCrashes = 0
                        /\ Gentle \/ (AsksAlone /\ (fresh => \A n \in Nodes : ckpt.owed[n] <= 1))
                        => NothingLost
                     /\ OnlyJoined /\ CutEarly => JoinRunsOnce
                     /\ Undisturbed /\ step < MaxSteps => CompletedOnce)
<1> DEFINE Whole == /\ NothingRepeated
                    /\ /\ StaticRoutes \/ MaxCrashes = 0
                       /\ Gentle \/ (AsksAlone /\ (fresh => \A n \in Nodes : ckpt.owed[n] <= 1))
                       => NothingLost
                    /\ OnlyJoined /\ CutEarly => JoinRunsOnce
                    /\ Undisturbed /\ step < MaxSteps => CompletedOnce
<1>1. /\ Tame /\ [Next]_vars => Tame'
      /\ ~Tame /\ [Next]_vars => ~Tame'
  BY GraphStays, TameSame
<1>2. Tame /\ Typed /\ Steady /\ Tamed
      /\ (NoFanOut => NothingRepeated)
      /\ (NoFanOut /\ OnlyJoined /\ CutEarly => JoinRunsOnce)
      /\ (Undisturbed /\ step < MaxSteps => CompletedOnce)
      => Whole
  <2> SUFFICES ASSUME Tame, Typed, Steady, Tamed, StaticRoutes \/ MaxCrashes = 0,
                      Gentle \/ (AsksAlone /\ (fresh => \A n \in Nodes : ckpt.owed[n] <= 1))
               PROVE  NothingLost
    BY DEF Tame
  <2>1. Gentle => AsksAlone /\ (fresh => \A n \in Nodes : ckpt.owed[n] <= 1)
    BY DEF Gentle, AsksAlone, Tamed, Spared, Mild
  <2>2. NoFanOut /\ Clean
    BY TamedClean DEF Tame
  <2> QED BY <2>1, <2>2, SteadyMeans
<1> HIDE DEF Whole
<1>3. Spec => [](Tame => Whole)
  BY <1>1, <1>2, CleanAlways, TameAlways, NothingRepeatedTheorem, JoinRunsOnceTheorem, CompletedOnceTheorem,
     PTL DEF Spec
<1> QED BY <1>3 DEF Whole
=============================================================================
