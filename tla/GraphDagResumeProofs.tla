----------------------- MODULE GraphDagResumeProofs -----------------------
(***************************************************************************)
(* Proofs about GraphDag: what its variables and its checkpoints hold, for *)
(* any graph, and what a resumed execution owes.                           *)
(***************************************************************************)
EXTENDS GraphDagProofs, GraphChannelsProofs

(* Sequences. *)

\* The elements of a finite set in some order, each once.
LEMMA SetToSeqParts ==
  ASSUME NEW S, IsFiniteSet(S)
  PROVE  /\ SetToSeq(S) \in Seq(S)
         /\ DOMAIN SetToSeq(S) = 1..Cardinality(S) /\ Cardinality(S) \in Nat
         /\ \A x \in S : \E i \in DOMAIN SetToSeq(S) : SetToSeq(S)[i] = x
         /\ \A i, j \in DOMAIN SetToSeq(S) : SetToSeq(S)[i] = SetToSeq(S)[j] => i = j
<1> DEFINE N == Cardinality(S)
           f == SetToSeq(S)
<1>1. N \in Nat /\ ExistsBijection(1..N, S)
  BY FS_CardinalityType
<1>2. \E g \in [1..N -> S] : IsInjective(g)
  BY <1>1 DEF ExistsBijection, Bijection, Injection
<1>3. f \in [1..N -> S] /\ IsInjective(f)
  BY <1>2 DEF SetToSeq
<1>4. IsFiniteSet(1..N) /\ Cardinality(1..N) = N
  BY <1>1, FS_Interval
<1>5. f \in Injection(1..N, S)
  BY <1>3 DEF Injection
<1>6. f \in Surjection(1..N, S)
  <2> HIDE DEF f
  <2> QED BY <1>4, <1>5, FS_Injection
<1>7. f \in Seq(S)
  BY <1>1, <1>3
<1>8. DOMAIN f = 1..N
  BY <1>3
<1> QED BY <1>1, <1>3, <1>6, <1>7, <1>8 DEF Surjection, IsInjective

LEMMA SetToSeqEmpty == SetToSeq({}) = <<>>
<1>1. IsFiniteSet({}) /\ Cardinality({}) = 0
  BY FS_EmptySet
<1>2. SetToSeq({}) \in Seq({}) /\ DOMAIN SetToSeq({}) = {}
  BY <1>1, SetToSeqParts
<1> QED BY <1>2, Places

LEMMA CopiesTyped ==
  ASSUME NEW n \in Nodes, NEW k \in Nat
  PROVE  Copies(n, k) \in Seq(Nodes) /\ Len(Copies(n, k)) = k
BY DEF Copies

LEMMA PlannedTyped ==
  ASSUME graph \in Graphs, pendT \in Seq(Nodes)
  PROVE  Planned \in Seq(Nodes)
<1>1. IsFiniteSet(GetNextNodes)
  BY GraphTyped, NextNodesTyped, FS_Subset
<1>2. SetToSeq(GetNextNodes) \in Seq(Nodes)
  BY <1>1, SetToSeqParts, NextNodesTyped
<1> QED BY <1>2 DEF Planned

\* The tasks that wait: none when nothing does.
LEMMA WaitingTyped ==
  ASSUME graph \in Graphs, waiting \in [Nodes -> Nat]
  PROVE  /\ WaitingTasks \in Seq(Nodes)
         /\ (\A n \in Nodes : waiting[n] = 0) => WaitingTasks = <<>>
<1> DEFINE T == UNION {{n} \X (1..waiting[n]) : n \in Nodes}
           ts == SetToSeq(T)
<1>1. IsFiniteSet(T)
  <2> DEFINE f == [n \in Nodes |-> {n} \X (1..waiting[n])]
  <2>1. {f[n] : n \in Nodes} = {{n} \X (1..waiting[n]) : n \in Nodes}
    OBVIOUS
  <2>2. IsFiniteSet({f[n] : n \in Nodes})
    <3>1. DOMAIN f = Nodes
      OBVIOUS
    <3> HIDE DEF f
    <3> QED BY <3>1, GraphTyped, FiniteImage
  <2>3. \A n \in Nodes : IsFiniteSet({n} \X (1..waiting[n]))
    <3> TAKE n \in Nodes
    <3>1. waiting[n] \in Int
      OBVIOUS
    <3>2. IsFiniteSet(1..waiting[n])
      BY <3>1, FS_Interval
    <3>3. IsFiniteSet({n})
      BY FS_Singleton
    <3> QED BY <3>2, <3>3, FS_Product
  <2>4. \A R \in {{n} \X (1..waiting[n]) : n \in Nodes} : IsFiniteSet(R)
    BY <2>3
  <2>5. IsFiniteSet({{n} \X (1..waiting[n]) : n \in Nodes})
    BY <2>1, <2>2
  <2> QED BY <2>4, <2>5, FS_UNION
<1>2. \A t \in T : t[1] \in Nodes
  OBVIOUS
<1>3. WaitingTasks = [i \in DOMAIN ts |-> ts[i][1]]
  BY DEF WaitingTasks
<1>4. ts \in Seq(T) /\ DOMAIN ts = 1..Cardinality(T) /\ Cardinality(T) \in Nat
  <2> HIDE DEF T
  <2> QED BY <1>1, SetToSeqParts
<1>5. \A i \in DOMAIN ts : ts[i] \in T
  <2> HIDE DEF T, ts
  <2> QED BY <1>4
<1>6. WaitingTasks \in Seq(Nodes)
  <2> HIDE DEF T, ts
  <2>1. PICK k \in Nat : DOMAIN ts = 1..k
    BY <1>4
  <2>2. WaitingTasks \in [1..k -> Nodes]
    BY <1>2, <1>3, <1>5, <2>1
  <2> QED BY <2>2
<1>7. ASSUME \A n \in Nodes : waiting[n] = 0
      PROVE  WaitingTasks = <<>>
  <2>1. T = {}
    BY <1>7
  <2>2. ts = <<>>
    <3> HIDE DEF T
    <3> QED BY <2>1, SetToSeqEmpty
  <2> QED BY <1>3, <2>2
<1> QED BY <1>6, <1>7
--------------------------------------------------------------------------------
(* Types.                                                                  *)

Phases == {"idle", "input", "resumed", "loop", "start", "plan", "final", "wait", "select",
           "interrupted", "failed", "completed"}
GraphOK == graph \in Graphs /\ known \subseteq Channels /\ answers \subseteq Nodes /\ pc \in Phases
LoopOK ==
  /\ ready \in Seq(Nodes) /\ inFlight \subseteq Nodes /\ waiting \in [Nodes -> Nat]
  /\ nextStep \in Nat /\ executed \in BOOLEAN
DrainOK ==
  /\ draining \in {"no", "error", "steps", "interrupt"} /\ (draining = "interrupt" <=> intr # NoInterrupt)
  /\ intr.step \in Int /\ intr.step >= -1
  /\ intr.kind \in {"internal", "before"} => intr.node \in Nodes
  /\ paused \in BOOLEAN /\ rerun \in Seq(Nodes)

\* A task, and a result on its way to the loop.
TaskOK(t)   == t.node \in Nodes /\ t.to \subseteq Nodes
ResultOK(r) == r.node \in Nodes /\ r.id \in Nat
WorkOK ==
  /\ Len(done) <= MaxConcurrency /\ \A i \in DOMAIN done : ResultOK(done[i])
  /\ \A i \in DOMAIN work : i \in Nat /\ TaskOK(work[i])
ChanOK  == ChannelsOK(chan) /\ WritesOK(pendW) /\ pendT \in Seq(Nodes)
StateOK == ran \in [Nodes -> Nat] /\ skips \subseteq Nodes
           /\ ext \in BOOLEAN /\ ctx \in {"live", "forced", "canceled"}

\* What a resumed execution relies on in a checkpoint.
CheckpointOK(k) ==
  /\ k.step \in Int /\ k.step >= -1 /\ k.next \in Seq(Nodes) /\ SavedOK(k)
  /\ k.ran \in [Nodes -> Nat] /\ k.skips \subseteq Nodes
CkptOK == ckpt = NoCheckpoint \/ CheckpointOK(ckpt)

Typed == GraphOK /\ LoopOK /\ DrainOK /\ WorkOK /\ ChanOK /\ StateOK /\ CkptOK

\* A step that does not touch a part keeps its type.
LEMMA Frames ==
  ASSUME Typed, graph' = graph
  PROVE  /\ UNCHANGED loopVars => LoopOK'
         /\ UNCHANGED drainVars => DrainOK'
         /\ UNCHANGED workVars => WorkOK'
         /\ UNCHANGED chanVars => ChanOK'
         /\ UNCHANGED <<stateVars, ext, ctx>> => StateOK'
         /\ UNCHANGED ckpt => CkptOK'
         /\ Nodes' = Nodes /\ Channels' = Channels
<1>1. /\ Nodes' = Nodes /\ Channels' = Channels /\ JoinFrom' = JoinFrom
  BY DEF Nodes, Channels, JoinFrom
<1>2. UNCHANGED loopVars => LoopOK'
  BY <1>1 DEF Typed, LoopOK, loopVars
<1>3. UNCHANGED drainVars => DrainOK'
  BY <1>1 DEF Typed, DrainOK, drainVars, NoInterrupt
<1>4. UNCHANGED workVars => WorkOK'
  BY <1>1 DEF Typed, WorkOK, workVars, TaskOK, ResultOK
<1>5. UNCHANGED chanVars => ChanOK'
  BY <1>1 DEF Typed, ChanOK, chanVars, ChannelsOK, WritesOK, ChannelType, Settled, Satisfied
<1>6. UNCHANGED <<stateVars, ext, ctx>> => StateOK'
  BY <1>1 DEF Typed, StateOK, stateVars
<1>7. UNCHANGED ckpt => CkptOK'
  BY <1>1 DEF Typed, CkptOK, CheckpointOK, SavedOK, WritesOK, NoCheckpoint
<1> QED BY <1>1, <1>2, <1>3, <1>4, <1>5, <1>6, <1>7

\* A loop built anew from tasks of the graph.
LEMMA NewLoopTyped ==
  ASSUME GraphOK, graph' = graph, NEW seed \in Seq(Nodes), NEW stp \in Nat, NewLoop(seed, stp)
  PROVE  LoopOK' /\ DrainOK' /\ WorkOK' /\ pendT' = <<>> /\ ext' = FALSE /\ ctx' = "live"
<1>1. Nodes' = Nodes /\ NoInterrupt' = NoInterrupt
  BY DEF Nodes, NoInterrupt
<1>2. LoopOK'
  BY <1>1 DEF NewLoop, LoopOK, None
<1>3. DrainOK'
  <2>1. rerun' \in Seq(Nodes)
    BY DEF NewLoop
  <2>2. intr' = NoInterrupt /\ draining' = "no" /\ paused' = FALSE
    BY DEF NewLoop
  <2>3. intr'.step \in Int /\ intr'.step >= -1 /\ intr'.kind = "none"
    BY <2>2 DEF NoInterrupt
  <2>4. draining' # "interrupt" /\ ~(intr' # NoInterrupt)
    BY <2>2
  <2>5. draining' \in {"no", "error", "steps", "interrupt"} /\ paused' \in BOOLEAN
    BY <2>2
  <2> QED BY <1>1, <2>1, <2>3, <2>4, <2>5 DEF DrainOK
<1>4. WorkOK'
  <2>1. done' = <<>> /\ DOMAIN work' = {}
    BY DEF NewLoop, NoWork
  <2>2. Len(done') = 0 /\ DOMAIN done' = {}
    BY <2>1
  <2> QED BY <2>1, <2>2, DagAssumption DEF WorkOK
<1> QED BY <1>2, <1>3, <1>4 DEF NewLoop

LEMMA InitTyped == Init => Typed
<1> SUFFICES ASSUME Init PROVE Typed
  OBVIOUS
<1>1. graph \in Graphs
  BY DEF Init
<1>2. GraphOK
  BY <1>1, GraphTyped DEF Init, GraphOK, Phases
<1>3. LoopOK /\ StateOK /\ CkptOK
  <2>1. /\ ready = <<>> /\ inFlight = {} /\ waiting = None /\ nextStep = 0 /\ executed = FALSE
        /\ ran = None /\ skips = {} /\ ext = FALSE /\ ctx = "live" /\ ckpt = NoCheckpoint
    BY DEF Init
  <2>2. None \in [Nodes -> Nat]
    BY DEF None
  <2>3. ready \in Seq(Nodes) /\ executed \in BOOLEAN /\ ext \in BOOLEAN
    <3>1. ready = <<>>
      BY <2>1
    <3>2. ready \in Seq(Nodes)
      BY <3>1
    <3>3. executed \in BOOLEAN /\ ext \in BOOLEAN
      BY <2>1, Zenon
    <3> QED BY <3>2, <3>3
  <2>4. LoopOK
    BY <2>1, <2>2, <2>3 DEF LoopOK
  <2>5. StateOK /\ CkptOK
    BY <2>1, <2>2, <2>3 DEF StateOK, CkptOK
  <2> QED BY <2>4, <2>5
<1>4. DrainOK
  <2>1. draining = "no" /\ intr = NoInterrupt /\ paused = FALSE /\ rerun = <<>>
    BY DEF Init
  <2>2. NoInterrupt.step \in Int /\ NoInterrupt.step >= -1 /\ NoInterrupt.kind = "none"
    BY DEF NoInterrupt
  <2>3. rerun \in Seq(Nodes) /\ paused \in BOOLEAN
    <3>1. rerun = <<>>
      BY <2>1
    <3>2. rerun \in Seq(Nodes)
      BY <3>1
    <3>3. paused \in BOOLEAN
      BY <2>1, Zenon
    <3> QED BY <3>2, <3>3
  <2>4. draining \in {"no", "error", "steps", "interrupt"} /\ (draining = "interrupt" <=> intr # NoInterrupt)
    BY <2>1
  <2> QED BY <2>1, <2>2, <2>3, <2>4 DEF DrainOK
<1>5. WorkOK
  <2>1. done = <<>> /\ DOMAIN work = {}
    BY DEF Init, NoWork
  <2>2. Len(done) = 0 /\ DOMAIN done = {}
    BY <2>1
  <2> QED BY <2>1, <2>2, DagAssumption DEF WorkOK
<1>6. ChanOK
  BY <1>1, EmptyOK, EmptyBagOK DEF Init, ChanOK
<1> QED BY <1>2, <1>3, <1>4, <1>5, <1>6 DEF Typed

\* A checkpoint that is taken is one that can be resumed from.
LEMMA SaveTyped ==
  ASSUME Typed, graph' = graph,
         NEW stp \in Int, stp >= -1, NEW next \in Seq(Nodes), NEW writes, WritesOK(writes), NEW node,
         SaveInRun(Snapshot(stp, next, writes, node))
  PROVE  CkptOK'
<1> DEFINE k == Snapshot(stp, next, writes, node)
<1>1. /\ k.step = stp /\ k.next = next /\ k.writes = writes /\ k.ran = ran /\ k.skips = skips
      /\ k.vers = [c \in Channels |-> chan[c].ver] /\ k.seen = [c \in Channels |-> chan[c].seen]
  BY DEF Snapshot
<1>2. /\ k.vers \in [Channels -> Nat] /\ k.seen \in [Channels -> SUBSET Nodes]
      /\ \A c \in Channels : IsJoin(c) \/ k.seen[c] = {}
  BY <1>1 DEF Typed, ChanOK, ChannelsOK, ChannelType, Settled
<1>3. CheckpointOK(k)
  <2> HIDE DEF k
  <2> QED BY <1>1, <1>2 DEF Typed, StateOK, CheckpointOK, SavedOK
<1>4. CASE ckpt' = k
  <2>1. Nodes' = Nodes /\ Channels' = Channels
    BY Frames
  <2> HIDE DEF k
  <2> QED BY <1>3, <1>4, <2>1 DEF CkptOK, CheckpointOK, SavedOK, WritesOK
<1>5. CASE ckpt' = ckpt
  BY <1>5, Frames
<1> QED BY <1>4, <1>5 DEF SaveInRun, Save, saveVars

LEMMA ExecuteTyped ==
  ASSUME Typed, Execute
  PROVE  Typed'
<1>1. GraphOK /\ graph' = graph
  BY DEF Typed, Execute, StartFresh, Resume, graphVars
<1>2. CASE StartFresh
  <2>1. /\ NewLoop(<<Entry>>, 0) /\ chan' = [c \in Channels |-> EmptyChannel] /\ pendW' = EmptyBag
        /\ ran' = None /\ skips' = {} /\ ckpt' = ckpt /\ known' = known /\ answers' = answers
        /\ pc' = "input"
    BY <1>2 DEF StartFresh, graphVars, saveVars
  <2>2. <<Entry>> \in Seq(Nodes)
    BY <1>1, GraphTyped DEF GraphOK
  <2>3. LoopOK' /\ DrainOK' /\ WorkOK' /\ pendT' = <<>> /\ ext' = FALSE /\ ctx' = "live"
    BY <1>1, <2>1, <2>2, NewLoopTyped
  <2>4. Nodes' = Nodes /\ Channels' = Channels /\ CkptOK'
    BY <1>1, <2>1, Frames
  <2>5. ChanOK'
    <3>1. ChannelsOK(chan') /\ WritesOK(pendW')
      BY <1>1, <2>1, EmptyOK, EmptyBagOK DEF GraphOK
    <3> QED BY <1>1, <2>3, <2>4, <3>1
            DEF ChanOK, ChannelsOK, WritesOK, ChannelType, Settled, Satisfied, JoinFrom
  <2>6. StateOK'
    BY <2>1, <2>3, <2>4 DEF StateOK, None
  <2>7. GraphOK'
    BY <1>1, <2>1, <2>4 DEF GraphOK, Phases
  <2> QED BY <2>3, <2>4, <2>5, <2>6, <2>7 DEF Typed
<1>3. CASE Resume
  <2>1. /\ NewLoop(ExecutableNextNodes(ckpt), ckpt.step + 1)
        /\ chan' = [c \in Channels |-> Replayed(ckpt, c)] /\ pendW' = ckpt.writes
        /\ ran' = ckpt.ran /\ skips' = ckpt.skips /\ ckpt' = ckpt /\ known' = known
        /\ answers' = answers \cup ({ckpt.node} \cap Nodes) /\ pc' = "resumed" /\ ckpt # NoCheckpoint
    BY <1>3 DEF Resume, saveVars
  <2>2. CheckpointOK(ckpt)
    BY <2>1 DEF Typed, CkptOK
  <2>3. ExecutableNextNodes(ckpt) \in Seq(Nodes) /\ ckpt.step + 1 \in Nat
    BY <2>2 DEF CheckpointOK, ExecutableNextNodes
  <2>4. LoopOK' /\ DrainOK' /\ WorkOK' /\ pendT' = <<>> /\ ext' = FALSE /\ ctx' = "live"
    BY <1>1, <2>1, <2>3, NewLoopTyped
  <2>5. Nodes' = Nodes /\ Channels' = Channels /\ CkptOK'
    BY <1>1, <2>1, Frames
  <2>6. ChanOK'
    <3>1. ChannelsOK(chan') /\ WritesOK(pendW')
      BY <1>1, <2>1, <2>2, ReplayedOK DEF GraphOK, CheckpointOK, SavedOK
    <3> QED BY <1>1, <2>4, <2>5, <3>1
            DEF ChanOK, ChannelsOK, WritesOK, ChannelType, Settled, Satisfied, JoinFrom
  <2>7. StateOK'
    BY <2>1, <2>2, <2>4, <2>5 DEF StateOK, CheckpointOK
  <2>8. GraphOK'
    BY <1>1, <2>1, <2>5 DEF GraphOK, Phases
  <2> QED BY <2>4, <2>5, <2>6, <2>7, <2>8 DEF Typed
<1> QED BY <1>2, <1>3 DEF Execute

LEMMA EnvironmentTyped ==
  ASSUME Typed, Environment
  PROVE  Typed'
<1>1. GraphOK /\ graph' = graph
  BY DEF Typed, Environment, RequestPause, ForcePause, CancelRun, Crash, UNCHANGED_Env, graphVars
<1>2. CASE Crash
  <2>1. /\ NewLoop(<<>>, 0) /\ chan' = [c \in Channels |-> EmptyChannel] /\ pendW' = EmptyBag
        /\ ran' = None /\ skips' = {} /\ ckpt' = ckpt /\ known' = Compiled /\ answers' = answers
        /\ pc' = "idle"
    BY <1>2 DEF Crash, saveVars
  <2>2. <<>> \in Seq(Nodes)
    OBVIOUS
  <2>3. LoopOK' /\ DrainOK' /\ WorkOK' /\ pendT' = <<>> /\ ext' = FALSE /\ ctx' = "live"
    BY <1>1, <2>1, <2>2, NewLoopTyped
  <2>4. Nodes' = Nodes /\ Channels' = Channels /\ CkptOK'
    BY <1>1, <2>1, Frames
  <2>5. ChanOK'
    <3>1. ChannelsOK(chan') /\ WritesOK(pendW')
      BY <1>1, <2>1, EmptyOK, EmptyBagOK DEF GraphOK
    <3> QED BY <1>1, <2>3, <2>4, <3>1
            DEF ChanOK, ChannelsOK, WritesOK, ChannelType, Settled, Satisfied, JoinFrom
  <2>6. StateOK'
    BY <2>1, <2>3, <2>4 DEF StateOK, None
  <2>7. GraphOK'
    BY <1>1, <2>1, <2>4, GraphTyped DEF GraphOK, Phases
  <2> QED BY <2>3, <2>4, <2>5, <2>6, <2>7 DEF Typed
<1>3. CASE RequestPause \/ ForcePause \/ CancelRun
  <2>1. /\ UNCHANGED <<graphVars, loopVars, drainVars, workVars, chanVars, stateVars, ckpt, pc>>
        /\ ext' = ext \/ ext' = TRUE
        /\ ctx' \in {ctx, "forced", "canceled"}
    BY <1>3 DEF RequestPause, ForcePause, CancelRun, UNCHANGED_Env, saveVars
  <2>2. LoopOK' /\ DrainOK' /\ WorkOK' /\ ChanOK' /\ CkptOK' /\ Nodes' = Nodes /\ Channels' = Channels
    BY <1>1, <2>1, Frames
  <2>3. GraphOK'
    BY <1>1, <2>1, <2>2 DEF GraphOK, graphVars
  <2>4. StateOK'
    <3>1. ext \in BOOLEAN /\ ctx \in {"live", "forced", "canceled"}
      BY DEF Typed, StateOK
    <3>2. ext' \in BOOLEAN
      BY <2>1, <3>1, Zenon
    <3>3. ctx' \in {"live", "forced", "canceled"}
      BY <2>1, <3>1
    <3>4. ran' \in [Nodes' -> Nat] /\ skips' \subseteq Nodes'
      BY <2>1, <2>2 DEF Typed, StateOK, stateVars
    <3> QED BY <3>2, <3>3, <3>4 DEF StateOK
  <2> QED BY <2>2, <2>3, <2>4 DEF Typed
<1> QED BY <1>2, <1>3 DEF Environment

\* The head of a sequence and its tail.
LEMMA HeadTyped ==
  ASSUME NEW S, NEW s \in Seq(S), s # <<>>
  PROVE  Head(s) \in S /\ Tail(s) \in Seq(S)
<1>1. Len(s) \in Nat /\ Len(s) >= 1 /\ DOMAIN s = 1..Len(s) /\ Head(s) = s[1] /\ Tail(s) \in Seq(S)
  BY Places
<1>2. 1 \in DOMAIN s
  BY <1>1
<1>3. s[1] \in S
  BY <1>2
<1> QED BY <1>1, <1>3

LEMMA InterruptTyped ==
  ASSUME NEW k, k # "none", NEW n, NEW stp \in Int, stp >= -1, Interrupted(k, n, stp),
         k \in {"internal", "before"} => n \in Nodes', paused' \in BOOLEAN, rerun' \in Seq(Nodes)'
  PROVE  DrainOK'
<1>1. draining' = "interrupt" /\ intr' = [kind |-> k, node |-> n, step |-> stp]
  BY DEF Interrupted
<1>2. intr'.kind = k /\ intr'.node = n /\ intr'.step = stp /\ NoInterrupt.kind = "none"
  BY <1>1 DEF NoInterrupt
<1>3. intr' # NoInterrupt
  BY <1>2
<1> QED BY <1>1, <1>2, <1>3 DEF DrainOK

LEMMA StartTaskTyped ==
  ASSUME Typed, StartTask
  PROVE  Typed'
<1> DEFINE h == HeadTask
<1>1. /\ pc = "start" /\ draining = "no" /\ ready # <<>> /\ graph' = graph
      /\ UNCHANGED <<graphVars, executed, paused, rerun, done, chanVars, ext, ctx, ckpt, ran>>
  BY DEF StartTask, Scheduling, UNCHANGED_Start, graphVars, envVars, saveVars
<1>2. /\ GraphOK /\ LoopOK /\ DrainOK /\ WorkOK /\ ChanOK /\ StateOK /\ CkptOK
  BY DEF Typed
<1>3. h \in Nodes /\ Tail(ready) \in Seq(Nodes)
  BY <1>1, <1>2, HeadTyped DEF LoopOK, HeadTask
<1>4. Nodes' = Nodes /\ Channels' = Channels /\ ChanOK' /\ CkptOK'
  BY <1>1, Frames
<1>5. ext' \in BOOLEAN /\ paused' \in BOOLEAN /\ rerun' \in Seq(Nodes') /\ executed' \in BOOLEAN
      /\ ran' \in [Nodes' -> Nat] /\ ctx' \in {"live", "forced", "canceled"}
  <2>1. ext \in BOOLEAN /\ paused \in BOOLEAN /\ executed \in BOOLEAN
    BY <1>2, Zenon DEF StateOK, DrainOK, LoopOK
  <2>2. ext' \in BOOLEAN /\ paused' \in BOOLEAN /\ executed' \in BOOLEAN
    BY <1>1, <2>1, Zenon
  <2> QED BY <1>1, <1>2, <1>4, <2>2 DEF StateOK, DrainOK
<1>6. skips' \subseteq Nodes /\ pc' \in {"start", "plan"}
  BY <1>1, <1>2, <1>3 DEF StartTask, StartBehind, StartBreak, StartNoSlot, StartNoStep, Launch, StateOK
<1>7. GraphOK' /\ StateOK'
  BY <1>1, <1>2, <1>4, <1>5, <1>6 DEF GraphOK, StateOK, graphVars, Phases
<1>8. LoopOK'
  <2>1. CASE StartBehind
    <3>1. /\ ready' = Tail(ready) /\ waiting' = [waiting EXCEPT ![h] = @ + 1]
          /\ inFlight' = inFlight /\ nextStep' = nextStep
      BY <2>1 DEF StartBehind
    <3>2. waiting' \in [Nodes -> Nat]
      <4> HIDE DEF h
      <4> QED BY <1>2, <1>3, <3>1 DEF LoopOK
    <3> QED BY <1>2, <1>3, <1>4, <1>5, <3>1, <3>2 DEF LoopOK
  <2>2. CASE StartBreak \/ StartNoSlot \/ StartNoStep
    <3>1. ready' = ready /\ waiting' = waiting /\ inFlight' = inFlight /\ nextStep' = nextStep
      BY <2>2 DEF StartBreak, StartNoSlot, StartNoStep
    <3> QED BY <1>2, <1>4, <1>5, <3>1 DEF LoopOK
  <2>3. CASE Launch
    <3>1. ready' = Tail(ready) /\ waiting' = waiting /\ inFlight' = inFlight \cup {h}
          /\ nextStep' = nextStep + 1
      BY <2>3 DEF Launch
    <3>2. nextStep' \in Nat
      BY <1>2, <3>1 DEF LoopOK
    <3> QED BY <1>2, <1>3, <1>4, <1>5, <3>1, <3>2 DEF LoopOK
  <2> QED BY <2>1, <2>2, <2>3 DEF StartTask
<1>9. DrainOK'
  <2>1. CASE StartBreak
    <3>1. Interrupted("before", h, nextStep)
      BY <2>1 DEF StartBreak
    <3>2. nextStep \in Int /\ nextStep >= -1
      BY <1>2 DEF LoopOK
    <3> QED BY <1>3, <1>4, <1>5, <3>1, <3>2, InterruptTyped
  <2>2. CASE StartNoStep
    <3>1. draining' = "steps" /\ intr' = intr
      BY <2>2 DEF StartNoStep
    <3>2. intr = NoInterrupt
      BY <1>1, <1>2 DEF DrainOK
    <3> QED BY <1>2, <1>4, <1>5, <3>1, <3>2 DEF DrainOK
  <2>3. CASE StartBehind \/ StartNoSlot \/ Launch
    <3>1. draining' = draining /\ intr' = intr
      BY <2>3 DEF StartBehind, StartNoSlot, Launch
    <3> QED BY <1>2, <1>4, <1>5, <3>1 DEF DrainOK
  <2> QED BY <2>1, <2>2, <2>3 DEF StartTask
<1>10. WorkOK'
  <2>1. CASE Launch
    <3>1. work' = [i \in DOMAIN work \cup {nextStep} |->
                     IF i = nextStep THEN [node |-> h, st |-> "todo", res |-> "ok", to |-> {}]
                     ELSE work[i]]
      BY <2>1 DEF Launch
    <3>2. nextStep \in Nat
      BY <1>2 DEF LoopOK
    <3>3. \A i \in DOMAIN work' : i \in Nat /\ TaskOK(work'[i])
      <4> HIDE DEF h
      <4> QED BY <1>2, <1>3, <3>1, <3>2 DEF WorkOK, TaskOK
    <3> QED BY <1>1, <1>2, <1>4, <3>3 DEF WorkOK, TaskOK, ResultOK
  <2>2. CASE ~Launch
    <3>1. work' = work
      BY <2>2 DEF StartTask, StartBehind, StartBreak, StartNoSlot, StartNoStep
    <3> QED BY <1>1, <1>2, <1>4, <3>1 DEF WorkOK, TaskOK, ResultOK
  <2> QED BY <2>1, <2>2
<1> QED BY <1>4, <1>7, <1>8, <1>9, <1>10 DEF Typed

\* What is left to run is a list of nodes.
LEMMA SnapshotTyped ==
  ASSUME Typed, NEW n \in Nodes
  PROVE  /\ SnapshotNextNodes \in Seq(Nodes) /\ WithNode(SnapshotNextNodes, n) \in Seq(Nodes)
         /\ SetToSeq(GetNextNodes) \in Seq(Nodes)
<1>1. ready \o WaitingTasks \o rerun \in Seq(Nodes)
  BY WaitingTyped DEF Typed, GraphOK, LoopOK, DrainOK
<1>2. ASSUME NEW S \in SUBSET GetNextNodes
      PROVE  SetToSeq(S) \in Seq(Nodes)
  <2>1. S \subseteq Nodes /\ IsFiniteSet(Nodes)
    BY NextNodesTyped, GraphTyped DEF Typed, GraphOK
  <2>2. IsFiniteSet(S)
    BY <2>1, FS_Subset
  <2> QED BY <2>1, <2>2, SetToSeqParts
<1>3. SnapshotNextNodes \in Seq(Nodes)
  BY <1>1, <1>2 DEF SnapshotNextNodes
<1>4. WithNode(SnapshotNextNodes, n) \in Seq(Nodes)
  <2>1. PICK s : s = SnapshotNextNodes
    OBVIOUS
  <2> QED BY <1>3, <2>1 DEF WithNode
<1> QED BY <1>2, <1>3, <1>4

LEMMA FinalTyped ==
  ASSUME Typed, TryFinalize
  PROVE  Typed'
<1>1. /\ UNCHANGED <<graphVars, loopVars, drainVars, workVars, chan, pendT, stateVars, ext, ctx>>
      /\ graph' = graph /\ known' = known /\ answers' = answers
      /\ pc' \in Phases /\ pendW' \in {pendW, EmptyBag}
  <2>1. UNCHANGED_Final
    BY DEF TryFinalize, FinalizeInterrupt, FinalizePause, FinalizeDrained, FinalCheckpoint, NotFinal
  <2>2. pc' \in Phases /\ pendW' \in {pendW, EmptyBag}
    BY DEF TryFinalize, FinalizeInterrupt, FinalizePause, FinalizeDrained, FinalCheckpoint, NotFinal, Phases
  <2> QED BY <2>1, <2>2 DEF UNCHANGED_Final, graphVars, envVars
<1>2. /\ GraphOK /\ LoopOK /\ DrainOK /\ WorkOK /\ ChanOK /\ StateOK /\ CkptOK
  BY DEF Typed
<1>3. LoopOK' /\ DrainOK' /\ WorkOK' /\ StateOK' /\ Nodes' = Nodes /\ Channels' = Channels
  BY <1>1, Frames
<1>4. GraphOK'
  BY <1>1, <1>2, <1>3 DEF GraphOK
<1>5. ChanOK'
  <2>1. WritesOK(pendW')
    BY <1>1, <1>2, EmptyBagOK DEF ChanOK
  <2> QED BY <1>1, <1>2, <1>3, <2>1 DEF ChanOK, ChannelsOK, WritesOK, ChannelType, Settled, Satisfied, JoinFrom
<1>6. CkptOK'
  <2>1. nextStep - 1 \in Int /\ nextStep - 1 >= -1 /\ intr.step \in Int /\ intr.step >= -1
    BY <1>2 DEF LoopOK, DrainOK
  <2>2. SnapshotNextNodes \in Seq(Nodes) /\ SetToSeq(GetNextNodes) \in Seq(Nodes)
    BY <1>2, SnapshotTyped, GraphTyped DEF GraphOK
  <2>3. CASE FinalizeInterrupt
    <3> DEFINE next == IF intr.kind \in {"internal", "before"}
                       THEN WithNode(SnapshotNextNodes, intr.node) ELSE SnapshotNextNodes
    <3>1. PICK node : Save(Snapshot(intr.step, next, EmptyBag, node))
      BY <2>3 DEF FinalizeInterrupt
    <3>2. next \in Seq(Nodes)
      BY <1>2, <2>2, SnapshotTyped DEF DrainOK
    <3> HIDE DEF next
    <3>3. SaveInRun(Snapshot(intr.step, next, EmptyBag, node))
      BY <3>1 DEF SaveInRun
    <3> QED BY <1>1, <2>1, <3>2, <3>3, EmptyBagOK, SaveTyped
  <2>4. CASE FinalizePause
    <3>1. SaveInRun(Snapshot(nextStep - 1, SnapshotNextNodes, EmptyBag, "none"))
      BY <2>4 DEF FinalizePause, SaveInRun
    <3> QED BY <1>1, <2>1, <2>2, <3>1, EmptyBagOK, SaveTyped
  <2>5. CASE FinalCheckpoint
    <3>1. \/ SaveInRun(Snapshot(nextStep - 1, SetToSeq(GetNextNodes), pendW, "none"))
          \/ ckpt' = ckpt
      BY <2>5 DEF FinalCheckpoint, saveVars
    <3>2. WritesOK(pendW)
      BY <1>2 DEF ChanOK
    <3> QED BY <1>1, <2>1, <2>2, <3>1, <3>2, SaveTyped, Frames
  <2>6. CASE FinalizeDrained \/ NotFinal
    BY <1>1, <2>6, Frames DEF FinalizeDrained, NotFinal, saveVars
  <2> QED BY <2>3, <2>4, <2>5, <2>6 DEF TryFinalize
<1> QED BY <1>3, <1>4, <1>5, <1>6 DEF Typed

\* planDagTasks: the triggered channels are acknowledged.
LEMMA PlanTyped ==
  ASSUME Typed, graph' = graph, PlanDagTasks, pendW' = pendW
  PROVE  ChanOK'
<1>1. chan' = [c \in Channels |-> IF c \in Available \cap known THEN Acknowledge(c) ELSE chan[c]]
      /\ pendT' = <<>>
  BY DEF PlanDagTasks
<1>2. ChannelsOK(chan')
  BY <1>1, AcknowledgeOK DEF Typed, ChanOK, GraphOK
<1>3. pendT' \in Seq(Nodes)
  BY <1>1
<1>4. Nodes' = Nodes /\ Channels' = Channels
  BY Frames
<1> QED BY <1>2, <1>3, <1>4 DEF Typed, ChanOK, ChannelsOK, WritesOK, ChannelType, Settled, Satisfied, JoinFrom

LEMMA HandleTaskResultTyped ==
  ASSUME Typed, Loose, HandleTaskResult
  PROVE  Typed'
<1> DEFINE r == Head(done)
           woken == Copies(r.node, waiting[r.node])
<1>1. /\ pc \in {"wait", "select"} /\ done # <<>> /\ pc' = "loop"
      /\ done' = Tail(done) /\ inFlight' = inFlight \ {r.node}
      /\ waiting' = [waiting EXCEPT ![r.node] = 0]
      /\ ResultOk(r, woken) \/ ResultError(r, woken)
      /\ UNCHANGED <<graphVars, nextStep, paused, work, pendW, ext, ctx, ckpt, stateVars>>
      /\ graph' = graph
  BY DEF HandleTaskResult, WakeWaiting, envVars, saveVars, graphVars
<1>2. /\ GraphOK /\ LoopOK /\ DrainOK /\ WorkOK /\ ChanOK /\ StateOK /\ CkptOK
  BY DEF Typed
<1>3. /\ done \in Seq(ToSet(done)) /\ Len(done) \in Nat /\ Len(done) >= 1
      /\ DOMAIN done = 1..Len(done) /\ r = done[1]
      /\ DOMAIN Tail(done) = 1..(Len(done) - 1) /\ Len(Tail(done)) = Len(done) - 1
      /\ \A j \in 1..(Len(done) - 1) : Tail(done)[j] = done[j + 1]
  <2>1. PICK S : S = ToSet(done)
    OBVIOUS
  <2>2. done \in Seq(S) /\ done # <<>>
    BY <1>1, <2>1 DEF Loose
  <2>3. Len(Tail(done)) = Len(done) - 1
    BY <2>2
  <2> QED BY <2>1, <2>2, <2>3, Places
<1>4. r.node \in Nodes /\ r.id \in Nat
  <2>1. 1 \in DOMAIN done
    BY <1>3
  <2> QED BY <1>2, <1>3, <2>1 DEF WorkOK, ResultOK
<1> HIDE DEF r
<1>5. woken \in Seq(Nodes) /\ ready \o woken \in Seq(Nodes) /\ ready \o woken \o Planned \in Seq(Nodes)
  <2>1. woken \in Seq(Nodes)
    BY <1>2, <1>4, CopiesTyped DEF LoopOK
  <2>2. Planned \in Seq(Nodes)
    BY <1>2, PlannedTyped DEF GraphOK, ChanOK
  <2> QED BY <1>2, <2>1, <2>2 DEF LoopOK
<1> HIDE DEF woken
<1>6. Nodes' = Nodes /\ Channels' = Channels /\ CkptOK' /\ StateOK'
  BY <1>1, Frames
<1>7. GraphOK'
  BY <1>1, <1>2, <1>6 DEF GraphOK, graphVars, Phases
<1>8. LoopOK'
  <2>1. ready' \in {ready \o woken, ready \o woken \o Planned}
    BY <1>1 DEF ResultOk, ResultError
  <2>2. executed' \in BOOLEAN
    <3>1. executed \in BOOLEAN
      BY <1>2 DEF LoopOK
    <3>2. executed' = TRUE \/ executed' = executed
      BY <1>1 DEF ResultOk, ResultError
    <3> QED BY <3>1, <3>2, Zenon
  <2>3. waiting' \in [Nodes -> Nat]
    BY <1>1, <1>2 DEF LoopOK
  <2> QED BY <1>1, <1>2, <1>5, <1>6, <2>1, <2>2, <2>3 DEF LoopOK
<1>9. DrainOK'
  <2>1. paused' \in BOOLEAN
    <3>1. paused \in BOOLEAN /\ paused' = paused
      BY <1>1, <1>2 DEF DrainOK
    <3> QED BY <3>1, Zenon
  <2>2. rerun' \in Seq(Nodes)
    <3>1. rerun' = rerun \/ rerun' = Append(rerun, r.node)
      BY <1>1 DEF ResultOk, ResultError, RerunNode
    <3> QED BY <1>2, <1>4, <3>1 DEF DrainOK
  <2>3. CASE \E k, n : Interrupted(k, n, r.id) /\ k # "none" /\ n \in Nodes
    BY <1>4, <1>6, <2>1, <2>2, <2>3, InterruptTyped
  <2>4. CASE Interrupted("forced", "none", nextStep - 1)
    <3>1. nextStep - 1 \in Int /\ nextStep - 1 >= -1
      BY <1>2 DEF LoopOK
    <3> QED BY <2>1, <1>6, <2>2, <2>4, <3>1, InterruptTyped
  <2>5. CASE intr' = intr /\ draining' = draining
    BY <1>2, <1>6, <2>1, <2>2, <2>5 DEF DrainOK
  <2>6. CASE intr' = intr /\ draining = "no" /\ draining' = "error"
    BY <1>2, <1>6, <2>1, <2>2, <2>6 DEF DrainOK
  <2>7. \/ \E k, n : Interrupted(k, n, r.id) /\ k # "none" /\ n \in Nodes
        \/ Interrupted("forced", "none", nextStep - 1)
        \/ intr' = intr /\ draining' = draining
        \/ intr' = intr /\ draining = "no" /\ draining' = "error"
    <3>1. CASE ResultOk(r, woken)
      BY <1>4, <3>1 DEF ResultOk
    <3>2. CASE ResultError(r, woken)
      BY <1>4, <3>2 DEF ResultError
    <3> QED BY <1>1, <3>1, <3>2
  <2> QED BY <2>3, <2>4, <2>5, <2>6, <2>7
<1>10. ChanOK'
  <2>1. PlanDagTasks \/ (chan' = chan /\ pendT' = pendT)
    BY <1>1 DEF ResultOk, ResultError
  <2>2. CASE PlanDagTasks
    BY <1>1, <2>2, PlanTyped
  <2>3. CASE chan' = chan /\ pendT' = pendT
    BY <1>1, <2>3, Frames DEF chanVars
  <2> QED BY <2>1, <2>2, <2>3
<1>11. WorkOK'
  <2>1. Len(done') <= MaxConcurrency
    BY <1>1, <1>2, <1>3, DagAssumption DEF WorkOK
  <2>2. \A j \in DOMAIN done' : ResultOK(done'[j])
    <3> TAKE j \in DOMAIN done'
    <3>1. j + 1 \in DOMAIN done /\ done'[j] = done[j + 1]
      BY <1>1, <1>3
    <3> QED BY <1>2, <3>1 DEF WorkOK
  <2> QED BY <1>1, <1>2, <1>6, <2>1, <2>2 DEF WorkOK, TaskOK, ResultOK
<1> QED BY <1>6, <1>7, <1>8, <1>9, <1>10, <1>11 DEF Typed

LEMMA LoopTyped ==
  ASSUME Typed, Loose, Loop
  PROVE  Typed'
<1>1. /\ GraphOK /\ LoopOK /\ DrainOK /\ WorkOK /\ ChanOK /\ StateOK /\ CkptOK
  BY DEF Typed
<1>2. CASE InputCheckpoint
  <2>1. /\ graph' = graph /\ pc' = "loop"
        /\ UNCHANGED <<graphVars, loopVars, drainVars, workVars, chanVars, envVars, stateVars, ext, ctx>>
        /\ SaveInRun(Snapshot(-1, <<Entry>>, EmptyBag, "none"))
    BY <1>2 DEF InputCheckpoint, graphVars, envVars
  <2>2. LoopOK' /\ DrainOK' /\ WorkOK' /\ ChanOK' /\ StateOK' /\ Nodes' = Nodes /\ Channels' = Channels
    BY <2>1, Frames
  <2>3. <<Entry>> \in Seq(Nodes)
    BY <1>1, GraphTyped DEF GraphOK
  <2>4. CkptOK'
    <3>1. PICK stp \in Int : stp = -1
      OBVIOUS
    <3>2. stp >= -1 /\ SaveInRun(Snapshot(stp, <<Entry>>, EmptyBag, "none"))
      BY <2>1, <3>1
    <3> QED BY <2>1, <2>3, <3>2, EmptyBagOK, SaveTyped
  <2>5. GraphOK'
    BY <1>1, <2>1, <2>2 DEF GraphOK, graphVars, Phases
  <2> QED BY <2>2, <2>4, <2>5 DEF Typed
<1>3. CASE MaybeRequestExternalInterrupt \/ StartedAll \/ PollDone
  <2>1. /\ graph' = graph /\ pc' \in {"start", "plan", "select"}
        /\ UNCHANGED <<graphVars, loopVars, draining, intr, rerun, workVars, chanVars, stateVars,
                       ext, ctx, ckpt>>
        /\ paused' = paused \/ paused' = (paused \/ (draining = "no" /\ ext))
    BY <1>3 DEF MaybeRequestExternalInterrupt, StartedAll, PollDone, graphVars, envVars, saveVars, drainVars
  <2>2. LoopOK' /\ WorkOK' /\ ChanOK' /\ StateOK' /\ CkptOK' /\ Nodes' = Nodes /\ Channels' = Channels
    BY <2>1, Frames
  <2>3. GraphOK'
    BY <1>1, <2>1, <2>2 DEF GraphOK, graphVars, Phases
  <2>4. paused' \in BOOLEAN
    <3>1. paused \in BOOLEAN /\ ext \in BOOLEAN
      BY <1>1 DEF DrainOK, StateOK
    <3> QED BY <2>1, <3>1, Zenon
  <2>5. DrainOK'
    BY <1>1, <2>1, <2>2, <2>4 DEF DrainOK
  <2> QED BY <2>2, <2>3, <2>5 DEF Typed
<1>4. CASE PlanIfIdle
  <2>1. /\ graph' = graph /\ pc' = "final"
        /\ UNCHANGED <<graphVars, inFlight, waiting, nextStep, executed, drainVars, workVars, pendW,
                       stateVars, ext, ctx, ckpt>>
        /\ \/ ready' = Planned /\ PlanDagTasks
           \/ UNCHANGED <<ready, chan, pendT>>
    BY <1>4 DEF PlanIfIdle, graphVars, envVars, saveVars
  <2>2. DrainOK' /\ WorkOK' /\ StateOK' /\ CkptOK' /\ Nodes' = Nodes /\ Channels' = Channels
    BY <2>1, Frames
  <2>3. GraphOK'
    BY <1>1, <2>1, <2>2 DEF GraphOK, graphVars, Phases
  <2>4. ready' \in Seq(Nodes)
    BY <1>1, <2>1, PlannedTyped DEF GraphOK, LoopOK, ChanOK
  <2>5. LoopOK'
    BY <1>1, <2>1, <2>2, <2>4 DEF LoopOK
  <2>6. ChanOK'
    BY <2>1, PlanTyped, Frames DEF chanVars
  <2> QED BY <2>2, <2>3, <2>5, <2>6 DEF Typed
<1>5. CASE HandleContextDone
  <2>1. /\ graph' = graph /\ pc' = "loop"
        /\ UNCHANGED <<graphVars, loopVars, paused, rerun, workVars, chanVars, stateVars, ext, ctx, ckpt>>
    BY <1>5 DEF HandleContextDone, graphVars, envVars, saveVars
  <2>2. LoopOK' /\ WorkOK' /\ ChanOK' /\ StateOK' /\ CkptOK' /\ Nodes' = Nodes /\ Channels' = Channels
    BY <2>1, Frames
  <2>3. GraphOK'
    BY <1>1, <2>1, <2>2 DEF GraphOK, graphVars, Phases
  <2>4. paused' \in BOOLEAN /\ rerun' \in Seq(Nodes')
    <3>1. paused \in BOOLEAN /\ rerun \in Seq(Nodes)
      BY <1>1 DEF DrainOK
    <3>2. paused' \in BOOLEAN
      BY <2>1, <3>1, Zenon
    <3> QED BY <2>1, <2>2, <3>1, <3>2
  <2>5. DrainOK'
    <3>1. CASE draining' = draining /\ intr' = intr
      BY <1>1, <2>2, <2>4, <3>1 DEF DrainOK
    <3>2. CASE Interrupted("forced", "none", nextStep - 1)
      <4>1. nextStep - 1 \in Int /\ nextStep - 1 >= -1
        BY <1>1 DEF LoopOK
      <4> QED BY <2>4, <3>2, <4>1, InterruptTyped
    <3>3. CASE draining = "no" /\ draining' = "error" /\ intr' = intr
      BY <1>1, <2>2, <2>4, <3>3 DEF DrainOK
    <3> QED BY <1>5, <3>1, <3>2, <3>3 DEF HandleContextDone
  <2> QED BY <2>2, <2>3, <2>5 DEF Typed
<1> QED BY <1>2, <1>3, <1>4, <1>5, StartTaskTyped, FinalTyped, HandleTaskResultTyped
        DEF Loop, WaitForEvent

\* What an outcome writes is within the graph.
LEMMA OutcomeTyped ==
  ASSUME GraphOK, NEW n \in Nodes, NEW o \in Outcomes[n]
  PROVE  /\ o.to \subseteq Nodes /\ IsFiniteSet(o.to) /\ SetToSeq(o.to) \in Seq(Nodes)
         /\ {<<"trigger", m>> : m \in o.to} \subseteq Channels
<1>1. o \in OutcomeType(Nodes) /\ IsFiniteSet(Nodes)
  BY GraphTyped DEF GraphOK
<1>2. o.to \subseteq Nodes
  BY <1>1 DEF OutcomeType
<1>3. IsFiniteSet(o.to)
  BY <1>1, <1>2, FS_Subset
<1>4. SetToSeq(o.to) \in Seq(Nodes)
  BY <1>2, <1>3, SetToSeqParts
<1> QED BY <1>2, <1>3, <1>4 DEF Channels

\* A worker's write keeps the channels what they are.
LEMMA WriteTyped ==
  ASSUME Typed, graph' = graph, NEW cs \in SUBSET Channels, NEW n \in Nodes,
         chan' = WriteAll(cs, n), pendW' = PendingAll(cs, n), pendT' = pendT
  PROVE  ChanOK'
<1>1. ChannelsOK(chan') /\ WritesOK(pendW')
  BY WriteAllOK, PendingAllOK DEF Typed, ChanOK, GraphOK
<1>2. Nodes' = Nodes /\ Channels' = Channels
  BY Frames
<1> QED BY <1>1, <1>2 DEF Typed, ChanOK, ChannelsOK, WritesOK, ChannelType, Settled, Satisfied, JoinFrom

LEMMA ProgressTyped ==
  ASSUME Typed, graph' = graph, done' = done, NEW i \in DOMAIN work, NEW st, NEW res,
         NEW to \in SUBSET Nodes, Progress(i, st, res, to)
  PROVE  WorkOK'
<1>1. work' = [work EXCEPT ![i] = [node |-> @.node, st |-> st, res |-> res, to |-> to]]
  BY DEF Progress
<1>2. /\ \A j \in DOMAIN work : j \in Nat /\ TaskOK(work[j])
  BY DEF Typed, WorkOK
<1>3. /\ DOMAIN work' = DOMAIN work
      /\ \A j \in DOMAIN work : j # i => work'[j] = work[j]
      /\ work'[i] = [node |-> work[i].node, st |-> st, res |-> res, to |-> to]
  BY <1>1
<1>4. \A j \in DOMAIN work' : j \in Nat /\ TaskOK(work'[j])
  BY <1>2, <1>3 DEF TaskOK
<1>5. Nodes' = Nodes
  BY Frames
<1> QED BY <1>4, <1>5 DEF Typed, WorkOK, TaskOK, ResultOK

LEMMA WorkerTyped ==
  ASSUME Typed, Loose, NEW i \in DOMAIN work, Worker(i)
  PROVE  Typed'
<1> DEFINE n == work[i].node
<1>1. /\ GraphOK /\ LoopOK /\ DrainOK /\ WorkOK /\ ChanOK /\ StateOK /\ CkptOK
  BY DEF Typed
<1>2. /\ UNCHANGED <<graph, answers, loopVars, drainVars, ext, ctx, ckpt, skips, pc>> /\ graph' = graph
  <2>1. UNCHANGED_Work
    BY DEF Worker, RunWorker, FinishWorker, ReleaseBarrier, InterruptWorker, FailWorker, BarrierTimesOut,
           CancelWorker, ReleaseWorker, StopWorker, SendDone
  <2> QED BY <2>1 DEF UNCHANGED_Work, envVars, saveVars
<1>3. n \in Nodes /\ work[i].to \subseteq Nodes /\ i \in Nat
  BY <1>1 DEF WorkOK, TaskOK
<1> HIDE DEF n
<1>4. Nodes' = Nodes /\ Channels' = Channels /\ LoopOK' /\ DrainOK' /\ CkptOK'
  BY <1>2, Frames
<1>5. CASE RunWorker(i)
  <2>1. PICK o \in Outcomes[n] : ResultState(i, o) \/ ResultGoTo(i, o) \/ ResultFanOut(i, o)
    BY <1>5 DEF RunWorker, n
  <2>2. ran' = [ran EXCEPT ![n] = @ + 1] /\ sem' = sem /\ done' = done
    BY <1>5 DEF RunWorker, n
  <2>3. StateOK'
    BY <1>1, <1>2, <1>3, <1>4, <2>2 DEF StateOK
  <2>4. /\ o.to \subseteq Nodes /\ SetToSeq(o.to) \in Seq(Nodes)
        /\ {<<"trigger", m>> : m \in o.to} \subseteq Channels
    BY <1>1, <1>3, OutcomeTyped
  <2>5. WorkOK'
    <3>1. PICK to \in {{}, o.to} : Progress(i, "wrote", "ok", to)
      BY <2>1 DEF ResultState, ResultGoTo, ResultFanOut
    <3> QED BY <1>2, <2>2, <2>4, <3>1, ProgressTyped
  <2>6. known' \subseteq Channels
    BY <1>1, <2>1, <2>4 DEF ResultState, ResultGoTo, ResultFanOut, GraphOK
  <2>7. ChanOK'
    <3>1. CASE ResultState(i, o)
      <4>1. chan' = WriteAll(Writers(n), n) /\ pendW' = PendingAll(Writers(n), n) /\ pendT' = pendT
        BY <3>1 DEF ResultState, n
      <4>2. Writers(n) \in SUBSET Channels
        BY <1>1, <1>3, GraphTyped DEF GraphOK
      <4> QED BY <1>2, <1>3, <4>1, <4>2, WriteTyped
    <3>2. CASE ResultGoTo(i, o)
      <4>1. PICK cs \in SUBSET Channels :
              chan' = WriteAll(cs, n) /\ pendW' = PendingAll(cs, n) /\ pendT' = pendT
        BY <2>4, <3>2 DEF ResultGoTo, n
      <4> QED BY <1>2, <1>3, <4>1, WriteTyped
    <3>3. CASE ResultFanOut(i, o)
      <4>1. pendT' = pendT \o SetToSeq(o.to) /\ chan' = chan /\ pendW' = pendW
        BY <3>3 DEF ResultFanOut
      <4>2. pendT' \in Seq(Nodes)
        BY <1>1, <2>4, <4>1 DEF ChanOK
      <4> QED BY <1>1, <1>2, <1>4, <4>1, <4>2
              DEF ChanOK, ChannelsOK, WritesOK, ChannelType, Settled, Satisfied, JoinFrom
    <3> QED BY <2>1, <3>1, <3>2, <3>3
  <2>8. GraphOK'
    BY <1>1, <1>2, <1>4, <2>6 DEF GraphOK
  <2> QED BY <1>4, <2>3, <2>5, <2>7, <2>8 DEF Typed
<1>6. CASE FinishWorker(i)
  <2>1. PICK cs, st : /\ cs = {<<"branch", m>> : m \in work[i].to} /\ Progress(i, st, "ok", {})
                      /\ chan' = WriteAll(cs, n) /\ pendW' = PendingAll(cs, n) /\ known' = known \cup cs
                      /\ UNCHANGED <<ran, pendT, sem, done>>
    BY <1>6 DEF FinishWorker, n
  <2>2. cs \in SUBSET Channels
    BY <1>3, <2>1 DEF Channels
  <2>3. ChanOK' /\ WorkOK'
    BY <1>2, <1>3, <2>1, <2>2, WriteTyped, ProgressTyped
  <2>4. StateOK' /\ GraphOK'
    BY <1>1, <1>2, <1>4, <2>1, <2>2 DEF StateOK, GraphOK
  <2> QED BY <1>4, <2>3, <2>4 DEF Typed
<1>7. ASSUME UNCHANGED <<known, ran, chanVars>>, WorkOK'
      PROVE  Typed'
  <2>1. ChanOK'
    BY <1>2, <1>7, Frames
  <2>2. StateOK' /\ GraphOK'
    BY <1>1, <1>2, <1>4, <1>7 DEF StateOK, GraphOK
  <2> QED BY <1>4, <1>7, <2>1, <2>2 DEF Typed
<1>8. CASE ReleaseBarrier(i) \/ ReleaseWorker(i)
  <2>1. PICK st, res : Progress(i, st, res, {}) /\ UNCHANGED <<known, ran, chanVars, done>>
    BY <1>8 DEF ReleaseBarrier, ReleaseWorker
  <2>2. WorkOK'
    BY <1>2, <2>1, ProgressTyped
  <2> QED BY <1>7, <2>1, <2>2
<1>9. CASE InterruptWorker(i) \/ FailWorker(i) \/ BarrierTimesOut(i) \/ CancelWorker(i)
  <2>1. PICK res : StopWorker(i, res)
    BY <1>9 DEF InterruptWorker, FailWorker, BarrierTimesOut, CancelWorker
  <2>2. Progress(i, "ended", res, {}) /\ UNCHANGED <<known, ran, chanVars, done>>
    BY <2>1 DEF StopWorker
  <2>3. WorkOK'
    BY <1>2, <2>2, ProgressTyped
  <2> QED BY <1>7, <2>2, <2>3
<1>10. CASE SendDone(i)
  <2> DEFINE r == [id |-> i, node |-> n, res |-> work[i].res]
  <2>1. /\ Len(done) < MaxConcurrency /\ done' = Append(done, r)
        /\ work' = [j \in DOMAIN work \ {i} |-> work[j]]
        /\ UNCHANGED <<known, ran, chanVars>>
    BY <1>10 DEF SendDone, n
  <2>2. ResultOK(r)
    BY <1>3 DEF ResultOK
  <2>3. PICK S : done \in Seq(S) /\ r \in S
    <3>1. done \in Seq(ToSet(done) \cup {r})
      BY DEF Loose
    <3> QED BY <3>1
  <2> HIDE DEF r
  <2>4. /\ Len(done) \in Nat /\ Len(done') = Len(done) + 1 /\ DOMAIN done' = 1..(Len(done) + 1)
        /\ DOMAIN done = 1..Len(done) /\ done'[Len(done) + 1] = r
        /\ \A j \in DOMAIN done : done'[j] = done[j]
    BY <2>1, <2>3
  <2>5. \A j \in DOMAIN done' : ResultOK(done'[j])
    <3> TAKE j \in DOMAIN done'
    <3>1. j \in DOMAIN done \/ j = Len(done) + 1
      BY <2>4
    <3> QED BY <1>1, <2>2, <2>4, <3>1 DEF WorkOK
  <2>6. Len(done') <= MaxConcurrency
    BY <2>1, <2>4, DagAssumption
  <2>7. \A j \in DOMAIN work' : j \in Nat /\ TaskOK(work'[j])
    BY <1>1, <2>1 DEF WorkOK
  <2>8. WorkOK'
    BY <1>4, <2>5, <2>6, <2>7 DEF WorkOK, TaskOK, ResultOK
  <2> QED BY <1>7, <2>1, <2>8
<1> QED BY <1>5, <1>6, <1>8, <1>9, <1>10 DEF Worker

LEMMA StepTyped ==
  Typed /\ IInv /\ [Next]_vars => Typed'
<1> SUFFICES ASSUME Typed, IInv, [Next]_vars PROVE Typed'
  OBVIOUS
<1>1. Loose
  BY DEF IInv
<1>2. CASE Workers
  BY <1>1, <1>2, WorkerTyped DEF Workers
<1>3. CASE UNCHANGED vars
  <2>1. /\ graph' = graph
        /\ UNCHANGED <<graphVars, loopVars, drainVars, workVars, chanVars, stateVars, ext, ctx, ckpt, pc>>
    BY <1>3 DEF vars, graphVars, envVars, saveVars
  <2>2. /\ LoopOK' /\ DrainOK' /\ WorkOK' /\ ChanOK' /\ StateOK' /\ CkptOK' /\ Nodes' = Nodes
        /\ Channels' = Channels
    BY <2>1, Frames
  <2>3. GraphOK'
    BY <2>1, <2>2 DEF Typed, GraphOK, graphVars
  <2> QED BY <2>2, <2>3 DEF Typed
<1> QED BY <1>1, <1>2, <1>3, ExecuteTyped, LoopTyped, EnvironmentTyped DEF Next

\* Every variable and every checkpoint keeps its type.
THEOREM TypesInductive == Spec => []Typed
BY InitTyped, StepTyped, Inductive, PTL DEF Spec

\* The loop's queues, counters and channels and the workers' results keep their types for every
\* graph: slots stay within MaxConcurrency, results within their buffer, and workers are
\* numbered by the steps already taken.
THEOREM TypeCorrect == Spec => []TypeOK
<1>1. Typed /\ IInv => TypeOK
  <2> SUFFICES ASSUME Typed, IInv PROVE TypeOK
    OBVIOUS
  <2>1. sem \in 0..MaxConcurrency
    BY FS_CardinalityType, DagAssumption DEF IInv, Slots
  <2>2. DOMAIN work \subseteq 0..(nextStep - 1)
    BY DEF Typed, WorkOK, LoopOK, IInv, Loose
  <2>3. chan \in [Channels -> [ver : Nat, avail : BOOLEAN, seen : SUBSET Nodes]]
    BY DEF Typed, ChanOK, ChannelsOK, ChannelType
  <2>4. /\ GraphOK /\ LoopOK /\ DrainOK /\ WorkOK /\ ChanOK /\ StateOK
    BY DEF Typed
  <2>5. executed \in BOOLEAN /\ paused \in BOOLEAN /\ ext \in BOOLEAN
    BY <2>4 DEF LoopOK, DrainOK, StateOK
  <2> QED BY <2>1, <2>2, <2>3, <2>4, <2>5
          DEF TypeOK, GraphOK, LoopOK, DrainOK, WorkOK, ChanOK, WritesOK, StateOK, Phases
<1> QED BY <1>1, TypesInductive, Inductive, PTL
--------------------------------------------------------------------------------
(* What is owed: every task that was cut off is accounted for.             *)

\* A node whose task ended with an error that the loop has not heard of.
Cut(n) == IF \/ \E i \in DOMAIN work : work[i].node = n /\ work[i].res # "ok"
             \/ \E i \in DOMAIN done : done[i].node = n /\ done[i].res # "ok"
          THEN 1 ELSE 0

\* The node whose question stopped the execution is not in rerun.
Asked(n) == IF intr.kind = "internal" /\ intr.node = n THEN 1 ELSE 0
StoppedOK ==
  /\ stopped \in [Nodes -> Nat]
  /\ \A i \in DOMAIN work : work[i].st \in {"todo", "wrote", "waiting"} => work[i].res = "ok"
  /\ draining = "no" => rerun = <<>>
  /\ draining \in {"no", "interrupt"} =>
       \A n \in Nodes : stopped[n] = Count(n, rerun) + Asked(n) + Cut(n)

\* The task a breakpoint stopped stays queued.
BeforeOK == draining = "interrupt" /\ intr.kind = "before" => intr.node \in ToSet(ready)

\* Join channels are compiled; routes taken while running add no others.
JoinsOK == Compiled \subseteq known /\ \A c \in known : IsJoin(c) => c \in Compiled

NoFanOut == \A n \in Nodes : \A o \in Outcomes[n] : o.kind # "fan"
FanOK == NoFanOut => pendT = <<>>

\* A loop that has only just been built.
Idle == waiting = None /\ pendT = <<>> /\ stopped = None /\ work = NoWork
InputOK == pc = "input" => Idle /\ ready = <<Entry>> /\ \A c \in Channels : chan[c] = EmptyChannel
ResumedOK ==
  pc = "resumed" => /\ Idle /\ ckpt # NoCheckpoint /\ ready = ExecutableNextNodes(ckpt)
                    /\ \A c \in Channels : chan[c] = Replayed(ckpt, c)

\* The runs that an execution resumed from checkpoint k owes node n.
Listed(k, n) == Count(n, k.next)
Back(k, n) ==
  LET c == <<"join", n>>
  IN IF c \in Compiled /\ k.seen[c] # {} /\ Satisfied(c, k.seen[c]) THEN 1 ELSE 0

\* The node that asked may lose a run, but not its last.
Least(k, n) == IF n = k.node /\ k.atLeast[n] > 1 THEN k.atLeast[n] - 1 ELSE k.atLeast[n]
Kept(k) ==
  /\ k.writes = EmptyBag
  /\ \A n \in Nodes :
       /\ k.atMost[n] \in Nat /\ k.atLeast[n] \in Nat
       /\ (IF Listed(k, n) > 0 THEN Listed(k, n) ELSE Back(k, n)) <= k.atMost[n]
       /\ NoFanOut => Listed(k, n) + Back(k, n) >= Least(k, n)
KeptOK == ckpt # NoCheckpoint /\ graph \notin Again /\ pc # "completed" => Kept(ckpt)

Owing == StoppedOK /\ BeforeOK /\ JoinsOK /\ FanOK /\ InputOK /\ ResumedOK /\ KeptOK
--------------------------------------------------------------------------------
(* Counting. *)

LEMMA CountParts ==
  ASSUME NEW S, NEW s \in Seq(S), NEW n
  PROVE  /\ IsFiniteSet({i \in DOMAIN s : s[i] = n}) /\ Count(n, s) \in Nat
         /\ Count(n, s) > 0 <=> n \in ToSet(s)
<1> DEFINE I == {i \in DOMAIN s : s[i] = n}
<1>1. Len(s) \in Nat /\ DOMAIN s = 1..Len(s)
  OBVIOUS
<1>2. IsFiniteSet(DOMAIN s)
  BY <1>1, FS_Interval
<1>3. I \subseteq DOMAIN s
  OBVIOUS
<1>4. IsFiniteSet(I)
  BY <1>2, <1>3, FS_Subset
<1>5. Cardinality(I) \in Nat /\ (Cardinality(I) = 0 <=> I = {})
  BY <1>4, FS_CardinalityType, FS_EmptySet
<1>6. I # {} <=> n \in ToSet(s)
  BY DEF ToSet
<1>7. Count(n, s) = Cardinality(I)
  BY DEF Count
<1> HIDE DEF I
<1>8. Cardinality(I) > 0 <=> I # {}
  BY <1>5
<1>9. Count(n, s) \in Nat /\ (Count(n, s) > 0 <=> n \in ToSet(s))
  BY <1>5, <1>6, <1>7, <1>8
<1> QED BY <1>4, <1>9 DEF I

LEMMA CountConcat ==
  ASSUME NEW S, NEW s \in Seq(S), NEW t \in Seq(S), NEW n
  PROVE  Count(n, s \o t) = Count(n, s) + Count(n, t)
<1> DEFINE I == {i \in DOMAIN s : s[i] = n}
           J == {i \in DOMAIN t : t[i] = n}
           f == [j \in J |-> j + Len(s)]
           K == {f[j] : j \in J}
           U == {i \in DOMAIN (s \o t) : (s \o t)[i] = n}
<1>1. /\ Len(s) \in Nat /\ DOMAIN s = 1..Len(s) /\ Len(t) \in Nat /\ DOMAIN t = 1..Len(t)
      /\ DOMAIN (s \o t) = 1..(Len(s) + Len(t))
      /\ \A i \in 1..(Len(s) + Len(t)) : (s \o t)[i] = IF i <= Len(s) THEN s[i] ELSE t[i - Len(s)]
  OBVIOUS
<1>2. U = I \cup K
  <2>1. U \subseteq I \cup K
    <3> SUFFICES ASSUME NEW i \in U PROVE i \in I \cup K
      OBVIOUS
    <3>1. CASE i <= Len(s)
      BY <1>1, <3>1
    <3>2. CASE ~(i <= Len(s))
      <4>1. i - Len(s) \in 1..Len(t) /\ t[i - Len(s)] = n
        BY <1>1, <3>2
      <4>2. i - Len(s) \in J /\ (i - Len(s)) + Len(s) = i
        BY <1>1, <4>1
      <4> QED BY <4>2
    <3> QED BY <1>1, <3>1, <3>2
  <2>2. I \subseteq U
    BY <1>1
  <2>3. K \subseteq U
    <3> SUFFICES ASSUME NEW j \in J PROVE j + Len(s) \in U
      OBVIOUS
    <3>1. j + Len(s) \in 1..(Len(s) + Len(t)) /\ ~(j + Len(s) <= Len(s)) /\ (j + Len(s)) - Len(s) = j
      BY <1>1
    <3>2. (s \o t)[j + Len(s)] = n
      BY <1>1, <3>1
    <3> QED BY <1>1, <3>1, <3>2
  <2> QED BY <2>1, <2>2, <2>3
<1>3. I \cap K = {}
  <2>1. \A i \in I : i <= Len(s)
    BY <1>1
  <2>2. \A k \in K : ~(k <= Len(s))
    <3> SUFFICES ASSUME NEW j \in J PROVE ~(f[j] <= Len(s))
      OBVIOUS
    <3>1. j \in 1..Len(t) /\ f[j] = j + Len(s)
      BY <1>1
    <3> QED BY <1>1, <3>1
  <2> QED BY <2>1, <2>2
<1>4. IsFiniteSet(I) /\ IsFiniteSet(J)
  BY CountParts
<1>5. f \in Bijection(J, K)
  <2>1. f \in [J -> K] /\ \A k \in K : \E j \in J : f[j] = k
    OBVIOUS
  <2>2. \A a, b \in J : f[a] = f[b] => a = b
    BY <1>1
  <2> QED BY <2>1, <2>2 DEF Bijection, Injection, Surjection, IsInjective
<1>6. IsFiniteSet(K) /\ Cardinality(K) = Cardinality(J)
  <2>1. ExistsBijection(J, K)
    BY <1>5 DEF ExistsBijection
  <2> HIDE DEF J, K
  <2> QED BY <1>4, <2>1, FS_Bijection
<1>7. Cardinality(I \cup K) = Cardinality(I) + Cardinality(J)
  <2>1. Cardinality(I \cup K) = Cardinality(I) + Cardinality(K) - Cardinality({})
    <3> HIDE DEF I, K
    <3> QED BY <1>3, <1>4, <1>6, FS_Union
  <2>2. Cardinality({}) = 0 /\ Cardinality(I) \in Nat /\ Cardinality(J) \in Nat
    BY <1>4, FS_EmptySet, FS_CardinalityType
  <2> HIDE DEF I, J, K
  <2> QED BY <1>6, <2>1, <2>2
<1>8. Count(n, s \o t) = Cardinality(U) /\ Count(n, s) = Cardinality(I) /\ Count(n, t) = Cardinality(J)
  BY DEF Count
<1> QED BY <1>2, <1>7, <1>8

LEMMA CountOne ==
  ASSUME NEW m, NEW n
  PROVE  Count(n, <<m>>) = IF n = m THEN 1 ELSE 0
<1>1. {i \in DOMAIN <<m>> : <<m>>[i] = n} = IF n = m THEN {1} ELSE {}
  OBVIOUS
<1> QED BY <1>1, FS_Singleton, FS_EmptySet DEF Count

LEMMA CountNone ==
  ASSUME NEW n
  PROVE  Count(n, <<>>) = 0
<1>1. {i \in DOMAIN <<>> : <<>>[i] = n} = {}
  OBVIOUS
<1> QED BY <1>1, FS_EmptySet DEF Count

LEMMA CountAppend ==
  ASSUME NEW S, NEW s \in Seq(S), NEW m \in S, NEW n
  PROVE  Count(n, Append(s, m)) = Count(n, s) + (IF n = m THEN 1 ELSE 0)
<1>1. Append(s, m) = s \o <<m>> /\ <<m>> \in Seq(S)
  OBVIOUS
<1>2. Count(n, s \o <<m>>) = Count(n, s) + Count(n, <<m>>)
  BY <1>1, CountConcat
<1>3. Count(n, <<m>>) = IF n = m THEN 1 ELSE 0
  BY CountOne
<1> QED BY <1>1, <1>2, <1>3

\* Each element of a set once.
LEMMA CountSet ==
  ASSUME NEW S, IsFiniteSet(S), NEW n
  PROVE  Count(n, SetToSeq(S)) = IF n \in S THEN 1 ELSE 0
<1> DEFINE q == SetToSeq(S)
           I == {i \in DOMAIN q : q[i] = n}
<1>1. /\ q \in Seq(S) /\ \A x \in S : \E i \in DOMAIN q : q[i] = x
      /\ \A i, j \in DOMAIN q : q[i] = q[j] => i = j
  BY SetToSeqParts
<1>2. CASE n \in S
  <2>1. PICK i \in DOMAIN q : q[i] = n
    BY <1>1, <1>2
  <2>2. I = {i}
    BY <1>1, <2>1
  <2> QED BY <1>2, <2>2, FS_Singleton DEF Count
<1>3. CASE n \notin S
  <2>1. \A i \in DOMAIN q : q[i] \in S
    <3> HIDE DEF q
    <3> QED BY <1>1
  <2>2. I = {}
    BY <1>3, <2>1
  <2> QED BY <1>3, <2>2, FS_EmptySet DEF Count
<1> QED BY <1>2, <1>3
--------------------------------------------------------------------------------
(* What is saved.                                                          *)

\* With nothing in flight the tasks of a node are queued, waiting for the plan or were cut off.
LEMMA DrainedTasks ==
  ASSUME Typed, IInv, inFlight = {}, stopped \in [Nodes -> Nat], NEW n \in Nodes
  PROVE  /\ Tasks(n) = Count(n, ready) + Count(n, pendT) + stopped[n]
         /\ Tasks(n) \in Nat /\ Trigger(n) \in {0, 1} /\ Cut(n) = 0 /\ WaitingTasks = <<>>
         /\ OwedAtLeast[n] = IF Tasks(n) > 0 THEN Tasks(n) ELSE Trigger(n)
         /\ OwedAtMost[n] = Tasks(n) + Trigger(n)
<1>1. work = NoWork /\ done = <<>> /\ DOMAIN work = {} /\ DOMAIN done = {}
  <2>1. work = NoWork /\ done = <<>>
    BY Empty DEF IInv
  <2>2. DOMAIN work = {} /\ DOMAIN done = {}
    BY <2>1 DEF NoWork
  <2> QED BY <2>1, <2>2
<1>2. \A m \in Nodes : waiting[m] = 0
  BY DEF IInv, Reported, Loose
<1>3. WaitingTasks = <<>>
  BY <1>2, WaitingTyped DEF Typed, GraphOK, LoopOK
<1>4. Cut(n) = 0
  BY <1>1 DEF Cut
<1>5. {i \in DOMAIN work : work[i].node = n /\ work[i].res = "ok" /\ work[i].st \in {"todo", "wrote"}} = {}
  BY <1>1
<1>6. Count(n, ready) \in Nat /\ Count(n, pendT) \in Nat /\ stopped[n] \in Nat
  BY CountParts DEF Typed, LoopOK, ChanOK
<1>7. Tasks(n) = Count(n, ready) + 0 + Count(n, pendT) + stopped[n] + 0
  BY <1>2, <1>5, FS_EmptySet DEF Tasks
<1>8. Trigger(n) \in {0, 1}
  BY DEF Trigger
<1>9. /\ OwedAtLeast[n] = IF Tasks(n) > 0 THEN Tasks(n) ELSE Trigger(n)
      /\ OwedAtMost[n] = Tasks(n) + Trigger(n)
  BY DEF OwedAtLeast, OwedAtMost
<1> QED BY <1>3, <1>4, <1>6, <1>7, <1>8, <1>9

\* A join that a checkpoint brings back was triggered when it was taken.
LEMMA BackTriggered ==
  ASSUME Typed, JoinsOK, NEW k, k.seen = [c \in Channels |-> chan[c].seen], NEW n \in Nodes
  PROVE  Back(k, n) \in {0, 1} /\ Back(k, n) <= Trigger(n)
<1> DEFINE c == <<"join", n>>
<1>1. c \in Channels /\ IsJoin(c) /\ Target(c) = n
  BY DEF Channels, IsJoin, Target
<1>2. k.seen[c] = chan[c].seen
  BY <1>1
<1>3. Settled(c, chan[c])
  BY <1>1 DEF Typed, ChanOK, ChannelsOK
<1>4. ASSUME c \in Compiled, chan[c].seen # {}, Satisfied(c, chan[c].seen)
      PROVE  Trigger(n) = 1
  <2>1. c \in Available \cap known
    BY <1>1, <1>3, <1>4 DEF Settled, Available, JoinsOK
  <2> QED BY <1>1, <2>1 DEF Trigger, GetNextNodes
<1>5. Back(k, n) = IF c \in Compiled /\ chan[c].seen # {} /\ Satisfied(c, chan[c].seen) THEN 1 ELSE 0
  BY <1>2 DEF Back
<1>6. Trigger(n) \in {0, 1}
  BY DEF Trigger
<1> HIDE DEF c
<1> QED BY <1>4, <1>5, <1>6

\* snapshotNextNodes lists every queued and cut-off task, and once each node that is only triggered.
LEMMA SnapshotCount ==
  ASSUME Typed, IInv, inFlight = {}, stopped \in [Nodes -> Nat], NEW n \in Nodes
  PROVE  LET q == Count(n, ready) + Count(n, rerun)
         IN Count(n, SnapshotNextNodes) = IF q > 0 THEN q ELSE Trigger(n)
<1> DEFINE q == Count(n, ready) + Count(n, rerun)
<1>1. PICK Q : Q = ready \o WaitingTasks \o rerun
  OBVIOUS
<1>2. WaitingTasks = <<>> /\ ready \in Seq(Nodes) /\ rerun \in Seq(Nodes)
  BY DrainedTasks DEF Typed, LoopOK, DrainOK
<1>3. Q = ready \o rerun /\ Q \in Seq(Nodes)
  BY <1>1, <1>2
<1>4. Count(n, Q) = q
  BY <1>2, <1>3, CountConcat
<1>5. q \in Nat /\ (q > 0 <=> n \in ToSet(Q))
  BY <1>3, <1>4, CountParts
<1>6. PICK G : G = GetNextNodes \ ToSet(Q)
  OBVIOUS
<1>7. IsFiniteSet(G) /\ G \subseteq Nodes
  <2>1. G \subseteq Nodes /\ IsFiniteSet(Nodes)
    BY <1>6, NextNodesTyped, GraphTyped DEF Typed, GraphOK
  <2> QED BY <2>1, FS_Subset
<1>8. SnapshotNextNodes = Q \o SetToSeq(G)
  BY <1>1, <1>6 DEF SnapshotNextNodes
<1>9. SetToSeq(G) \in Seq(Nodes) /\ Count(n, SetToSeq(G)) = IF n \in G THEN 1 ELSE 0
  BY <1>7, SetToSeqParts, CountSet
<1>10. Count(n, SnapshotNextNodes) = q + (IF n \in G THEN 1 ELSE 0)
  <2>1. PICK t \in Seq(Nodes) : t = SetToSeq(G)
    BY <1>9
  <2>2. Count(n, Q \o t) = Count(n, Q) + Count(n, t)
    BY <1>3, CountConcat
  <2>3. Count(n, Q \o t) = q + Count(n, t)
    BY <1>4, <2>2
  <2> QED BY <1>8, <1>9, <2>1, <2>3
<1>11. Trigger(n) = IF n \in GetNextNodes THEN 1 ELSE 0
  BY DEF Trigger
<1> HIDE DEF q
<1>12. Count(n, SnapshotNextNodes) = IF q > 0 THEN q ELSE Trigger(n)
  BY <1>5, <1>6, <1>10, <1>11
<1> QED BY <1>12 DEF q

\* handleInterrupt's and the pause's checkpoints keep what is owed.
LEMMA DrainedKept ==
  ASSUME Typed, IInv, Owing, inFlight = {}, draining \in {"no", "interrupt"}, NEW stp, NEW next, NEW node,
         next = IF draining = "interrupt" /\ intr.kind \in {"internal", "before"}
                THEN WithNode(SnapshotNextNodes, intr.node) ELSE SnapshotNextNodes,
         draining = "interrupt" /\ intr.kind = "internal" => node = intr.node
  PROVE  Kept(Snapshot(stp, next, EmptyBag, node))
<1> DEFINE k == Snapshot(stp, next, EmptyBag, node)
<1>1. /\ k.next = next /\ k.node = node /\ k.writes = EmptyBag /\ k.atLeast = OwedAtLeast
      /\ k.atMost = OwedAtMost /\ k.seen = [c \in Channels |-> chan[c].seen]
  BY DEF Snapshot
<1> HIDE DEF k
<1>2. stopped \in [Nodes -> Nat] /\ JoinsOK /\ StoppedOK /\ BeforeOK /\ FanOK
  BY DEF Owing, StoppedOK
<1>3. SUFFICES ASSUME NEW n \in Nodes
               PROVE  /\ k.atMost[n] \in Nat /\ k.atLeast[n] \in Nat
                      /\ (IF Listed(k, n) > 0 THEN Listed(k, n) ELSE Back(k, n)) <= k.atMost[n]
                      /\ NoFanOut => Listed(k, n) + Back(k, n) >= Least(k, n)
  BY <1>1 DEF Kept, k
<1> DEFINE R == Count(n, ready)
           X == Count(n, rerun)
           P == Count(n, pendT)
           A == Asked(n)
           L == Listed(k, n)
           b == Back(k, n)
           g == Trigger(n)
<1>4. R \in Nat /\ X \in Nat /\ P \in Nat /\ A \in {0, 1} /\ b \in {0, 1} /\ b <= g /\ g \in {0, 1}
  <2>1. R \in Nat /\ X \in Nat /\ P \in Nat
    BY CountParts DEF Typed, LoopOK, DrainOK, ChanOK
  <2>2. b \in {0, 1} /\ b <= g
    BY <1>1, <1>2, BackTriggered
  <2>3. A \in {0, 1} /\ g \in {0, 1}
    BY DEF Asked, Trigger
  <2> QED BY <2>1, <2>2, <2>3
<1>5. Tasks(n) = R + P + X + A
  <2>1. Tasks(n) = R + P + stopped[n] /\ Cut(n) = 0
    BY <1>2, DrainedTasks
  <2>2. stopped[n] = X + A + Cut(n)
    BY <1>2 DEF StoppedOK
  <2> HIDE DEF R, P, X, A
  <2> QED BY <1>4, <2>1, <2>2
<1>6. /\ k.atLeast[n] = IF Tasks(n) > 0 THEN Tasks(n) ELSE g
      /\ k.atMost[n] = Tasks(n) + g
  BY <1>1, <1>2, DrainedTasks
<1>7. Count(n, SnapshotNextNodes) = IF R + X > 0 THEN R + X ELSE g
  BY <1>2, SnapshotCount
<1>8. /\ A = 0 => L = IF R + X > 0 THEN R + X ELSE g
      /\ A = 1 => L = IF R + X > 0 THEN R + X ELSE 1
  <2>1. CASE next = SnapshotNextNodes /\ A = 0
    BY <1>1, <1>7, <2>1 DEF Listed
  <2>2. CASE draining = "interrupt" /\ intr.kind = "before"
    <3>1. A = 0
      BY <2>2 DEF Asked
    <3>2. PICK m \in Nodes : m = intr.node
      BY <2>2 DEF Typed, DrainOK
    <3>3. m \in ToSet(ready) /\ Count(m, ready) > 0 /\ Count(m, ready) \in Nat /\ Count(m, rerun) \in Nat
      BY <1>2, <2>2, <3>2, CountParts DEF BeforeOK, Typed, LoopOK, DrainOK
    <3>4. Count(m, SnapshotNextNodes) = Count(m, ready) + Count(m, rerun)
      <4>1. LET q == Count(m, ready) + Count(m, rerun)
            IN Count(m, SnapshotNextNodes) = IF q > 0 THEN q ELSE Trigger(m)
        BY <1>2, SnapshotCount
      <4> QED BY <3>3, <4>1
    <3>5. m \in ToSet(SnapshotNextNodes)
      <4>1. SnapshotNextNodes \in Seq(Nodes)
        BY SnapshotTyped
      <4>2. Count(m, SnapshotNextNodes) > 0
        BY <3>3, <3>4
      <4> QED BY <4>1, <4>2, CountParts
    <3>6. next = SnapshotNextNodes
      BY <2>2, <3>2, <3>5 DEF WithNode
    <3> QED BY <1>1, <1>7, <3>1, <3>6 DEF Listed
  <2>3. CASE draining = "interrupt" /\ intr.kind = "internal"
    <3>1. PICK m \in Nodes : m = intr.node
      BY <2>3 DEF Typed, DrainOK
    <3>2. A = IF m = n THEN 1 ELSE 0
      BY <2>3, <3>1 DEF Asked
    <3>3. PICK s \in Seq(Nodes) : s = SnapshotNextNodes
      BY <3>1, SnapshotTyped
    <3>4. next = IF m \notin ToSet(s) THEN <<m>> \o s ELSE s
      BY <2>3, <3>1, <3>3 DEF WithNode
    <3>5. Count(n, <<m>> \o s) = (IF n = m THEN 1 ELSE 0) + Count(n, s)
      <4>1. <<m>> \in Seq(Nodes)
        OBVIOUS
      <4>2. Count(n, <<m>> \o s) = Count(n, <<m>>) + Count(n, s)
        BY <4>1, CountConcat
      <4>3. Count(n, <<m>>) = IF n = m THEN 1 ELSE 0
        BY CountOne
      <4> QED BY <4>2, <4>3
    <3>6. /\ Count(n, s) = IF R + X > 0 THEN R + X ELSE g
          /\ Count(n, s) \in Nat /\ (Count(n, s) > 0 <=> n \in ToSet(s))
      BY <1>7, <3>3, CountParts
    <3>7. L = Count(n, next)
      BY <1>1 DEF Listed
    <3> HIDE DEF R, X, P, A, L, b, g
    <3>8. CASE m = n
      BY <1>4, <3>2, <3>4, <3>5, <3>6, <3>7, <3>8
    <3>9. CASE m # n
      <4>1. A = 0
        BY <3>2, <3>9
      <4>2. PICK v : v = Count(n, s)
        OBVIOUS
      <4>3. L = 0 + v \/ L = v
        BY <3>4, <3>5, <3>7, <3>9, <4>2
      <4>4. L = v
        BY <3>6, <4>2, <4>3
      <4> QED BY <3>6, <4>1, <4>2, <4>4
    <3> QED BY <3>8, <3>9
  <2>4. (next = SnapshotNextNodes /\ A = 0) \/ (draining = "interrupt" /\ intr.kind \in {"before", "internal"})
    <3>1. draining = "no" => intr = NoInterrupt
      BY DEF Typed, DrainOK
    <3> QED BY <3>1 DEF Asked, NoInterrupt
  <2> QED BY <2>1, <2>2, <2>3, <2>4
<1>9. NoFanOut => P = 0
  BY <1>2, CountNone DEF FanOK
<1>10. A = 1 => n = k.node
  <2>1. ASSUME A = 1 PROVE draining = "interrupt" /\ intr.kind = "internal" /\ intr.node = n
    <3>1. intr.kind = "internal" /\ intr.node = n
      BY <2>1 DEF Asked
    <3>2. draining = "no" => intr.kind = "none"
      BY DEF Typed, DrainOK, NoInterrupt
    <3> QED BY <3>1, <3>2
  <2> QED BY <1>1, <2>1
<1>11. Least(k, n) = IF n = k.node /\ k.atLeast[n] > 1 THEN k.atLeast[n] - 1 ELSE k.atLeast[n]
  BY DEF Least
<1> HIDE DEF R, X, P, A, L, b, g
<1>12. k.atMost[n] \in Nat /\ k.atLeast[n] \in Nat
  BY <1>4, <1>5, <1>6
<1>13. (IF L > 0 THEN L ELSE b) <= k.atMost[n]
  BY <1>4, <1>5, <1>6, <1>8
<1>14. NoFanOut => L + b >= Least(k, n)
  <2>1. CASE A = 0
    BY <1>4, <1>5, <1>6, <1>8, <1>9, <1>11, <2>1
  <2>2. CASE A = 1
    BY <1>4, <1>5, <1>6, <1>8, <1>9, <1>10, <1>11, <2>2
  <2> QED BY <1>4, <2>1, <2>2
<1> QED BY <1>12, <1>13, <1>14 DEF L, b

\* The input checkpoint: the entry node is owed, and nothing else.
LEMMA InputKept ==
  ASSUME Typed, Owing, pc = "input", NEW stp
  PROVE  Kept(Snapshot(stp, <<Entry>>, EmptyBag, "none"))
<1> DEFINE k == Snapshot(stp, <<Entry>>, EmptyBag, "none")
<1>1. /\ k.next = <<Entry>> /\ k.writes = EmptyBag /\ k.atLeast = OwedAtLeast
      /\ k.atMost = OwedAtMost /\ k.seen = [c \in Channels |-> chan[c].seen]
  BY DEF Snapshot
<1> HIDE DEF k
<1>2. /\ JoinsOK /\ ready = <<Entry>> /\ waiting = None /\ pendT = <<>> /\ stopped = None
      /\ work = NoWork /\ \A c \in Channels : chan[c] = EmptyChannel
  BY DEF Owing, InputOK, Idle
<1>3. SUFFICES ASSUME NEW n \in Nodes
               PROVE  /\ k.atMost[n] \in Nat /\ k.atLeast[n] \in Nat
                      /\ (IF Listed(k, n) > 0 THEN Listed(k, n) ELSE Back(k, n)) <= k.atMost[n]
                      /\ NoFanOut => Listed(k, n) + Back(k, n) >= Least(k, n)
  BY <1>1 DEF Kept, k
<1>4. Trigger(n) = 0
  <2>1. Available = {}
    BY <1>2 DEF Available, EmptyChannel
  <2> QED BY <2>1 DEF Trigger, GetNextNodes
<1>5. Back(k, n) = 0
  <2>1. Back(k, n) \in {0, 1} /\ Back(k, n) <= Trigger(n)
    BY <1>1, <1>2, BackTriggered
  <2> QED BY <1>4, <2>1
<1>6. Listed(k, n) = Tasks(n) /\ Tasks(n) \in Nat
  <2>1. Count(n, ready) = IF n = Entry THEN 1 ELSE 0
    BY <1>2, CountOne
  <2>2. waiting[n] = 0 /\ stopped[n] = 0 /\ Count(n, pendT) = 0
    BY <1>2, CountNone DEF None
  <2>3. {i \in DOMAIN work : work[i].node = n /\ work[i].res = "ok" /\ work[i].st \in {"todo", "wrote"}} = {}
    BY <1>2 DEF NoWork
  <2>4. Tasks(n) = Count(n, ready) + 0 + 0 + 0 + 0
    BY <2>2, <2>3, FS_EmptySet DEF Tasks
  <2>5. Listed(k, n) = Count(n, ready)
    BY <1>1, <1>2 DEF Listed
  <2> QED BY <2>1, <2>4, <2>5
<1>7. /\ k.atLeast[n] = IF Tasks(n) > 0 THEN Tasks(n) ELSE Trigger(n)
      /\ k.atMost[n] = Tasks(n) + Trigger(n)
  BY <1>1 DEF OwedAtLeast, OwedAtMost
<1> QED BY <1>4, <1>5, <1>6, <1>7 DEF Least

--------------------------------------------------------------------------------
(* The accounts are kept by every step.                                    *)

LEMMA OwingFrames ==
  ASSUME Typed, Owing, graph' = graph
  PROVE  /\ UNCHANGED <<workVars, draining, intr, rerun, stopped>> => StoppedOK'
         /\ UNCHANGED <<draining, intr, ready>> => BeforeOK'
         /\ UNCHANGED known => JoinsOK'
         /\ UNCHANGED pendT => FanOK'
         /\ pc' # "input" => InputOK'
         /\ pc' # "resumed" => ResumedOK'
         /\ UNCHANGED ckpt /\ pc # "completed" => KeptOK'
         /\ pc' = "completed" => KeptOK'
         /\ Nodes' = Nodes /\ Channels' = Channels /\ Compiled' = Compiled
<1>1. /\ Nodes' = Nodes /\ Channels' = Channels /\ Compiled' = Compiled /\ (NoFanOut' <=> NoFanOut)
      /\ JoinFrom' = JoinFrom
  BY DEF Nodes, Channels, Compiled, NoFanOut, Outcomes, Edges, JoinFrom
<1>2. UNCHANGED <<workVars, draining, intr, rerun, stopped>> => StoppedOK'
  BY <1>1 DEF Owing, StoppedOK, workVars, Asked, Cut
<1>3. UNCHANGED <<draining, intr, ready>> => BeforeOK'
  BY DEF Owing, BeforeOK
<1>4. UNCHANGED known => JoinsOK'
  BY <1>1 DEF Owing, JoinsOK
<1>5. UNCHANGED pendT => FanOK'
  BY <1>1 DEF Owing, FanOK
<1>6. (pc' # "input" => InputOK') /\ (pc' # "resumed" => ResumedOK')
  BY DEF InputOK, ResumedOK
<1>7. UNCHANGED ckpt /\ pc # "completed" => KeptOK'
  BY <1>1 DEF Owing, KeptOK, Kept, Listed, Back, Least, Satisfied, NoCheckpoint
<1>8. pc' = "completed" => KeptOK'
  BY DEF KeptOK
<1> QED BY <1>1, <1>2, <1>3, <1>4, <1>5, <1>6, <1>7, <1>8

\* A save keeps the accounts when what is saved does.
LEMMA SaveKept ==
  ASSUME Typed, Owing, graph' = graph, pc # "completed", NEW k, Kept(k), ckpt' = k \/ ckpt' = ckpt
  PROVE  KeptOK'
<1>1. CASE ckpt' = ckpt
  BY <1>1, OwingFrames
<1>2. CASE ckpt' = k
  <2>1. /\ Nodes' = Nodes /\ Compiled' = Compiled /\ (NoFanOut' <=> NoFanOut)
        /\ JoinFrom' = JoinFrom
    BY DEF Nodes, Compiled, NoFanOut, Outcomes, Edges, JoinFrom
  <2> QED BY <1>2, <2>1 DEF KeptOK, Kept, Listed, Back, Least, Satisfied
<1> QED BY <1>1, <1>2

\* A loop built anew owes nothing but what it is seeded with.
LEMMA NewLoopOwing ==
  ASSUME graph' = graph, NEW seed, NEW stp, NewLoop(seed, stp)
  PROVE  StoppedOK' /\ BeforeOK' /\ FanOK' /\ Idle' /\ ready' = seed
<1>1. /\ ready' = seed /\ waiting' = None /\ rerun' = <<>> /\ done' = <<>> /\ work' = NoWork
      /\ pendT' = <<>> /\ stopped' = None /\ intr' = NoInterrupt /\ draining' = "no"
  BY DEF NewLoop
<1>2. Nodes' = Nodes /\ None' = None /\ NoWork' = NoWork
  BY DEF Nodes, None, NoWork, Entry
<1>3. DOMAIN work' = {} /\ DOMAIN done' = {} /\ intr'.kind = "none"
  BY <1>1 DEF NoWork, NoInterrupt
<1>4. Idle' /\ BeforeOK' /\ FanOK'
  BY <1>1, <1>2 DEF Idle, BeforeOK, FanOK
<1>5. StoppedOK'
  <2>1. stopped' \in [Nodes' -> Nat] /\ \A n \in Nodes' : stopped'[n] = 0
    BY <1>1, <1>2 DEF None
  <2>2. \A n \in Nodes' : Count(n, rerun)' = 0
    BY <1>1, CountNone
  <2>3. \A n \in Nodes' : Asked(n)' = 0 /\ Cut(n)' = 0
    BY <1>3 DEF Asked, Cut
  <2> QED BY <1>1, <1>3, <2>1, <2>2, <2>3 DEF StoppedOK
<1> QED BY <1>1, <1>4, <1>5

LEMMA InitOwing == Init => Owing
<1> SUFFICES ASSUME Init PROVE Owing
  OBVIOUS
<1>1. /\ rerun = <<>> /\ done = <<>> /\ work = NoWork /\ pendT = <<>> /\ stopped = None
      /\ intr = NoInterrupt /\ draining = "no" /\ pc = "idle" /\ ckpt = NoCheckpoint /\ known = Compiled
  BY DEF Init
<1>2. DOMAIN work = {} /\ DOMAIN done = {} /\ intr.kind = "none"
  BY <1>1 DEF NoWork, NoInterrupt
<1>3. BeforeOK /\ FanOK /\ InputOK /\ ResumedOK /\ KeptOK /\ JoinsOK
  BY <1>1 DEF BeforeOK, FanOK, InputOK, ResumedOK, KeptOK, JoinsOK
<1>4. StoppedOK
  <2>1. stopped \in [Nodes -> Nat] /\ \A n \in Nodes : stopped[n] = 0
    BY <1>1 DEF None
  <2>2. \A n \in Nodes : Count(n, rerun) = 0
    BY <1>1, CountNone
  <2>3. \A n \in Nodes : Asked(n) = 0 /\ Cut(n) = 0
    BY <1>2 DEF Asked, Cut
  <2> QED BY <1>1, <1>2, <2>1, <2>2, <2>3 DEF StoppedOK
<1> QED BY <1>3, <1>4 DEF Owing

LEMMA ExecuteOwing ==
  ASSUME Typed, Owing, Execute
  PROVE  Owing'
<1>1. CASE StartFresh
  <2>1. /\ graph' = graph /\ NewLoop(<<Entry>>, 0) /\ pc' = "input" /\ ckpt' = ckpt /\ known' = known
        /\ chan' = [c \in Channels |-> EmptyChannel] /\ pc # "completed"
    BY <1>1 DEF StartFresh, graphVars, saveVars, Startable
  <2>2. StoppedOK' /\ BeforeOK' /\ FanOK' /\ Idle' /\ ready' = <<Entry>>
    BY <2>1, NewLoopOwing
  <2>3. JoinsOK' /\ ResumedOK' /\ KeptOK' /\ Channels' = Channels
    BY <2>1, OwingFrames
  <2>4. InputOK'
    <3>1. Entry' = Entry
      BY <2>1 DEF Entry
    <3> QED BY <2>1, <2>2, <2>3, <3>1 DEF InputOK
  <2> QED BY <2>2, <2>3, <2>4 DEF Owing
<1>2. CASE Resume
  <2>1. /\ graph' = graph /\ NewLoop(ExecutableNextNodes(ckpt), ckpt.step + 1) /\ pc' = "resumed"
        /\ ckpt' = ckpt /\ known' = known /\ ckpt # NoCheckpoint
        /\ chan' = [c \in Channels |-> Replayed(ckpt, c)]
        /\ pc # "completed" \/ graph \in Again
    BY <1>2 DEF Resume, saveVars, Startable
  <2>2. StoppedOK' /\ BeforeOK' /\ FanOK' /\ Idle' /\ ready' = ExecutableNextNodes(ckpt)
    BY <2>1, NewLoopOwing
  <2>3. JoinsOK' /\ InputOK' /\ Channels' = Channels
    BY <2>1, OwingFrames
  <2>4. KeptOK'
    <3>1. CASE pc # "completed"
      BY <2>1, <3>1, OwingFrames
    <3>2. CASE graph \in Again
      BY <2>1, <3>2 DEF KeptOK
    <3> QED BY <2>1, <3>1, <3>2
  <2>5. ResumedOK'
    <3>1. \A c \in Channels : chan'[c] = Replayed(ckpt, c)
      BY <2>1
    <3>2. \A c \in Channels : Replayed(ckpt, c)' = Replayed(ckpt, c)
      BY <2>1 DEF Replayed, RestoredChannel, Exists, Satisfied, JoinFrom
    <3>3. ExecutableNextNodes(ckpt)' = ExecutableNextNodes(ckpt)
      BY <2>1 DEF ExecutableNextNodes
    <3>4. \A c \in Channels' : chan'[c] = Replayed(ckpt, c)'
      BY <2>3, <3>1, <3>2
    <3>5. ckpt' # NoCheckpoint'
      BY <2>1
    <3> QED BY <2>2, <3>3, <3>4, <3>5 DEF ResumedOK
  <2> QED BY <2>2, <2>3, <2>4, <2>5 DEF Owing
<1> QED BY <1>1, <1>2 DEF Execute

\* The first two phases last until the loop takes its first step.
LEMMA PhaseSame ==
  ASSUME Typed, Owing, graph' = graph,
         UNCHANGED <<pc, ready, waiting, pendT, stopped, work, chan, ckpt, known>>
  PROVE  InputOK' /\ ResumedOK'
<1>1. Channels' = Channels /\ Entry' = Entry /\ (Idle' <=> Idle)
  BY DEF Channels, Nodes, Entry, Idle, None, NoWork
<1>2. \A c \in Channels : Replayed(ckpt, c)' = Replayed(ckpt, c)
  BY DEF Replayed, RestoredChannel, Exists, Satisfied, JoinFrom
<1>3. InputOK'
  BY <1>1 DEF Owing, InputOK
<1>4. ResumedOK'
  <2>1. ExecutableNextNodes(ckpt)' = ExecutableNextNodes(ckpt)
    BY DEF ExecutableNextNodes
  <2>2. ASSUME pc' = "resumed"
        PROVE  /\ Idle' /\ ckpt' # NoCheckpoint' /\ ready' = ExecutableNextNodes(ckpt)'
               /\ \A c \in Channels' : chan'[c] = Replayed(ckpt, c)'
    <3>1. pc = "resumed"
      BY <2>2
    <3>2. /\ Idle /\ ckpt # NoCheckpoint /\ ready = ExecutableNextNodes(ckpt)
          /\ \A c \in Channels : chan[c] = Replayed(ckpt, c)
      BY <3>1 DEF Owing, ResumedOK
    <3>3. \A c \in Channels' : chan'[c] = Replayed(ckpt, c)'
      BY <1>1, <1>2, <3>2
    <3> QED BY <1>1, <2>1, <3>2, <3>3
  <2> QED BY <2>2 DEF ResumedOK
<1> QED BY <1>3, <1>4

LEMMA EnvironmentOwing ==
  ASSUME Typed, Owing, Environment
  PROVE  Owing'
<1>1. CASE Crash
  <2>1. /\ graph' = graph /\ NewLoop(<<>>, 0) /\ pc' = "idle" /\ pc # "completed" /\ ckpt' = ckpt
        /\ known' = Compiled
    BY <1>1 DEF Crash, saveVars, Active
  <2>2. StoppedOK' /\ BeforeOK' /\ FanOK'
    BY <2>1, NewLoopOwing
  <2>3. InputOK' /\ ResumedOK' /\ KeptOK' /\ Compiled' = Compiled
    BY <2>1, OwingFrames
  <2>4. JoinsOK'
    BY <2>1, <2>3 DEF JoinsOK
  <2> QED BY <2>2, <2>3, <2>4 DEF Owing
<1>2. CASE RequestPause \/ ForcePause \/ CancelRun
  <2>1. /\ graph' = graph /\ pc # "completed"
        /\ UNCHANGED <<pc, ready, waiting, pendT, stopped, work, workVars, chan, ckpt, known,
                       draining, intr, rerun>>
    BY <1>2 DEF RequestPause, ForcePause, CancelRun, UNCHANGED_Env, graphVars, loopVars, drainVars,
                workVars, chanVars, saveVars, Active
  <2>2. /\ StoppedOK' /\ BeforeOK' /\ JoinsOK' /\ FanOK' /\ KeptOK'
    BY <2>1, OwingFrames
  <2>3. InputOK' /\ ResumedOK'
    BY <2>1, PhaseSame
  <2> QED BY <2>2, <2>3 DEF Owing
<1> QED BY <1>1, <1>2 DEF Environment

LEMMA FinalOwing ==
  ASSUME Typed, IInv, Owing, TryFinalize
  PROVE  Owing'
<1>1. /\ graph' = graph /\ known' = known /\ pc = "final" /\ pc' \notin {"input", "resumed"}
      /\ UNCHANGED <<workVars, draining, intr, rerun, stopped, ready, pendT>>
  BY DEF TryFinalize, FinalizeInterrupt, FinalizePause, FinalizeDrained, FinalCheckpoint, NotFinal,
         UNCHANGED_Final, graphVars, loopVars, drainVars, workVars
<1>2. StoppedOK' /\ BeforeOK' /\ JoinsOK' /\ FanOK' /\ InputOK' /\ ResumedOK'
  BY <1>1, OwingFrames
<1>3. KeptOK'
  <2>1. CASE FinalizeInterrupt
    <3> DEFINE next == IF intr.kind \in {"internal", "before"}
                       THEN WithNode(SnapshotNextNodes, intr.node) ELSE SnapshotNextNodes
               node == IF intr.kind = "internal" THEN intr.node ELSE "none"
               k == Snapshot(intr.step, next, EmptyBag, node)
    <3>1. inFlight = {} /\ draining = "interrupt" /\ (ckpt' = k \/ ckpt' = ckpt)
      BY <2>1 DEF FinalizeInterrupt, Save, Drained
    <3>2. /\ next = IF draining = "interrupt" /\ intr.kind \in {"internal", "before"}
                    THEN WithNode(SnapshotNextNodes, intr.node) ELSE SnapshotNextNodes
          /\ draining = "interrupt" /\ intr.kind = "internal" => node = intr.node
      BY <3>1
    <3> HIDE DEF next, node
    <3>3. Kept(k)
      BY <3>1, <3>2, DrainedKept
    <3> HIDE DEF k
    <3> QED BY <1>1, <3>1, <3>3, SaveKept
  <2>2. CASE FinalizePause
    <3> DEFINE k == Snapshot(nextStep - 1, SnapshotNextNodes, EmptyBag, "none")
    <3>1. inFlight = {} /\ draining = "no" /\ (ckpt' = k \/ ckpt' = ckpt)
      BY <2>2 DEF FinalizePause, Save, Drained
    <3>2. Kept(k)
      BY <3>1, DrainedKept
    <3> HIDE DEF k
    <3> QED BY <1>1, <3>1, <3>2, SaveKept
  <2>3. CASE FinalCheckpoint
    <3>1. pc' = "completed"
      BY <2>3 DEF FinalCheckpoint
    <3> QED BY <1>1, <3>1, OwingFrames
  <2>4. CASE FinalizeDrained \/ NotFinal
    <3>1. ckpt' = ckpt
      BY <2>4 DEF FinalizeDrained, NotFinal, saveVars
    <3> QED BY <1>1, <3>1, OwingFrames
  <2> QED BY <2>1, <2>2, <2>3, <2>4 DEF TryFinalize
<1> QED BY <1>2, <1>3 DEF Owing

LEMMA StartTaskOwing ==
  ASSUME Typed, IInv, Owing, StartTask
  PROVE  Owing'
<1> DEFINE h == HeadTask
<1>1. /\ pc = "start" /\ draining = "no" /\ ready # <<>> /\ graph' = graph /\ known' = known
      /\ pc' \in {"start", "plan"} /\ UNCHANGED <<rerun, done, pendT, ckpt, stopped>>
  BY DEF StartTask, Scheduling, UNCHANGED_Start, graphVars, saveVars, chanVars,
         StartBehind, StartBreak, StartNoSlot, StartNoStep, Launch
<1>2. StoppedOK /\ intr = NoInterrupt /\ nextStep \notin DOMAIN work
  <2>1. intr = NoInterrupt
    BY <1>1 DEF Typed, DrainOK
  <2>2. nextStep \notin DOMAIN work
    BY DEF IInv, Loose
  <2> QED BY <2>1, <2>2 DEF Owing
<1>3. h \in Nodes /\ h \in ToSet(ready)
  <2>1. ready \in Seq(Nodes)
    BY DEF Typed, LoopOK
  <2>2. 1 \in DOMAIN ready /\ h = ready[1]
    BY <1>1, <2>1, Places DEF HeadTask
  <2> QED BY <1>1, <2>1, <2>2, HeadTyped DEF ToSet, HeadTask
<1>4. JoinsOK' /\ FanOK' /\ InputOK' /\ ResumedOK' /\ KeptOK' /\ Nodes' = Nodes
  BY <1>1, OwingFrames
<1>5. BeforeOK'
  <2>1. CASE StartBreak
    <3>1. Interrupted("before", h, nextStep) /\ ready' = ready
      BY <2>1 DEF StartBreak
    <3>2. intr'.node = h
      BY <3>1 DEF Interrupted
    <3> QED BY <1>3, <3>1, <3>2 DEF BeforeOK
  <2>2. CASE ~StartBreak
    <3>1. draining' # "interrupt"
      BY <1>1, <2>2 DEF StartTask, StartBehind, StartNoSlot, StartNoStep, Launch
    <3> QED BY <3>1 DEF BeforeOK
  <2> QED BY <2>1, <2>2
<1>6. /\ \A n \in Nodes : Asked(n) = 0 /\ Asked(n)' = 0
      /\ \A n \in Nodes : Cut(n)' = Cut(n)
      /\ \A i \in DOMAIN work' : work'[i].st \in {"todo", "wrote", "waiting"} => work'[i].res = "ok"
  <2>1. \A n \in Nodes : Asked(n) = 0
    BY <1>2 DEF Asked, NoInterrupt
  <2>2. intr'.kind # "internal"
    <3>1. CASE StartBreak
      BY <3>1 DEF StartBreak, Interrupted
    <3>2. CASE ~StartBreak
      <4>1. intr' = intr
        BY <3>2 DEF StartTask, StartBehind, StartNoSlot, StartNoStep, Launch
      <4> QED BY <1>2, <4>1 DEF NoInterrupt
    <3> QED BY <3>1, <3>2
  <2>3. CASE Launch
    <3>1. work' = [i \in DOMAIN work \cup {nextStep} |->
                     IF i = nextStep THEN [node |-> h, st |-> "todo", res |-> "ok", to |-> {}]
                     ELSE work[i]]
      BY <2>3 DEF Launch
    <3> HIDE DEF h
    <3>2. /\ DOMAIN work' = DOMAIN work \cup {nextStep} /\ work'[nextStep].res = "ok"
          /\ \A i \in DOMAIN work : work'[i] = work[i]
      BY <1>2, <3>1
    <3>3. \A n \in Nodes : Cut(n)' = Cut(n)
      BY <1>1, <3>2 DEF Cut
    <3>4. \A i \in DOMAIN work' : work'[i].st \in {"todo", "wrote", "waiting"} => work'[i].res = "ok"
      BY <1>2, <3>2 DEF StoppedOK
    <3>5. \A n \in Nodes : Asked(n)' = 0
      BY <2>2 DEF Asked
    <3> QED BY <2>1, <3>3, <3>4, <3>5
  <2>4. CASE ~Launch
    <3>1. work' = work
      BY <2>4 DEF StartTask, StartBehind, StartBreak, StartNoSlot, StartNoStep
    <3> QED BY <1>1, <1>2, <2>1, <2>2, <3>1 DEF Cut, Asked, StoppedOK
  <2> QED BY <2>3, <2>4
<1>7. StoppedOK'
  <2>1. \A n \in Nodes : stopped[n] = Count(n, rerun) + Asked(n) + Cut(n)
    BY <1>1, <1>2 DEF StoppedOK
  <2>2. rerun = <<>> /\ stopped \in [Nodes -> Nat]
    BY <1>1, <1>2 DEF StoppedOK
  <2>3. \A n \in Nodes' : stopped'[n] = Count(n, rerun)' + Asked(n)' + Cut(n)'
    BY <1>1, <1>4, <1>6, <2>1
  <2> QED BY <1>1, <1>4, <1>6, <2>2, <2>3 DEF StoppedOK
<1> QED BY <1>4, <1>5, <1>7 DEF Owing

\* A result that is received no longer hides the task it ended.
LEMMA HeadReported ==
  ASSUME Typed, IInv, graph' = graph, work' = work, done # <<>>, done' = Tail(done)
  PROVE  /\ Head(done).node \in Nodes
         /\ \A n \in Nodes : Cut(n)' = IF n = Head(done).node THEN 0 ELSE Cut(n)
         /\ Cut(Head(done).node) = IF Head(done).res # "ok" THEN 1 ELSE 0
<1>1. /\ Len(done) \in Nat /\ Len(done) >= 1
      /\ DOMAIN done = 1..Len(done) /\ Head(done) = done[1]
      /\ DOMAIN Tail(done) = 1..(Len(done) - 1)
      /\ \A j \in 1..(Len(done) - 1) : Tail(done)[j] = done[j + 1]
  <2>1. PICK S : S = ToSet(done)
    OBVIOUS
  <2>2. done \in Seq(S) /\ done # <<>>
    BY <2>1 DEF IInv, Loose
  <2> QED BY <2>2, Places
<1>2. PICK r : r = Head(done)
  OBVIOUS
<1>3. 1 \in DOMAIN done /\ done[1] = r
  BY <1>1, <1>2
<1>4. r.node \in Nodes
  BY <1>3 DEF Typed, WorkOK, ResultOK
<1>5. /\ \A j \in DOMAIN done : done[j].node = r.node => j = 1
      /\ \A i \in DOMAIN work : work[i].node # r.node
  BY <1>3 DEF IInv, OneReport
<1>6. /\ \A j \in DOMAIN done' : j + 1 \in DOMAIN done /\ j + 1 # 1 /\ done'[j] = done[j + 1]
      /\ \A j \in DOMAIN done : j # 1 => j - 1 \in DOMAIN done' /\ done'[j - 1] = done[j]
  <2>1. \A j \in DOMAIN done' : j + 1 \in DOMAIN done /\ j + 1 # 1 /\ done'[j] = done[j + 1]
    BY <1>1
  <2>2. ASSUME NEW j \in DOMAIN done, j # 1
        PROVE  j - 1 \in DOMAIN done' /\ done'[j - 1] = done[j]
    <3>1. j - 1 \in 1..(Len(done) - 1) /\ (j - 1) + 1 = j
      BY <1>1, <2>2
    <3> QED BY <1>1, <3>1
  <2> QED BY <2>1, <2>2
<1>7. Cut(r.node) = IF r.res # "ok" THEN 1 ELSE 0
  BY <1>3, <1>5 DEF Cut
<1>8. ASSUME NEW n \in Nodes
      PROVE  Cut(n)' = IF n = r.node THEN 0 ELSE Cut(n)
  <2>1. CASE n = r.node
    <3>1. \A j \in DOMAIN done' : done'[j].node # n
      BY <1>5, <1>6, <2>1
    <3> QED BY <1>5, <2>1, <3>1 DEF Cut
  <2>2. CASE n # r.node
    <3>1. (\E j \in DOMAIN done' : done'[j].node = n /\ done'[j].res # "ok")
            <=> (\E j \in DOMAIN done : done[j].node = n /\ done[j].res # "ok")
      <4>1. ASSUME NEW j \in DOMAIN done, done[j].node = n, done[j].res # "ok"
            PROVE  \E m \in DOMAIN done' : done'[m].node = n /\ done'[m].res # "ok"
        <5>1. j # 1
          BY <1>3, <2>2, <4>1
        <5>2. j - 1 \in DOMAIN done' /\ done'[j - 1] = done[j]
          BY <1>6, <5>1
        <5> QED BY <4>1, <5>2
      <4>2. ASSUME NEW j \in DOMAIN done', done'[j].node = n, done'[j].res # "ok"
            PROVE  \E m \in DOMAIN done : done[m].node = n /\ done[m].res # "ok"
        <5>1. j + 1 \in DOMAIN done /\ done'[j] = done[j + 1]
          BY <1>6
        <5> QED BY <4>2, <5>1
      <4> QED BY <4>1, <4>2
    <3>2. \A i \in DOMAIN work : work'[i] = work[i]
      OBVIOUS
    <3> QED BY <2>2, <3>1, <3>2 DEF Cut
  <2> QED BY <2>1, <2>2
<1> QED BY <1>2, <1>4, <1>7, <1>8

\* handleTaskResult counts an error where it arrives: with the tasks to run again, or as the
\* interrupt itself.
LEMMA ResultStopped ==
  ASSUME Typed, IInv, Owing, HandleTaskResult
  PROVE  StoppedOK'
<1> DEFINE woken == Copies(Head(done).node, waiting[Head(done).node])
<1>1. PICK r : r = Head(done)
  OBVIOUS
<1>2. /\ done # <<>> /\ done' = Tail(done) /\ work' = work /\ stopped' = stopped /\ graph' = graph
      /\ ResultOk(r, woken) \/ ResultError(r, woken)
  BY <1>1 DEF HandleTaskResult, graphVars
<1> HIDE DEF woken
<1>3. /\ r.node \in Nodes /\ Cut(r.node) = IF r.res # "ok" THEN 1 ELSE 0
      /\ \A n \in Nodes : Cut(n)' = IF n = r.node THEN 0 ELSE Cut(n)
  BY <1>1, <1>2, HeadReported
<1>4. StoppedOK /\ Nodes' = Nodes /\ rerun \in Seq(Nodes)
      /\ (draining = "no" => intr = NoInterrupt)
  BY <1>2 DEF Owing, Nodes, Typed, DrainOK
<1>5. /\ stopped' \in [Nodes' -> Nat]
      /\ \A i \in DOMAIN work' : work'[i].st \in {"todo", "wrote", "waiting"} => work'[i].res = "ok"
  BY <1>2, <1>4 DEF StoppedOK
<1>6. ASSUME draining \in {"no", "interrupt"}, NEW n \in Nodes
      PROVE  stopped[n] = Count(n, rerun) + Asked(n) + Cut(n)
  BY <1>4, <1>6 DEF StoppedOK
<1>7. ASSUME NEW n \in Nodes
      PROVE  Count(n, rerun) \in Nat /\ Asked(n) \in {0, 1} /\ Cut(n) \in {0, 1}
  <2>1. Count(n, rerun) \in Nat
    BY <1>4, CountParts
  <2> QED BY <2>1 DEF Asked, Cut
<1>8. draining' = "no" => rerun' = <<>>
  <2>1. draining' = "no" => draining = "no" /\ rerun' = rerun
    BY <1>2 DEF ResultOk, ResultError, Interrupted
  <2> QED BY <1>4, <2>1 DEF StoppedOK
<1>9. ASSUME draining' \in {"no", "interrupt"}, NEW n \in Nodes
      PROVE  stopped'[n] = Count(n, rerun)' + Asked(n)' + Cut(n)'
  <2>1. draining \in {"no", "interrupt"}
    BY <1>2, <1>9 DEF ResultOk, ResultError, Interrupted
  <2>2. stopped'[n] = Count(n, rerun) + Asked(n) + Cut(n)
    BY <1>2, <1>6, <2>1
  <2>3. CASE ResultOk(r, woken)
    <3>1. Cut(n)' = Cut(n) /\ rerun' = rerun
      BY <1>3, <2>3 DEF ResultOk
    <3>2. Asked(n)' = Asked(n)
      <4>1. CASE intr' = intr
        BY <4>1 DEF Asked
      <4>2. CASE draining = "no" /\ Interrupted("after", r.node, r.id)
        BY <1>4, <4>2 DEF Asked, Interrupted, NoInterrupt
      <4> QED BY <2>3, <4>1, <4>2 DEF ResultOk
    <3> QED BY <2>2, <3>1, <3>2
  <2>4. CASE ResultError(r, woken)
    <3>1. r.res # "ok"
      BY <2>4 DEF ResultError
    <3>2. Cut(n) = (IF n = r.node THEN 1 ELSE 0) + Cut(n)'
      BY <1>3, <1>7, <3>1
    <3>3. CASE Asked(n)' = Asked(n) /\ rerun' = Append(rerun, r.node)
      <4>1. Count(n, rerun)' = Count(n, rerun) + (IF n = r.node THEN 1 ELSE 0)
        BY <1>3, <1>4, <3>3, CountAppend
      <4> QED BY <1>3, <1>7, <2>2, <3>2, <3>3, <4>1
    <3>4. CASE Asked(n)' = Asked(n) + (IF n = r.node THEN 1 ELSE 0) /\ rerun' = rerun
      BY <1>3, <1>7, <2>2, <3>2, <3>4
    <3>5. CASE draining = "interrupt"
      <4>1. intr' = intr /\ rerun' = Append(rerun, r.node)
        BY <2>4, <3>5 DEF ResultError, RerunNode
      <4> QED BY <3>3, <4>1 DEF Asked
    <3>6. CASE draining = "no" /\ Interrupted("forced", "none", nextStep - 1) /\ RerunNode(r)
      BY <1>4, <3>3, <3>6 DEF Asked, Interrupted, NoInterrupt, RerunNode
    <3>7. CASE draining = "no" /\ Interrupted("internal", r.node, r.id) /\ rerun' = rerun
      BY <1>4, <3>4, <3>7 DEF Asked, Interrupted, NoInterrupt
    <3> QED BY <1>9, <2>1, <2>4, <3>5, <3>6, <3>7 DEF ResultError
  <2> QED BY <1>2, <2>3, <2>4
<1> QED BY <1>4, <1>5, <1>8, <1>9 DEF StoppedOK

LEMMA HandleTaskResultOwing ==
  ASSUME Typed, IInv, Owing, HandleTaskResult
  PROVE  Owing'
<1> DEFINE woken == Copies(Head(done).node, waiting[Head(done).node])
<1>1. PICK r : r = Head(done)
  OBVIOUS
<1>2. /\ pc \in {"wait", "select"} /\ pc' = "loop" /\ graph' = graph /\ known' = known /\ ckpt' = ckpt
      /\ done # <<>> /\ done' = Tail(done) /\ work' = work
      /\ ResultOk(r, woken) \/ ResultError(r, woken)
  BY <1>1 DEF HandleTaskResult, graphVars, saveVars
<1>3. r.node \in Nodes
  BY <1>1, <1>2, HeadReported
<1>4. woken \in Seq(Nodes) /\ ready \in Seq(Nodes) /\ Planned \in Seq(Nodes)
  <2>1. waiting[r.node] \in Nat
    BY <1>3 DEF Typed, LoopOK
  <2>2. woken \in Seq(Nodes)
    BY <1>1, <1>3, <2>1, CopiesTyped
  <2>3. Planned \in Seq(Nodes)
    BY PlannedTyped DEF Typed, GraphOK, ChanOK
  <2> QED BY <2>2, <2>3 DEF Typed, LoopOK
<1> HIDE DEF woken
<1>5. JoinsOK' /\ InputOK' /\ ResumedOK' /\ KeptOK'
  BY <1>2, OwingFrames
<1>6. FanOK'
  <2>1. CASE pendT' = pendT
    BY <1>2, <2>1, OwingFrames
  <2>2. CASE pendT' = <<>>
    BY <2>2 DEF FanOK
  <2> QED BY <1>2, <2>1, <2>2 DEF ResultOk, ResultError, PlanDagTasks
<1>7. BeforeOK'
  <2> SUFFICES ASSUME draining' = "interrupt", intr'.kind = "before"
               PROVE  intr'.node \in ToSet(ready')
    BY DEF BeforeOK
  <2>1. draining = "interrupt" /\ intr' = intr /\ ready' = ready \o woken
    BY <1>2 DEF ResultOk, ResultError, Interrupted, Scheduling
  <2>2. intr.node \in ToSet(ready)
    BY <2>1 DEF Owing, BeforeOK
  <2>3. PICK j \in DOMAIN ready : ready[j] = intr.node
    BY <2>2 DEF ToSet
  <2>4. j \in DOMAIN (ready \o woken) /\ (ready \o woken)[j] = intr.node
    BY <1>4, <2>3
  <2> QED BY <2>1, <2>4 DEF ToSet
<1> QED BY <1>5, <1>6, <1>7, ResultStopped DEF Owing

LEMMA LoopOwing ==
  ASSUME Typed, IInv, Owing, Loop
  PROVE  Owing'
<1>1. CASE InputCheckpoint
  <2> DEFINE k == Snapshot(-1, <<Entry>>, EmptyBag, "none")
  <2>1. /\ pc = "input" /\ pc' = "loop" /\ graph' = graph /\ known' = known
        /\ ckpt' = k \/ ckpt' = ckpt
        /\ UNCHANGED <<workVars, draining, intr, rerun, stopped, ready, pendT>>
    BY <1>1 DEF InputCheckpoint, SaveInRun, Save, graphVars, loopVars, drainVars, workVars, chanVars,
                saveVars
  <2>2. StoppedOK' /\ BeforeOK' /\ JoinsOK' /\ FanOK' /\ InputOK' /\ ResumedOK'
    BY <2>1, OwingFrames
  <2>3. PICK stp : stp = -1
    OBVIOUS
  <2>4. Kept(Snapshot(stp, <<Entry>>, EmptyBag, "none"))
    BY <2>1, InputKept
  <2>5. Kept(k)
    BY <2>3, <2>4
  <2> HIDE DEF k
  <2>6. KeptOK'
    BY <2>1, <2>5, SaveKept
  <2> QED BY <2>2, <2>6 DEF Owing
<1>2. CASE MaybeRequestExternalInterrupt \/ StartedAll \/ PollDone
  <2>1. /\ pc' \in {"start", "plan", "select"} /\ pc # "completed" /\ graph' = graph /\ known' = known
        /\ ckpt' = ckpt
        /\ UNCHANGED <<workVars, draining, intr, rerun, stopped, ready, pendT>>
    BY <1>2 DEF MaybeRequestExternalInterrupt, StartedAll, PollDone, graphVars, loopVars, drainVars,
                workVars, chanVars, saveVars
  <2> QED BY <2>1, OwingFrames DEF Owing
<1>3. CASE PlanIfIdle
  <2>1. /\ pc' = "final" /\ pc = "plan" /\ graph' = graph /\ known' = known /\ ckpt' = ckpt
        /\ UNCHANGED <<workVars, draining, intr, rerun, stopped>>
        /\ (draining = "no" /\ pendT' = <<>>) \/ (UNCHANGED <<ready, pendT>>)
    BY <1>3 DEF PlanIfIdle, PlanDagTasks, Scheduling, graphVars, drainVars, workVars, saveVars
  <2>2. StoppedOK' /\ JoinsOK' /\ InputOK' /\ ResumedOK' /\ KeptOK'
    BY <2>1, OwingFrames
  <2>3. CASE draining = "no" /\ pendT' = <<>>
    BY <2>1, <2>2, <2>3 DEF Owing, BeforeOK, FanOK
  <2>4. CASE UNCHANGED <<ready, pendT>>
    BY <2>1, <2>2, <2>4, OwingFrames DEF Owing
  <2> QED BY <2>1, <2>3, <2>4
<1>4. CASE HandleContextDone
  <2>1. /\ pc' = "loop" /\ pc = "select" /\ graph' = graph /\ known' = known /\ ckpt' = ckpt
        /\ UNCHANGED <<workVars, rerun, stopped, ready, pendT>>
        /\ \/ UNCHANGED <<draining, intr>>
           \/ draining = "no" /\ Interrupted("forced", "none", nextStep - 1)
           \/ draining' = "error"
    BY <1>4 DEF HandleContextDone, graphVars, loopVars, workVars, chanVars, saveVars
  <2>2. JoinsOK' /\ FanOK' /\ InputOK' /\ ResumedOK' /\ KeptOK' /\ Nodes' = Nodes
    BY <2>1, OwingFrames
  <2>3. StoppedOK /\ (draining = "no" => intr = NoInterrupt)
    BY DEF Owing, Typed, DrainOK
  <2>4. CASE UNCHANGED <<draining, intr>>
    BY <2>1, <2>2, <2>4, OwingFrames DEF Owing
  <2>5. CASE draining = "no" /\ Interrupted("forced", "none", nextStep - 1)
    <3>1. intr = NoInterrupt /\ rerun' = rerun /\ intr'.kind = "forced"
      BY <2>1, <2>3, <2>5 DEF Interrupted
    <3>2. \A n \in Nodes : Asked(n) = 0 /\ Asked(n)' = 0 /\ Cut(n)' = Cut(n)
      BY <2>1, <3>1 DEF Asked, Cut, workVars, NoInterrupt
    <3>3. BeforeOK'
      BY <3>1 DEF BeforeOK
    <3>4. \A n \in Nodes : stopped[n] = Count(n, rerun) + Asked(n) + Cut(n)
      BY <2>3, <2>5 DEF StoppedOK
    <3>5. \A n \in Nodes' : stopped'[n] = Count(n, rerun)' + Asked(n)' + Cut(n)'
      BY <2>1, <2>2, <3>2, <3>4
    <3>6. StoppedOK'
      BY <2>1, <2>2, <2>3, <2>5, <3>5 DEF StoppedOK, Interrupted, workVars
    <3> QED BY <2>2, <3>3, <3>6 DEF Owing
  <2>6. CASE draining' = "error"
    <3>1. StoppedOK' /\ BeforeOK'
      BY <2>1, <2>2, <2>3, <2>6 DEF StoppedOK, BeforeOK, workVars
    <3> QED BY <2>2, <3>1 DEF Owing
  <2> QED BY <2>1, <2>4, <2>5, <2>6
<1>5. CASE StartTask
  BY <1>5, StartTaskOwing
<1>6. CASE TryFinalize
  BY <1>6, FinalOwing
<1>7. CASE HandleTaskResult
  BY <1>7, HandleTaskResultOwing
<1> QED BY <1>1, <1>2, <1>3, <1>4, <1>5, <1>6, <1>7 DEF Loop, WaitForEvent

\* A worker that goes on, and one that fails, as the loop will count them.
LEMMA ProgressCut ==
  ASSUME IInv, graph' = graph, done' = done,
         NEW i \in DOMAIN work, NEW st, NEW res, NEW to, Progress(i, st, res, to)
  PROVE  /\ res = work[i].res => \A n \in Nodes : Cut(n)' = Cut(n)
         /\ res # "ok" /\ work[i].res = "ok"
              => \A n \in Nodes : Cut(n)' = Cut(n) + (IF n = work[i].node THEN 1 ELSE 0)
<1>1. /\ DOMAIN work' = DOMAIN work /\ work'[i].node = work[i].node /\ work'[i].res = res
      /\ \A j \in DOMAIN work : j # i => work'[j] = work[j]
  BY DEF Progress
<1>2. \A j \in DOMAIN work : work'[j].node = work[j].node
  BY <1>1
<1>3. ASSUME res = work[i].res
      PROVE  \A n \in Nodes : Cut(n)' = Cut(n)
  <2>1. \A j \in DOMAIN work : work'[j].res = work[j].res
    BY <1>1, <1>3
  <2> QED BY <1>1, <1>2, <2>1 DEF Cut
<1>4. ASSUME res # "ok", work[i].res = "ok", NEW n \in Nodes
      PROVE  Cut(n)' = Cut(n) + (IF n = work[i].node THEN 1 ELSE 0)
  <2>1. /\ \A j \in DOMAIN work : work[j].node = work[i].node => j = i
        /\ \A j \in DOMAIN done : done[j].node # work[i].node
    BY DEF IInv, OneTaskPerNode, OneReport
  <2>2. CASE n = work[i].node
    <3>1. Cut(n) = 0
      BY <1>4, <2>1, <2>2 DEF Cut
    <3>2. Cut(n)' = 1
      BY <1>1, <1>4, <2>2 DEF Cut
    <3> QED BY <2>2, <3>1, <3>2
  <2>3. CASE n # work[i].node
    <3>1. (\E j \in DOMAIN work' : work'[j].node = n /\ work'[j].res # "ok")
            <=> (\E j \in DOMAIN work : work[j].node = n /\ work[j].res # "ok")
      BY <1>1, <1>2, <2>3
    <3>2. Cut(n)' = Cut(n)
      BY <3>1 DEF Cut
    <3>3. Cut(n) \in {0, 1}
      BY DEF Cut
    <3> QED BY <2>3, <3>2, <3>3
  <2> QED BY <2>2, <2>3
<1> QED BY <1>3, <1>4

\* A result on its way hides the task as the worker did.
LEMMA SendCut ==
  ASSUME IInv, graph' = graph, NEW i \in DOMAIN work, SendDone(i)
  PROVE  \A n \in Nodes : Cut(n)' = Cut(n)
<1> TAKE n \in Nodes
<1>1. PICK r : r = [id |-> i, node |-> work[i].node, res |-> work[i].res]
  OBVIOUS
<1>2. /\ done' = Append(done, r) /\ work' = [j \in DOMAIN work \ {i} |-> work[j]]
      /\ r.node = work[i].node /\ r.res = work[i].res
  BY <1>1 DEF SendDone
<1>3. /\ Len(done) \in Nat /\ DOMAIN done = 1..Len(done)
      /\ DOMAIN done' = 1..(Len(done) + 1) /\ done'[Len(done) + 1] = r
      /\ \A j \in DOMAIN done : done'[j] = done[j]
  <2>1. PICK S : S = ToSet(done) \cup {r}
    OBVIOUS
  <2>2. done \in Seq(S) /\ r \in S
    <3>1. done \in Seq(ToSet(done)) /\ ToSet(done) \subseteq S
      BY <2>1 DEF IInv, Loose
    <3> QED BY <2>1, <3>1
  <2> QED BY <1>2, <2>2
<1>4. /\ DOMAIN work' = DOMAIN work \ {i} /\ \A j \in DOMAIN work' : work'[j] = work[j]
  BY <1>2
<1>5. ASSUME NEW j \in DOMAIN work', work'[j].node = n, work'[j].res # "ok"
      PROVE  \E m \in DOMAIN work : work[m].node = n /\ work[m].res # "ok"
  BY <1>4, <1>5
<1>6. ASSUME NEW j \in DOMAIN done', done'[j].node = n, done'[j].res # "ok"
      PROVE  \/ \E m \in DOMAIN work : work[m].node = n /\ work[m].res # "ok"
             \/ \E m \in DOMAIN done : done[m].node = n /\ done[m].res # "ok"
  <2>1. CASE j = Len(done) + 1
    BY <1>2, <1>3, <1>6, <2>1
  <2>2. CASE j # Len(done) + 1
    <3>1. j \in DOMAIN done
      BY <1>3, <2>2
    <3> QED BY <1>3, <1>6, <3>1
  <2> QED BY <2>1, <2>2
<1>7. ASSUME NEW j \in DOMAIN work, work[j].node = n, work[j].res # "ok"
      PROVE  \/ \E m \in DOMAIN work' : work'[m].node = n /\ work'[m].res # "ok"
             \/ \E m \in DOMAIN done' : done'[m].node = n /\ done'[m].res # "ok"
  <2>1. CASE j = i
    <3>1. Len(done) + 1 \in DOMAIN done'
      BY <1>3
    <3> QED BY <1>2, <1>3, <1>7, <2>1, <3>1
  <2>2. CASE j # i
    BY <1>4, <1>7, <2>2
  <2> QED BY <2>1, <2>2
<1>8. ASSUME NEW j \in DOMAIN done, done[j].node = n, done[j].res # "ok"
      PROVE  \E m \in DOMAIN done' : done'[m].node = n /\ done'[m].res # "ok"
  <2>1. j \in DOMAIN done'
    BY <1>3
  <2> QED BY <1>3, <1>8, <2>1
<1> QED BY <1>5, <1>6, <1>7, <1>8 DEF Cut

LEMMA WorkerOwing ==
  ASSUME Typed, IInv, Owing, NEW i \in DOMAIN work, Worker(i)
  PROVE  Owing'
<1>1. /\ graph' = graph /\ UNCHANGED <<ready, draining, intr, rerun, ckpt, pc>>
  BY DEF Worker, RunWorker, FinishWorker, ReleaseBarrier, InterruptWorker, FailWorker, BarrierTimesOut,
         CancelWorker, StopWorker, ReleaseWorker, SendDone, UNCHANGED_Work, loopVars, drainVars, saveVars
<1>2. pc \notin {"input", "resumed", "completed"}
  <2>1. work # NoWork
    BY DEF NoWork
  <2> QED BY <2>1 DEF Owing, InputOK, ResumedOK, Idle, IInv, NoneLeftBehind
<1>3. BeforeOK' /\ InputOK' /\ ResumedOK' /\ KeptOK' /\ Nodes' = Nodes /\ Channels' = Channels
      /\ Compiled' = Compiled
  BY <1>1, <1>2, OwingFrames
<1>4. StoppedOK /\ JoinsOK /\ FanOK /\ Nodes' = Nodes
  BY <1>3 DEF Owing
<1>5. work[i].node \in Nodes
  BY DEF Typed, WorkOK, TaskOK
<1>6. JoinsOK'
  <2>1. CASE known' = known
    BY <1>1, <2>1, OwingFrames
  <2>2. ASSUME NEW T, T # "join", NEW S, known' = known \cup {<<T, m>> : m \in S}
        PROVE  JoinsOK'
    <3>1. \A m \in S : ~IsJoin(<<T, m>>)
      BY <2>2 DEF IsJoin
    <3> QED BY <1>3, <1>4, <2>2, <3>1 DEF JoinsOK
  <2>3. \/ known' = known
        \/ \E S : known' = known \cup {<<"trigger", m>> : m \in S}
        \/ \E S : known' = known \cup {<<"branch", m>> : m \in S}
    BY DEF Worker, RunWorker, ResultState, ResultGoTo, ResultFanOut, FinishWorker, ReleaseBarrier,
           InterruptWorker, FailWorker, BarrierTimesOut, CancelWorker, StopWorker, ReleaseWorker, SendDone
  <2> QED BY <2>1, <2>2, <2>3
<1>7. FanOK'
  <2>1. CASE pendT' = pendT
    BY <1>1, <2>1, OwingFrames
  <2>2. CASE pendT' # pendT
    <3>1. \E o \in Outcomes[work[i].node] : o.kind = "fan"
      BY <2>2 DEF Worker, RunWorker, ResultState, ResultGoTo, ResultFanOut, FinishWorker, ReleaseBarrier,
           InterruptWorker, FailWorker, BarrierTimesOut, CancelWorker, StopWorker, ReleaseWorker, SendDone,
           chanVars
    <3>2. ~NoFanOut
      BY <1>5, <3>1 DEF NoFanOut
    <3>3. Outcomes' = Outcomes
      BY <1>1 DEF Outcomes
    <3> QED BY <1>3, <3>2, <3>3 DEF FanOK, NoFanOut
  <2> QED BY <2>1, <2>2
<1>8. StoppedOK'
  <2>1. ASSUME NEW st, NEW to, NEW res, Progress(i, st, res, to), done' = done,
               res = work[i].res, stopped' = stopped,
               st \in {"todo", "wrote", "waiting"} => res = "ok"
        PROVE  StoppedOK'
    <3>1. \A n \in Nodes : Cut(n)' = Cut(n)
      BY <1>1, <2>1, ProgressCut
    <3>2. \A j \in DOMAIN work' : work'[j].st \in {"todo", "wrote", "waiting"} => work'[j].res = "ok"
      BY <1>4, <2>1 DEF StoppedOK, Progress
    <3>3. \A n \in Nodes : Asked(n)' = Asked(n) /\ Count(n, rerun)' = Count(n, rerun)
      BY <1>1 DEF Asked
    <3> QED BY <1>1, <1>4, <2>1, <3>1, <3>2, <3>3 DEF StoppedOK
  <2>2. ASSUME NEW res, res # "ok", work[i].res = "ok", StopWorker(i, res)
        PROVE  StoppedOK'
    <3>1. /\ Progress(i, "ended", res, {}) /\ done' = done
          /\ stopped' = [stopped EXCEPT ![work[i].node] = @ + 1]
      BY <2>2 DEF StopWorker
    <3>2. \A n \in Nodes : Cut(n)' = Cut(n) + (IF n = work[i].node THEN 1 ELSE 0)
      BY <1>1, <2>2, <3>1, ProgressCut
    <3>3. \A j \in DOMAIN work' : work'[j].st \in {"todo", "wrote", "waiting"} => work'[j].res = "ok"
      BY <1>4, <3>1 DEF StoppedOK, Progress
    <3>4. \A n \in Nodes : Asked(n)' = Asked(n) /\ Count(n, rerun)' = Count(n, rerun)
      BY <1>1 DEF Asked
    <3>5. \A n \in Nodes : stopped'[n] = stopped[n] + (IF n = work[i].node THEN 1 ELSE 0)
      BY <1>4, <1>5, <3>1 DEF StoppedOK
    <3>6. stopped' \in [Nodes' -> Nat]
      BY <1>4, <1>5, <3>1 DEF StoppedOK
    <3>7. ASSUME draining \in {"no", "interrupt"}, NEW n \in Nodes
          PROVE  stopped'[n] = Count(n, rerun)' + Asked(n)' + Cut(n)'
      <4>1. stopped[n] = Count(n, rerun) + Asked(n) + Cut(n)
        BY <1>4, <3>7 DEF StoppedOK
      <4>2. rerun \in Seq(Nodes)
        BY DEF Typed, DrainOK
      <4>3. Count(n, rerun) \in Nat /\ Asked(n) \in {0, 1} /\ Cut(n) \in {0, 1}
        BY <4>2, CountParts DEF Asked, Cut
      <4>4. stopped'[n] = Count(n, rerun) + Asked(n) + (Cut(n) + (IF n = work[i].node THEN 1 ELSE 0))
        BY <3>5, <4>1, <4>3
      <4> QED BY <3>2, <3>4, <4>4
    <3> QED BY <1>1, <1>4, <3>3, <3>6, <3>7 DEF StoppedOK
  <2>3. At(i, "todo") \/ At(i, "wrote") \/ At(i, "waiting") => work[i].res = "ok"
    BY <1>4 DEF StoppedOK, At
  <2>4. CASE InterruptWorker(i) \/ FailWorker(i) \/ BarrierTimesOut(i) \/ CancelWorker(i)
    <3>1. work[i].res = "ok" /\ \E res \in {"interrupt", "error"} : StopWorker(i, res)
      BY <2>3, <2>4 DEF InterruptWorker, FailWorker, BarrierTimesOut, CancelWorker
    <3> QED BY <2>2, <3>1
  <2>5. CASE RunWorker(i) \/ FinishWorker(i) \/ ReleaseBarrier(i)
    <3>1. work[i].res = "ok"
      BY <2>3, <2>5 DEF RunWorker, FinishWorker, ReleaseBarrier
    <3>2. done' = done /\ stopped' = stopped /\ \E st, to : Progress(i, st, "ok", to)
      BY <2>5 DEF RunWorker, FinishWorker, ReleaseBarrier, ResultState, ResultGoTo, ResultFanOut
    <3> QED BY <2>1, <3>1, <3>2
  <2>6. CASE ReleaseWorker(i)
    <3>1. Progress(i, "released", work[i].res, {}) /\ done' = done /\ stopped' = stopped
      BY <2>6 DEF ReleaseWorker
    <3> QED BY <2>1, <3>1
  <2>7. CASE SendDone(i)
    <3>1. \A n \in Nodes : Cut(n)' = Cut(n)
      BY <1>1, <2>7, SendCut
    <3>2. stopped' = stopped /\ work' = [j \in DOMAIN work \ {i} |-> work[j]]
      BY <2>7 DEF SendDone
    <3>3. \A j \in DOMAIN work' : work'[j].st \in {"todo", "wrote", "waiting"} => work'[j].res = "ok"
      BY <1>4, <3>2 DEF StoppedOK
    <3>4. \A n \in Nodes : Asked(n)' = Asked(n) /\ Count(n, rerun)' = Count(n, rerun)
      BY <1>1 DEF Asked
    <3> QED BY <1>1, <1>4, <3>1, <3>2, <3>3, <3>4 DEF StoppedOK
  <2> QED BY <2>4, <2>5, <2>6, <2>7 DEF Worker
<1> QED BY <1>3, <1>6, <1>7, <1>8 DEF Owing

LEMMA StepOwing ==
  ASSUME Typed, IInv, Owing, [Next]_vars
  PROVE  Owing'
<1>1. CASE Execute
  BY <1>1, ExecuteOwing
<1>2. CASE Loop
  BY <1>2, LoopOwing
<1>3. CASE Workers
  BY <1>3, WorkerOwing DEF Workers
<1>4. CASE Environment
  BY <1>4, EnvironmentOwing
<1>5. CASE UNCHANGED vars
  <2>1. /\ graph' = graph
        /\ UNCHANGED <<pc, ready, waiting, pendT, stopped, work, workVars, chan, ckpt, known, draining,
                       intr, rerun>>
    BY <1>5 DEF vars, graphVars, loopVars, drainVars, workVars, chanVars, saveVars
  <2>2. StoppedOK' /\ BeforeOK' /\ JoinsOK' /\ FanOK' /\ Compiled' = Compiled /\ Nodes' = Nodes
    BY <2>1, OwingFrames
  <2>3. InputOK' /\ ResumedOK'
    BY <2>1, PhaseSame
  <2>4. KeptOK'
    <3>1. CASE pc # "completed"
      BY <2>1, <3>1, OwingFrames
    <3>2. CASE pc = "completed"
      BY <2>1, <3>2, OwingFrames
    <3> QED BY <3>1, <3>2
  <2> QED BY <2>2, <2>3, <2>4 DEF Owing
<1> QED BY <1>1, <1>2, <1>3, <1>4, <1>5 DEF Next

\* For every graph the accounts of the loop are right: each task that a worker reported with an
\* error is queued to run again, is the interrupt itself or is still on its way, and what a
\* checkpoint lists covers what was owed when it was taken.
THEOREM OwingInductive == Spec => []Owing
BY InitOwing, StepOwing, Inductive, TypesInductive, PTL DEF Spec
--------------------------------------------------------------------------------
(* What a resumed execution owes is what its checkpoint lists and brings back.  *)

LEMMA ResumedOwes ==
  ASSUME Typed, Owing, pc = "resumed", graph \notin Again, NEW n \in Nodes
  PROVE  /\ Kept(ckpt) /\ Listed(ckpt, n) \in Nat /\ Back(ckpt, n) \in {0, 1}
         /\ OwedAtMost[n] = Listed(ckpt, n) + Back(ckpt, n)
         /\ OwedAtLeast[n] = IF Listed(ckpt, n) > 0 THEN Listed(ckpt, n) ELSE Back(ckpt, n)
<1>1. /\ waiting = None /\ pendT = <<>> /\ stopped = None /\ work = NoWork /\ ckpt # NoCheckpoint
      /\ ready = ExecutableNextNodes(ckpt) /\ \A c \in Channels : chan[c] = Replayed(ckpt, c)
  BY DEF Owing, ResumedOK, Idle
<1>2. Kept(ckpt) /\ JoinsOK
  BY <1>1 DEF Owing, KeptOK
<1>3. ckpt.writes = EmptyBag /\ ckpt.next \in Seq(Nodes) /\ ready = ckpt.next
  BY <1>1, <1>2 DEF Kept, Typed, CkptOK, CheckpointOK, ExecutableNextNodes
<1>4. Listed(ckpt, n) = Tasks(n) /\ Tasks(n) \in Nat
  <2>1. waiting[n] = 0 /\ stopped[n] = 0 /\ Count(n, pendT) = 0
    BY <1>1, CountNone DEF None
  <2>2. {i \in DOMAIN work : work[i].node = n /\ work[i].res = "ok" /\ work[i].st \in {"todo", "wrote"}} = {}
    BY <1>1 DEF NoWork
  <2>3. Tasks(n) = Count(n, ready) + 0 + 0 + 0 + 0
    BY <2>1, <2>2, FS_EmptySet DEF Tasks
  <2>4. Count(n, ready) \in Nat
    BY <1>3, CountParts
  <2> QED BY <1>3, <2>3, <2>4 DEF Listed
<1>5. \A c \in Channels : chan[c].avail = (IsJoin(c) /\ ckpt.seen[c] # {} /\ Satisfied(c, ckpt.seen[c]))
  <2> TAKE c \in Channels
  <2>1. {w \in BagToSet(ckpt.writes) : w[1] = c} = {}
    BY <1>3 DEF EmptyBag, BagToSet, SetToBag
  <2>2. Replayed(ckpt, c) = RestoredChannel(ckpt, c)
    BY <2>1 DEF Replayed
  <2> QED BY <1>1, <2>2 DEF RestoredChannel
<1>6. Trigger(n) = Back(ckpt, n) /\ Back(ckpt, n) \in {0, 1}
  <2>1. ASSUME n \in GetNextNodes
        PROVE  Back(ckpt, n) = 1
    <3>1. PICK c \in Channels : chan[c].avail /\ c \in known /\ Target(c) = n
      BY <2>1 DEF GetNextNodes, Available
    <3>2. IsJoin(c) /\ ckpt.seen[c] # {} /\ Satisfied(c, ckpt.seen[c])
      BY <1>5, <3>1
    <3>3. c = <<"join", n>> /\ c \in Compiled
      BY <1>2, <3>1, <3>2 DEF Channels, IsJoin, Target, JoinsOK
    <3> QED BY <3>2, <3>3 DEF Back
  <2>2. ASSUME Back(ckpt, n) # 0
        PROVE  n \in GetNextNodes
    <3>1. PICK c : c = <<"join", n>>
      OBVIOUS
    <3>2. c \in Compiled /\ ckpt.seen[c] # {} /\ Satisfied(c, ckpt.seen[c])
      BY <2>2, <3>1 DEF Back
    <3>3. c \in Channels /\ IsJoin(c) /\ Target(c) = n /\ c \in known
      BY <1>2, <3>1, <3>2 DEF Channels, IsJoin, Target, JoinsOK
    <3>4. chan[c].avail
      BY <1>5, <3>2, <3>3
    <3> QED BY <3>3, <3>4 DEF GetNextNodes, Available
  <2>3. Back(ckpt, n) \in {0, 1}
    BY DEF Back
  <2> QED BY <2>1, <2>2, <2>3 DEF Trigger
<1>7. /\ OwedAtLeast[n] = IF Tasks(n) > 0 THEN Tasks(n) ELSE Trigger(n)
      /\ OwedAtMost[n] = Tasks(n) + Trigger(n)
  BY DEF OwedAtLeast, OwedAtMost
<1> QED BY <1>2, <1>4, <1>6, <1>7

\* NothingRepeated for every graph whose lineage is not run again after it completed: however
\* workers, errors, pauses, cancellations and failed saves interleave, what snapshotNextNodes and
\* handleInterrupt list is never more than what was owed.
THEOREM NothingRepeatedTheorem == Spec => [](graph \notin Again => NothingRepeated)
<1>1. Typed /\ Owing => (graph \notin Again => NothingRepeated)
  <2> SUFFICES ASSUME Typed, Owing, graph \notin Again, pc = "resumed", NEW n \in Nodes
               PROVE  OwedAtLeast[n] <= ckpt.atMost[n]
    BY DEF NothingRepeated
  <2> QED BY ResumedOwes DEF Kept
<1> QED BY <1>1, TypesInductive, OwingInductive, PTL

\* A resumed execution owes each node at least what the checkpointed one did, save that the node
\* whose question stopped it may have lost a run when it was owed several.
LostAtMostOne == pc = "resumed" => \A n \in Nodes : OwedAtMost[n] >= Least(ckpt, n)

\* For every graph without fan-outs handleInterrupt, which does not list a queued node a second
\* time, costs the node that asked at most one run and never its last, and no other node any.
THEOREM LostAtMostOneTheorem == Spec => [](graph \notin Again /\ NoFanOut => LostAtMostOne)
<1>1. Typed /\ Owing => (graph \notin Again /\ NoFanOut => LostAtMostOne)
  <2> SUFFICES ASSUME Typed, Owing, graph \notin Again, NoFanOut, pc = "resumed", NEW n \in Nodes
               PROVE  OwedAtMost[n] >= Least(ckpt, n)
    BY DEF LostAtMostOne
  <2> QED BY ResumedOwes DEF Kept
<1> QED BY <1>1, TypesInductive, OwingInductive, PTL

\* The node that asked, if any did, was owed the one run that its question stopped.
AskedAlone == ckpt # NoCheckpoint /\ ckpt.node \in Nodes => ckpt.atLeast[ckpt.node] <= 1

\* NothingLost for every graph without fan-outs: queued tasks, tasks behind one in flight, tasks cut
\* off by an error and triggered nodes all survive an interrupt, a pause or a crash, unless a node
\* asked while another task of it was queued.
THEOREM NothingLostTheorem == Spec => [](graph \notin Again /\ NoFanOut /\ AskedAlone => NothingLost)
<1>1. Typed /\ Owing => (graph \notin Again /\ NoFanOut /\ AskedAlone => NothingLost)
  <2> SUFFICES ASSUME Typed, Owing, graph \notin Again, NoFanOut, AskedAlone, pc = "resumed",
                      NEW n \in Nodes
               PROVE  OwedAtMost[n] >= ckpt.atLeast[n]
    BY DEF NothingLost
  <2>1. ckpt # NoCheckpoint
    BY DEF Owing, ResumedOK
  <2>2. ckpt.atLeast[n] \in Nat /\ OwedAtMost[n] >= Least(ckpt, n)
    BY ResumedOwes DEF Kept
  <2>3. ~(n = ckpt.node /\ ckpt.atLeast[n] > 1)
    BY <2>1, <2>2 DEF AskedAlone
  <2> QED BY <2>2, <2>3 DEF Least
<1> QED BY <1>1, TypesInductive, OwingInductive, PTL
===========================================================================
