--------------------------- MODULE GraphDagProofs ---------------------------
(***************************************************************************)
(* Proofs about GraphDag: for any graph, any number of worker slots and    *)
(* any bounds on the environment, the loop knows what is in flight.        *)
(***************************************************************************)
EXTENDS GraphDag, FiniteSetTheorems, TLAPS

(* The inductive invariant. *)

Busy == {work[i].node : i \in DOMAIN work}
Sent == {done[i].node : i \in DOMAIN done}
Stages == {"todo", "wrote", "waiting", "ended", "released"}

\* As much of the types as the rest needs; ids of workers are steps already taken.
Loose ==
  /\ waiting \in [Nodes -> Nat] /\ nextStep \in Int
  /\ work = [i \in DOMAIN work |-> work[i]] /\ done \in Seq(ToSet(done))
  /\ \A i \in DOMAIN work : i \in Int /\ i < nextStep /\ work[i].st \in Stages
  /\ \A i \in DOMAIN done : done[i].id \in Int
  /\ intr.step \in Int /\ ckpt.step \in Int

\* Every node in flight has a worker or a result on its way, and only one of these.
Reported ==
  /\ inFlight = Busy \cup Sent
  /\ \A n \in Nodes : waiting[n] > 0 => n \in inFlight
OneReport ==
  /\ \A i, j \in DOMAIN done : done[i].node = done[j].node => i = j
  /\ \A i \in DOMAIN work, j \in DOMAIN done : work[i].node # done[j].node

\* A worker holds its slot until it has ended.
Holding == {i \in DOMAIN work : work[i].st # "released"}
Slots ==
  /\ IsFiniteSet(Holding) /\ sem = Cardinality(Holding) /\ sem <= MaxConcurrency

IInv == Loose /\ Reported /\ OneReport /\ OneTaskPerNode /\ Slots /\ NoneLeftBehind

\* What a sequence, its tail and a longer one hold, at which index.
LEMMA Places ==
  ASSUME NEW S, NEW s \in Seq(S)
  PROVE  /\ Len(s) \in Nat /\ DOMAIN s = 1..Len(s)
         /\ s # <<>> => /\ Len(s) >= 1 /\ Head(s) = s[1]
                        /\ Tail(s) \in Seq(S) /\ DOMAIN Tail(s) = 1..(Len(s) - 1)
                        /\ \A j \in 1..(Len(s) - 1) : Tail(s)[j] = s[j + 1]
         /\ DOMAIN s = {} => s = <<>>
<1>1. Len(s) \in Nat /\ DOMAIN s = 1..Len(s)
  OBVIOUS
<1>2. ASSUME s # <<>>
      PROVE  /\ Len(s) >= 1 /\ Head(s) = s[1]
             /\ Tail(s) \in Seq(S) /\ DOMAIN Tail(s) = 1..(Len(s) - 1)
             /\ \A j \in 1..(Len(s) - 1) : Tail(s)[j] = s[j + 1]
  BY <1>2
<1>3. ASSUME DOMAIN s = {}
      PROVE  s = <<>>
  <2>1. Len(s) = 0
    BY <1>1, <1>3
  <2> QED BY <2>1
<1> QED BY <1>1, <1>2, <1>3

\* With nothing in flight there is no worker and no result.
LEMMA Empty ==
  ASSUME Loose, Reported, inFlight = {}
  PROVE  work = NoWork /\ done = <<>>
<1>1. DOMAIN work = {} /\ DOMAIN done = {}
  BY DEF Reported, Busy, Sent
<1>2. work = NoWork
  <2>1. work = [i \in {} |-> work[i]]
    BY <1>1 DEF Loose
  <2> QED BY <2>1 DEF NoWork
<1>3. done = <<>>
  <2>1. PICK S : S = ToSet(done)
    OBVIOUS
  <2>2. done \in Seq(S)
    BY <2>1 DEF Loose
  <2> QED BY <1>1, <2>2, Places
<1> QED BY <1>2, <1>3

--------------------------------------------------------------------------------
(* Steps of a kind.                                                        *)

\* A new execution, or none: the loop is built anew.
LEMMA Rebuilt ==
  ASSUME NEW seed, NEW stp \in Int, NewLoop(seed, stp), ckpt'.step \in Int, graph' = graph
  PROVE  IInv'
<1>1. /\ inFlight' = {} /\ waiting' = [n \in Nodes |-> 0]' /\ nextStep' = stp
      /\ done' = <<>> /\ sem' = 0 /\ intr'.step = -1
      /\ DOMAIN work' = {} /\ work' = NoWork'
  <2>1. Nodes' = Nodes
    BY DEF Nodes
  <2>2. work' = NoWork /\ DOMAIN NoWork = {} /\ NoWork' = NoWork
    BY DEF NewLoop, NoWork, Entry
  <2> QED BY <2>1, <2>2 DEF NewLoop, None, NoInterrupt
<1>2. DOMAIN done' = {} /\ ToSet(done)' = {}
  BY <1>1 DEF ToSet
<1>3. Loose'
  <2>1. waiting' \in [Nodes -> Nat]'
    BY <1>1
  <2>2. work' = [i \in DOMAIN work' |-> work'[i]]
    BY <1>1 DEF NoWork
  <2>3. done' \in Seq(ToSet(done)')
    BY <1>1
  <2> QED BY <1>1, <1>2, <2>1, <2>2, <2>3 DEF Loose
<1>4. Reported' /\ OneReport' /\ OneTaskPerNode'
  BY <1>1, <1>2 DEF Reported, OneReport, OneTaskPerNode, Busy, Sent
<1>5. Slots'
  <2>1. Holding' = {}
    BY <1>1 DEF Holding
  <2> QED BY <1>1, <2>1, FS_EmptySet, DagAssumption DEF Slots
<1>6. NoneLeftBehind'
  BY <1>1 DEF NoneLeftBehind
<1> QED BY <1>3, <1>4, <1>5, <1>6 DEF IInv

\* A step that leaves what is in flight alone; an execution ends when nothing is.
LEMMA Untouched ==
  ASSUME IInv, graph' = graph, inFlight' = inFlight, waiting' = waiting, done' = done,
         work' = work, sem' = sem, nextStep' = nextStep,
         intr'.step \in Int, ckpt'.step \in Int,
         pc' \in {"interrupted", "failed", "completed"} => pc' = pc \/ inFlight = {}
  PROVE  IInv'
<1>1. Loose' /\ Reported' /\ OneReport' /\ OneTaskPerNode'
  BY DEF IInv, Loose, Reported, OneReport, OneTaskPerNode, Busy, Sent, Nodes, ToSet
<1>2. Slots'
  <2>1. Holding' = Holding
    BY DEF Holding
  <2> QED BY <2>1 DEF IInv, Slots
<1>3. NoneLeftBehind'
  <2>1. NoWork' = NoWork
    BY DEF NoWork, Entry
  <2>2. inFlight = {} => work = NoWork /\ done = <<>>
    BY Empty DEF IInv
  <2> QED BY <2>1, <2>2 DEF IInv, NoneLeftBehind
<1> QED BY <1>1, <1>2, <1>3 DEF IInv

\* A worker moves on; its slot it keeps, or gives back and is "released".
LEMMA MovesOn ==
  ASSUME IInv, NEW i \in DOMAIN work, NEW st \in Stages, NEW res, NEW to,
         work[i].st # "released", Progress(i, st, res, to),
         sem' = IF st = "released" THEN sem - 1 ELSE sem,
         graph' = graph, inFlight' = inFlight, waiting' = waiting, done' = done,
         nextStep' = nextStep, intr' = intr, ckpt' = ckpt, pc' = pc
  PROVE  IInv'
<1>1. /\ Loose /\ Reported /\ OneReport /\ OneTaskPerNode /\ Slots /\ NoneLeftBehind
  BY DEF IInv
<1>2. /\ DOMAIN work' = DOMAIN work
      /\ \A j \in DOMAIN work : /\ work'[j].node = work[j].node
                                /\ work'[j].st = IF j = i THEN st ELSE work[j].st
      /\ work' = [j \in DOMAIN work' |-> work'[j]]
  <2>1. work' = [j \in DOMAIN work |->
                   IF j = i THEN [node |-> work[i].node, st |-> st, res |-> res, to |-> to]
                            ELSE work[j]]
    BY DEF Progress
  <2> QED BY <2>1
<1>3. Loose'
  <2>1. ToSet(done)' = ToSet(done) /\ Nodes' = Nodes
    BY DEF ToSet, Nodes
  <2>2. \A j \in DOMAIN work' : j \in Int /\ j < nextStep /\ work'[j].st \in Stages
    BY <1>1, <1>2 DEF Loose
  <2> QED BY <1>1, <1>2, <2>1, <2>2 DEF Loose
<1>4. Reported' /\ OneReport' /\ OneTaskPerNode'
  <2>1. Busy' = Busy /\ Sent' = Sent
    BY <1>2 DEF Busy, Sent
  <2> QED BY <1>1, <1>2, <2>1 DEF Reported, OneReport, OneTaskPerNode, Nodes
<1>5. Slots'
  <2>1. i \in Holding
    BY DEF Holding
  <2>2. CASE st # "released"
    <3>1. Holding' = Holding
      BY <1>2, <2>1, <2>2 DEF Holding
    <3> QED BY <1>1, <2>2, <3>1 DEF Slots
  <2>3. CASE st = "released"
    <3>1. Holding' = Holding \ {i}
      BY <1>2, <2>3 DEF Holding
    <3>2. /\ IsFiniteSet(Holding \ {i})
          /\ Cardinality(Holding \ {i}) = Cardinality(Holding) - 1
          /\ Cardinality(Holding) \in Nat
      BY <1>1, <2>1, FS_RemoveElement, FS_CardinalityType DEF Slots
    <3> QED BY <1>1, <2>3, <3>1, <3>2, DagAssumption DEF Slots
  <2> QED BY <2>2, <2>3
<1>6. NoneLeftBehind'
  <2>1. DOMAIN NoWork = {}
    BY DEF NoWork
  <2> QED BY <1>1, <2>1 DEF NoneLeftBehind
<1> QED BY <1>3, <1>4, <1>5, <1>6 DEF IInv

--------------------------------------------------------------------------------
(* The steps that change what is in flight.                                *)

LEMMA StartBehindKeeps ==
  ASSUME IInv, StartTask, StartBehind
  PROVE  IInv'
<1>1. /\ HeadTask \in inFlight /\ waiting' = [waiting EXCEPT ![HeadTask] = @ + 1]
      /\ graph' = graph /\ inFlight' = inFlight /\ nextStep' = nextStep /\ intr' = intr
      /\ sem' = sem /\ done' = done /\ work' = work /\ ckpt' = ckpt /\ pc' = pc
  BY DEF StartTask, StartBehind, UNCHANGED_Start, InFlight, graphVars, saveVars
<1>2. /\ Loose /\ Reported /\ OneReport /\ OneTaskPerNode /\ Slots /\ NoneLeftBehind
  BY DEF IInv
<1>3. /\ waiting' \in [Nodes -> Nat]
      /\ \A n \in Nodes : waiting'[n] > 0 => waiting[n] > 0 \/ n = HeadTask
  <2>1. waiting \in [Nodes -> Nat]
    BY <1>2 DEF Loose
  <2>2. PICK h : h = HeadTask
    OBVIOUS
  <2>3. waiting' = [n \in Nodes |-> IF n = h THEN waiting[n] + 1 ELSE waiting[n]]
    BY <1>1, <2>1, <2>2
  <2> QED BY <2>1, <2>2, <2>3
<1>4. Loose'
  BY <1>1, <1>2, <1>3 DEF Loose, Nodes, ToSet
<1>5. Reported'
  <2>1. Busy' = Busy /\ Sent' = Sent /\ Nodes' = Nodes
    BY <1>1 DEF Busy, Sent, Nodes
  <2>2. \A n \in Nodes : waiting'[n] > 0 => n \in inFlight
    BY <1>1, <1>2, <1>3 DEF Reported
  <2> QED BY <1>1, <1>2, <2>1, <2>2 DEF Reported
<1>6. OneReport' /\ OneTaskPerNode' /\ NoneLeftBehind'
  BY <1>1, <1>2 DEF OneReport, OneTaskPerNode, NoneLeftBehind, NoWork, Entry
<1>7. Slots'
  BY <1>1, <1>2 DEF Slots, Holding
<1> QED BY <1>4, <1>5, <1>6, <1>7 DEF IInv

LEMMA LaunchKeeps ==
  ASSUME IInv, StartTask, Launch
  PROVE  IInv'
<1>1. /\ HeadTask \notin inFlight /\ sem < MaxConcurrency
      /\ inFlight' = inFlight \cup {HeadTask} /\ sem' = sem + 1 /\ nextStep' = nextStep + 1
      /\ work' = [i \in DOMAIN work \cup {nextStep} |->
                    IF i = nextStep THEN [node |-> HeadTask, st |-> "todo", res |-> "ok", to |-> {}]
                    ELSE work[i]]
      /\ pc = "start" /\ pc' = pc /\ graph' = graph /\ waiting' = waiting /\ intr' = intr
      /\ done' = done /\ ckpt' = ckpt
  BY DEF StartTask, Launch, UNCHANGED_Start, InFlight, TryAcquireWorker, graphVars, saveVars
<1>2. /\ Loose /\ Reported /\ OneReport /\ OneTaskPerNode /\ Slots /\ NoneLeftBehind
  BY DEF IInv
<1>3. /\ nextStep \in Int /\ nextStep \notin DOMAIN work
      /\ DOMAIN work' = DOMAIN work \cup {nextStep}
      /\ work'[nextStep].node = HeadTask /\ work'[nextStep].st = "todo"
      /\ \A i \in DOMAIN work : work'[i] = work[i]
      /\ work' = [i \in DOMAIN work' |-> work'[i]]
  BY <1>1, <1>2 DEF Loose
<1>4. Busy' = Busy \cup {HeadTask} /\ Sent' = Sent /\ HeadTask \notin Busy \cup Sent
  <2>1. Busy' = Busy \cup {HeadTask}
    BY <1>3 DEF Busy
  <2> QED BY <1>1, <1>2, <2>1 DEF Sent, Reported
<1>5. Loose'
  BY <1>1, <1>2, <1>3 DEF Loose, Nodes, ToSet, Stages
<1>6. Reported'
  BY <1>1, <1>2, <1>4 DEF Reported, Nodes
<1>7. OneReport'
  BY <1>1, <1>2, <1>3, <1>4 DEF OneReport, Sent
<1>8. OneTaskPerNode'
  <2> SUFFICES ASSUME NEW i \in DOMAIN work', NEW j \in DOMAIN work',
                      work'[i].node = work'[j].node
               PROVE  i = j
    BY DEF OneTaskPerNode
  <2>1. \A k \in DOMAIN work : work[k].node # HeadTask
    BY <1>4 DEF Busy
  <2> QED BY <1>2, <1>3, <2>1 DEF OneTaskPerNode
<1>9. Slots'
  <2>1. Holding' = Holding \cup {nextStep} /\ nextStep \notin Holding
    BY <1>3 DEF Holding
  <2>2. /\ IsFiniteSet(Holding \cup {nextStep})
        /\ Cardinality(Holding \cup {nextStep}) = Cardinality(Holding) + 1
        /\ Cardinality(Holding) \in Nat
    BY <1>2, <2>1, FS_AddElement, FS_CardinalityType DEF Slots
  <2> QED BY <1>1, <1>2, <2>1, <2>2, DagAssumption DEF Slots
<1>10. NoneLeftBehind'
  BY <1>1 DEF NoneLeftBehind
<1> QED BY <1>5, <1>6, <1>7, <1>8, <1>9, <1>10 DEF IInv

LEMMA SendDoneKeeps ==
  ASSUME IInv, NEW k \in DOMAIN work, SendDone(k)
  PROVE  IInv'
<1> DEFINE r == [id |-> k, node |-> work[k].node, res |-> work[k].res]
<1>1. /\ work[k].st = "released" /\ done' = Append(done, r)
      /\ work' = [j \in DOMAIN work \ {k} |-> work[j]]
      /\ graph' = graph /\ inFlight' = inFlight /\ waiting' = waiting /\ sem' = sem
      /\ nextStep' = nextStep /\ intr' = intr /\ ckpt' = ckpt /\ pc' = pc
  BY DEF SendDone, At, UNCHANGED_Work, loopVars, drainVars, saveVars
<1>2. /\ Loose /\ Reported /\ OneReport /\ OneTaskPerNode /\ Slots /\ NoneLeftBehind
  BY DEF IInv
<1>3. /\ DOMAIN work' = DOMAIN work \ {k} /\ \A j \in DOMAIN work' : work'[j] = work[j]
      /\ work' = [j \in DOMAIN work' |-> work'[j]]
  BY <1>1
<1>4. PICK S : S = ToSet(done) \cup {r}
  OBVIOUS
<1>5. /\ done \in Seq(S) /\ r \in S /\ Len(done) \in Nat
      /\ DOMAIN done = 1..Len(done) /\ DOMAIN done' = 1..(Len(done) + 1)
      /\ done'[Len(done) + 1] = r /\ \A j \in DOMAIN done : done'[j] = done[j]
      /\ done' \in Seq(S)
  <2>1. done \in Seq(ToSet(done))
    BY <1>2 DEF Loose
  <2>2. done \in Seq(S) /\ r \in S
    BY <1>4, <2>1
  <2> HIDE DEF r
  <2> QED BY <1>1, <2>2
<1>6. \A j \in DOMAIN done' :
        \/ j \in DOMAIN done /\ done'[j] = done[j]
        \/ j = Len(done) + 1 /\ done'[j] = r
  BY <1>5
<1>7. ToSet(done)' = S
  BY <1>4, <1>5, <1>6 DEF ToSet
<1>8. Loose'
  <2>1. \A j \in DOMAIN done' : done'[j].id \in Int
    BY <1>2, <1>6 DEF Loose
  <2>2. done' \in Seq(ToSet(done)')
    BY <1>5, <1>7
  <2> QED BY <1>1, <1>2, <1>3, <2>1, <2>2 DEF Loose, Nodes
<1>9. Reported'
  <2>1. Busy' = Busy \ {work[k].node}
    BY <1>2, <1>3 DEF Busy, OneTaskPerNode
  <2>2. Sent' = Sent \cup {work[k].node}
    BY <1>5, <1>6 DEF Sent
  <2>3. work[k].node \in Busy
    BY DEF Busy
  <2> QED BY <1>1, <1>2, <2>1, <2>2, <2>3 DEF Reported, Nodes
<1>10. OneReport'
  <2>1. \A j \in DOMAIN done : done[j].node # work[k].node
    BY <1>2 DEF OneReport
  <2>2. ASSUME NEW i \in DOMAIN done', NEW j \in DOMAIN done', done'[i].node = done'[j].node
        PROVE  i = j
    BY <1>2, <1>6, <2>1, <2>2 DEF OneReport
  <2>3. ASSUME NEW i \in DOMAIN work', NEW j \in DOMAIN done'
        PROVE  work'[i].node # done'[j].node
    BY <1>2, <1>3, <1>6, <2>3 DEF OneReport, OneTaskPerNode
  <2> QED BY <2>2, <2>3 DEF OneReport
<1>11. OneTaskPerNode'
  BY <1>2, <1>3 DEF OneTaskPerNode
<1>12. Slots'
  <2>1. Holding' = Holding
    BY <1>1, <1>3 DEF Holding
  <2> QED BY <1>1, <1>2, <2>1 DEF Slots
<1>13. NoneLeftBehind'
  <2>1. DOMAIN NoWork = {}
    BY DEF NoWork
  <2> QED BY <1>1, <1>2, <2>1 DEF NoneLeftBehind
<1> QED BY <1>8, <1>9, <1>10, <1>11, <1>12, <1>13 DEF IInv

LEMMA HandleTaskResultKeeps ==
  ASSUME IInv, HandleTaskResult
  PROVE  IInv'
<1>1. PICK r : r = Head(done)
  OBVIOUS
<1>2. /\ done # <<>> /\ done' = Tail(done) /\ inFlight' = inFlight \ {r.node}
      /\ waiting' = [waiting EXCEPT ![r.node] = 0] /\ pc' = "loop"
      /\ graph' = graph /\ nextStep' = nextStep /\ sem' = sem /\ work' = work /\ ckpt' = ckpt
  BY <1>1 DEF HandleTaskResult, WakeWaiting, graphVars, saveVars
<1>3. intr' = intr \/ intr'.step = r.id \/ intr'.step = nextStep - 1
  <2>1. PICK woken : ResultOk(r, woken) \/ ResultError(r, woken)
    BY <1>1 DEF HandleTaskResult
  <2>2. CASE ResultOk(r, woken)
    BY <2>2 DEF ResultOk, Interrupted
  <2>3. CASE ResultError(r, woken)
    BY <2>3 DEF ResultError, Interrupted
  <2> QED BY <2>1, <2>2, <2>3
<1>4. /\ Loose /\ Reported /\ OneReport /\ OneTaskPerNode /\ Slots
  BY DEF IInv
<1>5. /\ done \in Seq(ToSet(done)) /\ Len(done) \in Nat /\ Len(done) >= 1
      /\ DOMAIN done = 1..Len(done) /\ DOMAIN done' = 1..(Len(done) - 1)
      /\ 1 \in DOMAIN done /\ r = done[1]
      /\ \A j \in DOMAIN done' : j + 1 \in DOMAIN done /\ done'[j] = done[j + 1] /\ j + 1 # 1
      /\ \A j \in DOMAIN done : j # 1 => j - 1 \in DOMAIN done' /\ done'[j - 1] = done[j]
  <2>1. done \in Seq(ToSet(done)) /\ done # <<>>
    BY <1>2, <1>4 DEF Loose
  <2>2. PICK S : S = ToSet(done)
    OBVIOUS
  <2>3. done \in Seq(S) /\ done # <<>>
    BY <2>1, <2>2
  <2>4. /\ Len(done) \in Nat /\ Len(done) >= 1 /\ DOMAIN done = 1..Len(done) /\ r = done[1]
        /\ DOMAIN done' = 1..(Len(done) - 1)
        /\ \A j \in 1..(Len(done) - 1) : done'[j] = done[j + 1]
    BY <1>1, <1>2, <2>3, Places
  <2>5. \A j \in DOMAIN done' : j + 1 \in DOMAIN done /\ done'[j] = done[j + 1] /\ j + 1 # 1
    BY <2>4
  <2>6. \A j \in DOMAIN done : j # 1 => j - 1 \in DOMAIN done' /\ done'[j - 1] = done[j]
    <3>1. TAKE j \in DOMAIN done
    <3>2. HAVE j # 1
    <3>3. j - 1 \in 1..(Len(done) - 1) /\ (j - 1) + 1 = j
      BY <2>4, <3>2
    <3>4. done'[j - 1] = done[(j - 1) + 1]
      BY <2>4, <3>3
    <3> QED BY <2>4, <3>3, <3>4
  <2> QED BY <2>1, <2>4, <2>5, <2>6
<1>6. done' \in Seq(ToSet(done)')
  <2>1. PICK S : S = ToSet(done)
    OBVIOUS
  <2>2. done' \in Seq(S)
    BY <1>2, <1>5, <2>1
  <2>3. PICK R : R = ToSet(done)'
    OBVIOUS
  <2>4. \A j \in DOMAIN done' : done'[j] \in R
    BY <2>3 DEF ToSet
  <2>5. /\ Len(done') \in Nat /\ DOMAIN done' = 1..Len(done')
        /\ done' = [j \in 1..Len(done') |-> done'[j]]
    BY <2>2
  <2>6. done' \in [1..Len(done') -> R]
    BY <2>4, <2>5
  <2> QED BY <2>3, <2>5, <2>6
<1>7. Loose'
  <2>1. \A j \in DOMAIN done' : done'[j].id \in Int
    BY <1>4, <1>5 DEF Loose
  <2>2. r.id \in Int /\ intr'.step \in Int
    <3>1. /\ nextStep \in Int /\ intr.step \in Int
          /\ \A i \in DOMAIN done : done[i].id \in Int
      BY <1>4 DEF Loose
    <3>2. 1 \in DOMAIN done /\ r = done[1]
      BY <1>5
    <3> QED BY <1>3, <3>1, <3>2
  <2>3. waiting' \in [Nodes -> Nat]
    BY <1>2, <1>4 DEF Loose
  <2> QED BY <1>2, <1>4, <1>6, <2>1, <2>2, <2>3 DEF Loose, Nodes
<1>8. Sent' = Sent \ {r.node} /\ Busy' = Busy /\ r.node \notin Busy
  <2>1. \A j \in DOMAIN done' : done'[j].node # r.node
    BY <1>4, <1>5 DEF OneReport
  <2>2. Sent' = Sent \ {r.node}
    BY <1>5, <2>1 DEF Sent
  <2>3. r.node \notin Busy
    BY <1>4, <1>5 DEF OneReport, Busy
  <2> QED BY <1>2, <2>2, <2>3 DEF Busy
<1>9. Reported'
  <2>1. \A n \in Nodes : waiting'[n] > 0 => n # r.node /\ waiting[n] > 0
    BY <1>2, <1>4 DEF Loose
  <2> QED BY <1>2, <1>4, <1>8, <2>1 DEF Reported, Nodes
<1>10. OneReport'
  <2>1. ASSUME NEW i \in DOMAIN done', NEW j \in DOMAIN done', done'[i].node = done'[j].node
        PROVE  i = j
    <3>1. i + 1 = j + 1
      BY <1>4, <1>5, <2>1 DEF OneReport
    <3> QED BY <1>5, <3>1
  <2>2. \A i \in DOMAIN work, j \in DOMAIN done' : work[i].node # done'[j].node
    BY <1>4, <1>5 DEF OneReport
  <2> QED BY <1>2, <2>1, <2>2 DEF OneReport
<1>11. OneTaskPerNode' /\ Slots' /\ NoneLeftBehind'
  BY <1>2, <1>4 DEF OneTaskPerNode, Slots, Holding, NoneLeftBehind
<1> QED BY <1>7, <1>9, <1>10, <1>11 DEF IInv

--------------------------------------------------------------------------------
(* The invariant is inductive.                                             *)

LEMMA InitIInv ==
  Init => IInv
<1> SUFFICES ASSUME Init PROVE IInv
  OBVIOUS
<1>1. /\ inFlight = {} /\ waiting = [n \in Nodes |-> 0] /\ nextStep = 0 /\ pc = "idle"
      /\ done = <<>> /\ sem = 0 /\ intr.step = -1 /\ ckpt.step = -2
      /\ DOMAIN work = {} /\ work = [i \in DOMAIN work |-> work[i]]
  BY DEF Init, None, NoWork, NoInterrupt, NoCheckpoint
<1>2. DOMAIN done = {} /\ ToSet(done) = {}
  BY <1>1 DEF ToSet
<1>3. Loose
  <2>1. waiting \in [Nodes -> Nat]
    BY <1>1
  <2>2. done \in Seq(ToSet(done))
    BY <1>1
  <2> QED BY <1>1, <1>2, <2>1, <2>2 DEF Loose
<1>4. Reported /\ OneReport /\ OneTaskPerNode /\ NoneLeftBehind
  BY <1>1, <1>2 DEF Reported, OneReport, OneTaskPerNode, NoneLeftBehind, Busy, Sent
<1>5. Slots
  <2>1. Holding = {}
    BY <1>1 DEF Holding
  <2> QED BY <1>1, <2>1, FS_EmptySet, DagAssumption DEF Slots
<1> QED BY <1>3, <1>4, <1>5 DEF IInv

\* A save leaves the old checkpoint or puts the new one.
LEMMA SaveStep ==
  ASSUME IInv, NEW stp \in Int, NEW next, NEW writes, NEW node,
         SaveInRun(Snapshot(stp, next, writes, node))
  PROVE  ckpt'.step \in Int
<1>1. Snapshot(stp, next, writes, node).step = stp
  BY DEF Snapshot
<1>2. ckpt'.step = stp \/ ckpt' = ckpt
  BY <1>1 DEF SaveInRun, Save, saveVars
<1> QED BY <1>2 DEF IInv, Loose

LEMMA ExecuteKeeps ==
  ASSUME IInv, Execute
  PROVE  IInv'
<1>1. CASE StartFresh
  <2>1. ckpt' = ckpt /\ graph' = graph /\ NewLoop(<<Entry>>, 0)
    BY <1>1 DEF StartFresh, graphVars, saveVars
  <2> QED BY <2>1, Rebuilt DEF IInv, Loose
<1>2. CASE Resume
  <2>1. ckpt' = ckpt /\ graph' = graph /\ NewLoop(ExecutableNextNodes(ckpt), ckpt.step + 1)
    BY <1>2 DEF Resume, saveVars
  <2>2. ckpt.step \in Int /\ ckpt.step + 1 \in Int
    BY DEF IInv, Loose
  <2> QED BY <2>1, <2>2, Rebuilt
<1> QED BY <1>1, <1>2 DEF Execute

LEMMA FinalKeeps ==
  ASSUME IInv, TryFinalize
  PROVE  IInv'
<1>1. /\ graph' = graph /\ inFlight' = inFlight /\ waiting' = waiting /\ done' = done
      /\ work' = work /\ sem' = sem /\ nextStep' = nextStep /\ intr' = intr
      /\ pc' = "wait" \/ inFlight = {}
  BY DEF TryFinalize, FinalizeInterrupt, FinalizePause, FinalizeDrained, FinalCheckpoint, NotFinal,
         UNCHANGED_Final, Drained, graphVars, loopVars, drainVars, workVars
<1>2. nextStep \in Int /\ nextStep - 1 \in Int /\ intr.step \in Int /\ ckpt.step \in Int
  BY DEF IInv, Loose
<1>3. ckpt'.step \in Int
  <2>1. CASE FinalizeInterrupt
    <3>1. PICK next, node : Save(Snapshot(intr.step, next, EmptyBag, node))
      BY <2>1 DEF FinalizeInterrupt
    <3> QED BY <1>2, <3>1, SaveStep DEF SaveInRun
  <2>2. CASE FinalizePause
    <3>1. PICK next : Save(Snapshot(nextStep - 1, next, EmptyBag, "none"))
      BY <2>2 DEF FinalizePause
    <3> QED BY <1>2, <3>1, SaveStep DEF SaveInRun
  <2>3. CASE FinalCheckpoint
    <3>1. \/ \E next : SaveInRun(Snapshot(nextStep - 1, next, pendW, "none"))
          \/ ckpt' = ckpt
      BY <2>3 DEF FinalCheckpoint, saveVars
    <3> QED BY <1>2, <3>1, SaveStep
  <2>4. CASE FinalizeDrained \/ NotFinal
    BY <1>2, <2>4 DEF FinalizeDrained, NotFinal, saveVars
  <2> QED BY <2>1, <2>2, <2>3, <2>4 DEF TryFinalize
<1> QED BY <1>1, <1>2, <1>3, Untouched

LEMMA StartTaskKeeps ==
  ASSUME IInv, StartTask
  PROVE  IInv'
<1>1. CASE StartBehind
  BY <1>1, StartBehindKeeps
<1>2. CASE Launch
  BY <1>2, LaunchKeeps
<1>3. CASE StartBreak \/ StartNoSlot \/ StartNoStep
  <2>1. /\ graph' = graph /\ inFlight' = inFlight /\ waiting' = waiting /\ done' = done
        /\ work' = work /\ sem' = sem /\ nextStep' = nextStep /\ ckpt' = ckpt
        /\ pc' \in {"start", "plan"} /\ (intr' = intr \/ intr'.step = nextStep)
    BY <1>3 DEF StartTask, StartBreak, StartNoSlot, StartNoStep, UNCHANGED_Start, Interrupted,
                graphVars, saveVars
  <2>2. intr'.step \in Int /\ ckpt'.step \in Int
    BY <2>1 DEF IInv, Loose
  <2> QED BY <2>1, <2>2, Untouched
<1> QED BY <1>1, <1>2, <1>3 DEF StartTask

LEMMA LoopKeeps ==
  ASSUME IInv, Loop
  PROVE  IInv'
<1>1. nextStep \in Int /\ intr.step \in Int /\ ckpt.step \in Int
  BY DEF IInv, Loose
<1>2. CASE InputCheckpoint
  <2>1. /\ graph' = graph /\ inFlight' = inFlight /\ waiting' = waiting /\ done' = done
        /\ work' = work /\ sem' = sem /\ nextStep' = nextStep /\ intr' = intr /\ pc' = "loop"
        /\ SaveInRun(Snapshot(-1, <<Entry>>, EmptyBag, "none"))
    BY <1>2 DEF InputCheckpoint, graphVars, loopVars, drainVars, workVars
  <2>2. ckpt'.step \in Int
    BY <2>1, SaveStep
  <2> QED BY <1>1, <2>1, <2>2, Untouched
<1>3. CASE MaybeRequestExternalInterrupt \/ StartedAll \/ PollDone
  <2>1. /\ graph' = graph /\ inFlight' = inFlight /\ waiting' = waiting /\ done' = done
        /\ work' = work /\ sem' = sem /\ nextStep' = nextStep /\ intr' = intr /\ ckpt' = ckpt
        /\ pc' \in {"start", "plan", "select"}
    BY <1>3 DEF MaybeRequestExternalInterrupt, StartedAll, PollDone, graphVars, loopVars, drainVars,
                workVars, saveVars
  <2> QED BY <1>1, <2>1, Untouched
<1>4. CASE PlanIfIdle
  <2>1. /\ graph' = graph /\ inFlight' = inFlight /\ waiting' = waiting /\ done' = done
        /\ work' = work /\ sem' = sem /\ nextStep' = nextStep /\ intr' = intr /\ ckpt' = ckpt
        /\ pc' = "final"
    BY <1>4 DEF PlanIfIdle, graphVars, drainVars, workVars, saveVars
  <2> QED BY <1>1, <2>1, Untouched
<1>5. CASE HandleContextDone
  <2>1. /\ graph' = graph /\ inFlight' = inFlight /\ waiting' = waiting /\ done' = done
        /\ work' = work /\ sem' = sem /\ nextStep' = nextStep /\ ckpt' = ckpt
        /\ pc' = "loop" /\ (intr' = intr \/ intr'.step = nextStep - 1)
    BY <1>5 DEF HandleContextDone, Interrupted, graphVars, loopVars, workVars, saveVars
  <2>2. intr'.step \in Int
    BY <1>1, <2>1
  <2> QED BY <1>1, <2>1, <2>2, Untouched
<1> QED BY <1>2, <1>3, <1>4, <1>5, StartTaskKeeps, FinalKeeps, HandleTaskResultKeeps
        DEF Loop, WaitForEvent

LEMMA WorkerKeeps ==
  ASSUME IInv, NEW i \in DOMAIN work, Worker(i)
  PROVE  IInv'
<1>1. CASE SendDone(i)
  BY <1>1, SendDoneKeeps
<1>2. CASE ~SendDone(i)
  <2>1. /\ graph' = graph /\ inFlight' = inFlight /\ waiting' = waiting /\ done' = done
        /\ nextStep' = nextStep /\ intr' = intr /\ ckpt' = ckpt /\ pc' = pc
    BY <1>2 DEF Worker, RunWorker, FinishWorker, ReleaseBarrier, InterruptWorker, FailWorker,
                BarrierTimesOut, CancelWorker, ReleaseWorker, StopWorker,
                UNCHANGED_Work, loopVars, drainVars, saveVars
  <2>2. work[i].st # "released"
    BY <1>2 DEF Worker, RunWorker, FinishWorker, ReleaseBarrier, InterruptWorker, FailWorker,
                BarrierTimesOut, CancelWorker, ReleaseWorker, At
  <2>3. \E st \in Stages : \E res, to :
          Progress(i, st, res, to) /\ sem' = IF st = "released" THEN sem - 1 ELSE sem
    <3>1. CASE ReleaseWorker(i)
      BY <3>1 DEF ReleaseWorker, Stages
    <3>2. CASE RunWorker(i)
      BY <3>2 DEF RunWorker, ResultState, ResultGoTo, ResultFanOut, Stages
    <3>3. CASE FinishWorker(i)
      BY <3>3 DEF FinishWorker, Stages
    <3>4. CASE ReleaseBarrier(i)
      BY <3>4 DEF ReleaseBarrier, Stages
    <3>5. ASSUME NEW res, StopWorker(i, res)
          PROVE  \E st \in Stages : \E rs, to :
                   Progress(i, st, rs, to) /\ sem' = IF st = "released" THEN sem - 1 ELSE sem
      BY <3>5 DEF StopWorker, Stages
    <3>6. CASE InterruptWorker(i) \/ FailWorker(i) \/ BarrierTimesOut(i) \/ CancelWorker(i)
      BY <3>5, <3>6 DEF InterruptWorker, FailWorker, BarrierTimesOut, CancelWorker
    <3> QED BY <1>2, <3>1, <3>2, <3>3, <3>4, <3>6 DEF Worker
  <2> QED BY <2>1, <2>2, <2>3, MovesOn
<1> QED BY <1>1, <1>2

LEMMA EnvironmentKeeps ==
  ASSUME IInv, Environment
  PROVE  IInv'
<1>1. CASE Crash
  <2>1. ckpt' = ckpt /\ graph' = graph /\ NewLoop(<<>>, 0)
    BY <1>1 DEF Crash, saveVars
  <2> QED BY <2>1, Rebuilt DEF IInv, Loose
<1>2. CASE RequestPause \/ ForcePause \/ CancelRun
  <2>1. /\ graph' = graph /\ inFlight' = inFlight /\ waiting' = waiting /\ done' = done
        /\ work' = work /\ sem' = sem /\ nextStep' = nextStep /\ intr' = intr /\ ckpt' = ckpt
        /\ pc' = pc
    BY <1>2 DEF RequestPause, ForcePause, CancelRun, UNCHANGED_Env, graphVars, loopVars, drainVars,
                workVars, saveVars
  <2>2. intr.step \in Int /\ ckpt.step \in Int
    BY DEF IInv, Loose
  <2> QED BY <2>1, <2>2, Untouched
<1> QED BY <1>1, <1>2 DEF Environment

LEMMA StepIInv ==
  IInv /\ [Next]_vars => IInv'
<1> SUFFICES ASSUME IInv, [Next]_vars PROVE IInv'
  OBVIOUS
<1>1. CASE Workers
  BY <1>1, WorkerKeeps DEF Workers
<1>2. CASE UNCHANGED vars
  <2>1. /\ graph' = graph /\ inFlight' = inFlight /\ waiting' = waiting /\ done' = done
        /\ work' = work /\ sem' = sem /\ nextStep' = nextStep /\ intr' = intr /\ ckpt' = ckpt
        /\ pc' = pc
    BY <1>2 DEF vars, graphVars, loopVars, drainVars, workVars, saveVars
  <2>2. intr.step \in Int /\ ckpt.step \in Int
    BY DEF IInv, Loose
  <2> QED BY <2>1, <2>2, Untouched
<1> QED BY <1>1, <1>2, ExecuteKeeps, LoopKeeps, EnvironmentKeeps DEF Next

\* The invariant holds in every state of every execution.
THEOREM Inductive == Spec => []IInv
BY InitIInv, StepIInv, PTL DEF Spec

\* startTask queues a task behind the one of its node that is in flight, so whatever the
\* graph and however often a node is triggered, it never has two tasks at work.
THEOREM SerializedTheorem == Spec => []OneTaskPerNode
<1>1. IInv => OneTaskPerNode
  BY DEF IInv
<1> QED BY <1>1, Inductive, PTL

\* The loop's inFlight is exact although workers give back their slot, send, and are
\* handled in three steps: each node in it has a worker or a result still to be received.
THEOREM ReportedTheorem == Spec => []InFlightReported
<1>1. IInv => InFlightReported
  BY DEF IInv, Reported, InFlightReported, Busy, Sent, ToSet
<1> QED BY <1>1, Inductive, PTL

\* tryFinalize ends an execution only when no goroutine and no result is left.
THEOREM LeftBehindTheorem == Spec => []NoneLeftBehind
<1>1. IInv => NoneLeftBehind
  BY DEF IInv
<1> QED BY <1>1, Inductive, PTL

\* tryAcquireWorker: no more workers run than MaxConcurrency has slots for.
THEOREM SlotsTheorem == Spec => [](Cardinality(Holding) <= MaxConcurrency)
<1>1. IInv => Cardinality(Holding) <= MaxConcurrency
  BY DEF IInv, Slots
<1> QED BY <1>1, Inductive, PTL
================================================================================
