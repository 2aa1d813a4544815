------------------------ MODULE TaskRunServiceProofs ------------------------
(***************************************************************************)
(* The safety properties of TaskRunService for every number of runs,       *)
(* clients, failing Saves and crashes, when every Spawn gets a fresh id.   *)
(*                                                                         *)
(* The inductive invariant has four parts: who owns a run at each point of *)
(* its goroutine and of a Cancel (Ownership), what a terminal status       *)
(* anywhere rules out everywhere else (Settling), when the finalizer has   *)
(* run (FinalizerAhead, FinalizerBehind), and what a successful Cancel     *)
(* rules out (Canceling).                                                  *)
(***************************************************************************)
EXTENDS TaskRunService, TLAPS

Saving == {"spSave", "runSave", "finSave", "canSave", "clSave"}
Spawning == {"spPersist", "spSave", "spRollback", "spNotify"}
CancelPending == {"canView", "canFinalize", "canStore"}
CancelNotified == {"canPersist", "canSave", "canNotify", "canWake"}
BeforeChildEnds == {"runPersist", "runSave", "runNotify", "child", "exit", "failMark"}
AfterCommit == {"finPersist", "finSave", "finNotify", "finWake"}

\* The view that finishRun will store is a terminal one.
ViewType == \A i \in RunIDs : pc[i] \in {"finalize", "commit"} => view[i] \in Terminal

TypeInv == TypeOK /\ ViewType

Down == ~up => /\ pc = IdlePC /\ runs = NoRuns /\ cancelWon = {}
               /\ running = [i \in RunIDs |-> "none"]
               /\ finalCalls = [i \in RunIDs |-> 0]

Mutex == \A p \in Procs : pc[p] \in Saving <=> persistMu = p

\* An id no Spawn has inserted is nowhere.
Unused ==
  \A i \in RunIDs : i \notin used =>
    /\ runs[i] = "absent" /\ store[i] = "absent" /\ pc[i] = "none" /\ i \notin accepted
    /\ told[i] = "none" /\ finalCalls[i] = 0 /\ i \notin cancelWon
    /\ \A p \in Procs : pc[p] \in Saving => snap[p][i] = "absent"

\* A Spawn in progress is the only one for its id, whose goroutine is not yet
\* launched; once its Save succeeded the run is in the map and the Store.
SpawnOwns ==
  \A c \in Clients : pc[c] \in Spawning =>
    /\ tgt[c] \in used /\ tgt[c] \notin accepted /\ pc[tgt[c]] = "none"
    /\ runs[tgt[c]] \in {"queued", "canceling", "canceled"}
    /\ running[tgt[c]] = "none"
    /\ pc[c] = "spSave" => snap[c][tgt[c]] # "absent"
    /\ \A d \in Clients : pc[d] \in Spawning /\ tgt[d] = tgt[c] => d = c

\* Spawn succeeded: the run is accepted, or about to be.
Kept(i) == i \in accepted \/ \E c \in Clients : pc[c] = "spNotify" /\ tgt[c] = i

KeptIsKept ==
  \A i \in RunIDs : Kept(i) =>
    /\ store[i] # "absent"
    /\ up => runs[i] # "absent"
    /\ \A p \in Procs : pc[p] \in Saving => snap[p][i] # "absent"

\* The status and the running entry of a run at each point of its goroutine.
Phase ==
  \A i \in RunIDs :
    /\ pc[i] # "none" => i \in accepted
    /\ pc[i] = "none" => running[i] = "none" /\ runs[i] \notin {"running", "finalizing"}
    /\ pc[i] = "start" => running[i] = "none" /\ runs[i] \in {"queued", "canceling", "canceled"}
    /\ pc[i] \in BeforeChildEnds => running[i] = "active" /\ runs[i] \in {"running", "canceling"}
    /\ pc[i] = "finish" => running[i] = "exiting" /\ runs[i] \in {"running", "canceling"}
    /\ pc[i] \in {"exit", "finish"} => view[i] \in ChildResult
    /\ pc[i] \in {"finalize", "commit"} =>
         running[i] = "exiting" /\ runs[i] = "finalizing" /\ view[i] \in Terminal
    /\ pc[i] \in AfterCommit => running[i] = "none" /\ runs[i] = view[i] /\ view[i] \in Terminal
    /\ pc[i] = "done" => running[i] = "none" /\ runs[i] \in Terminal \cup {"canceling"}

CancelTarget ==
  \A c \in Clients : pc[c] \in CancelPending \cup CancelNotified => tgt[c] \in used

\* A Cancel that ends the run itself is the only one to do so, and the run's
\* goroutine is not, and will not be, past markRunning.
CancelOwns ==
  \A c \in Clients : pc[c] \in CancelPending =>
    /\ runs[tgt[c]] \in {"canceling", "absent"}
    /\ pc[tgt[c]] \in {"none", "start", "done"}
    /\ \A d \in Clients : pc[d] \in CancelPending /\ tgt[d] = tgt[c] => d = c

Ownership ==
  Down /\ Mutex /\ Unused /\ SpawnOwns /\ KeptIsKept /\ Phase /\ CancelTarget /\ CancelOwns

\* Nowhere is run i known with a status other than v, and its id is used up.
Settled(i, v) ==
  /\ i \in used
  /\ runs[i] \in {v, "absent"}
  /\ store[i] \in {v, "absent"}
  /\ \A p \in Procs : pc[p] \in Saving => snap[p][i] \in {v, "absent"}

StoreSettled == \A i \in RunIDs : store[i] \in Terminal => Settled(i, store[i])
ToldSettled  == \A i \in RunIDs : told[i] # "none" => Settled(i, told[i])
FinSettled   == \A i \in RunIDs : pc[i] = "finNotify" => Settled(i, view[i])
CanSettled   ==
  \A c \in Clients : pc[c] = "canNotify" /\ view[c] \in Terminal => Settled(tgt[c], view[c])

\* A terminal status in a snapshot being saved is the one in the map.
SnapAgrees ==
  \A p \in Procs, i \in RunIDs :
    pc[p] \in Saving /\ snap[p][i] \in Terminal => runs[i] \in {snap[p][i], "absent"}

\* What a goroutine or a Cancel is about to notify is in the snapshot it saves.
FinSaved == \A i \in RunIDs : pc[i] = "finSave" => snap[i][i] = view[i]
CanSaved ==
  \A c \in Clients : pc[c] \in CancelNotified /\ view[c] \in Terminal =>
    /\ runs[tgt[c]] \in {view[c], "absent"}
    /\ pc[c] = "canSave" => snap[c][tgt[c]] \in {view[c], "absent"}

Settling ==
  StoreSettled /\ ToldSettled /\ FinSettled /\ CanSettled /\ SnapAgrees /\ FinSaved /\ CanSaved

\* Until its end is being finalized a run has had no call of the finalizer.
FinalizerAhead ==
  /\ \A i \in RunIDs : finalCalls[i] \in {0, 1}
  /\ \A i \in RunIDs : runs[i] = "queued" => finalCalls[i] = 0
  /\ \A i \in RunIDs :
       pc[i] \in BeforeChildEnds \cup {"finish", "finalize"} => finalCalls[i] = 0
  /\ \A c \in Clients : pc[c] \in {"canView", "canFinalize"} => finalCalls[tgt[c]] = 0

FinalizerBehind ==
  /\ \A i \in RunIDs : pc[i] = "commit" => i \in finalized
  /\ \A c \in Clients : pc[c] = "canStore" => tgt[c] \in finalized
  /\ \A i \in RunIDs : runs[i] \in Terminal => i \in finalized
  /\ \A i \in RunIDs : store[i] \in Terminal => i \in finalized
  /\ \A p \in Procs, i \in RunIDs :
       pc[p] \in Saving /\ snap[p][i] \in Terminal => i \in finalized

\* What a Cancel that reported changed = true rules out from then on.
Canceling ==
  \A i \in cancelWon :
    /\ runs[i] \notin {"queued", "running", "completed"}
    /\ pc[i] \in {"finalize", "commit"} => view[i] # "completed"

IInv == TypeInv /\ Ownership /\ Settling /\ FinalizerAhead /\ FinalizerBehind /\ Canceling
-----------------------------------------------------------------------------
LEMMA ProcsSplit ==
  /\ RunIDs \subseteq Procs /\ Clients \subseteq Procs
  /\ \A p \in Procs : p \in RunIDs \/ p \in Clients
  /\ \A p \in Procs : ~(p \in RunIDs /\ p \in Clients)
  /\ None \notin Procs
BY ProcAssumption DEF Procs

\* What a persist step does to the program counter.
LEMMA PersistPC ==
  ASSUME TypeOK, NEW p \in Procs
  PROVE  /\ PersistSnapshot(p) =>
              \/ p \in Clients /\ pc[p] = "spPersist" /\ pc' = [pc EXCEPT ![p] = "spSave"]
              \/ p \in RunIDs /\ pc[p] = "runPersist" /\ pc' = [pc EXCEPT ![p] = "runSave"]
              \/ p \in RunIDs /\ pc[p] = "finPersist" /\ pc' = [pc EXCEPT ![p] = "finSave"]
              \/ p \in Clients /\ pc[p] = "canPersist" /\ pc' = [pc EXCEPT ![p] = "canSave"]
              \/ p \in Clients /\ pc[p] = "clPersist" /\ pc' = [pc EXCEPT ![p] = "clSave"]
         /\ PersistSave(p) =>
              \/ /\ p \in Clients /\ pc[p] = "spSave"
                 /\ \/ pc' = [pc EXCEPT ![p] = "spNotify"] /\ store' = snap[p]
                    \/ pc' = [pc EXCEPT ![p] = "spRollback"] /\ store' = store
              \/ /\ p \in RunIDs /\ pc[p] = "runSave"
                 /\ \/ pc' = [pc EXCEPT ![p] = "runNotify"] /\ store' = snap[p]
                    \/ pc' = [pc EXCEPT ![p] = "failMark"] /\ store' = store
              \/ /\ p \in RunIDs /\ pc[p] = "finSave"
                 /\ \/ pc' = [pc EXCEPT ![p] = "finNotify"] /\ store' = snap[p]
                    \/ pc' = [pc EXCEPT ![p] = "finWake"] /\ store' = store
              \/ /\ p \in Clients /\ pc[p] = "canSave"
                 /\ \/ pc' = [pc EXCEPT ![p] = "canNotify"] /\ store' = snap[p]
                    \/ pc' = [pc EXCEPT ![p] = "canWake"] /\ store' = store
              \/ /\ p \in Clients /\ pc[p] = "clSave"
                 /\ pc' = [pc EXCEPT ![p] = "idle"] /\ store' \in {snap[p], store}
<1>1. (p \in RunIDs /\ pc[p] \in WorkerPC) \/ (p \in Clients /\ pc[p] \in ClientPC)
  BY ProcsSplit DEF TypeOK, PCType
<1>2. DOMAIN SaveAt = {"spPersist", "runPersist", "finPersist", "canPersist", "clPersist"}
  BY DEF SaveAt
<1>3. DOMAIN SavedTo = {"spSave", "runSave", "finSave", "canSave", "clSave"}
  BY DEF SavedTo
<1>4. /\ SaveAt["spPersist"] = "spSave" /\ SaveAt["runPersist"] = "runSave"
      /\ SaveAt["finPersist"] = "finSave" /\ SaveAt["canPersist"] = "canSave"
      /\ SaveAt["clPersist"] = "clSave"
  BY DEF SaveAt
<1>5. /\ SavedTo["spSave"] = "spNotify" /\ SavedTo["runSave"] = "runNotify"
      /\ SavedTo["finSave"] = "finNotify" /\ SavedTo["canSave"] = "canNotify"
      /\ SavedTo["clSave"] = "idle"
  BY DEF SavedTo
<1>6. /\ FailedTo["spSave"] = "spRollback" /\ FailedTo["runSave"] = "failMark"
      /\ FailedTo["finSave"] = "finWake" /\ FailedTo["canSave"] = "canWake"
      /\ FailedTo["clSave"] = "idle"
  BY DEF FailedTo
<1>7. ASSUME PersistSnapshot(p) 
      PROVE  pc[p] \in DOMAIN SaveAt /\ pc' = [pc EXCEPT ![p] = SaveAt[pc[p]]]
  BY <1>7 DEF PersistSnapshot
<1>8. ASSUME PersistSave(p)
      PROVE  /\ pc[p] \in DOMAIN SavedTo
             /\ \/ pc' = [pc EXCEPT ![p] = SavedTo[pc[p]]] /\ store' = snap[p]
                \/ pc' = [pc EXCEPT ![p] = FailedTo[pc[p]]] /\ store' = store
  BY <1>8 DEF PersistSave
<1> QED
  BY <1>1, <1>2, <1>3, <1>4, <1>5, <1>6, <1>7, <1>8 DEF WorkerPC, ClientPC

\* The members of the enumerations, so that the steps below need not expand them.
LEMMA Names ==
  /\ "done" \in WorkerPC /\ "start" \in WorkerPC /\ "runPersist" \in WorkerPC
  /\ "runSave" \in WorkerPC /\ "runNotify" \in WorkerPC /\ "failMark" \in WorkerPC
  /\ "child" \in WorkerPC /\ "exit" \in WorkerPC /\ "finish" \in WorkerPC
  /\ "finalize" \in WorkerPC /\ "commit" \in WorkerPC /\ "finPersist" \in WorkerPC
  /\ "finSave" \in WorkerPC /\ "finNotify" \in WorkerPC /\ "finWake" \in WorkerPC
  /\ "none" \in WorkerPC
  /\ "idle" \in ClientPC /\ "spPersist" \in ClientPC /\ "spSave" \in ClientPC
  /\ "spRollback" \in ClientPC /\ "spNotify" \in ClientPC /\ "canView" \in ClientPC
  /\ "canFinalize" \in ClientPC /\ "canStore" \in ClientPC /\ "canPersist" \in ClientPC
  /\ "canSave" \in ClientPC /\ "canNotify" \in ClientPC /\ "canWake" \in ClientPC
  /\ "waiting" \in ClientPC /\ "clStop" \in ClientPC /\ "clWait" \in ClientPC
  /\ "clPersist" \in ClientPC /\ "clSave" \in ClientPC
  /\ Terminal \subseteq Status /\ Status \subseteq StatusOrAbsent
  /\ "completed" \in Terminal /\ "failed" \in Terminal /\ "canceled" \in Terminal
  /\ "queued" \in Status /\ "running" \in Status /\ "finalizing" \in Status
  /\ "canceling" \in Status /\ "absent" \in StatusOrAbsent /\ "absent" \notin Status
  /\ "none" \notin Terminal
BY DEF WorkerPC, ClientPC, Terminal, Status, StatusOrAbsent

LEMMA TypeInit == Init => TypeInv
<1> SUFFICES ASSUME Init PROVE TypeInv
  OBVIOUS
<1> USE ProcsSplit, Names DEF Init, NoRuns, IdlePC
<1>1. ServiceType
  BY DEF ServiceType
<1>2. PCType
  BY DEF PCType
<1>3. LocalType
  BY DEF LocalType, ChildResult
<1>4. HistoryType
  BY DEF HistoryType
<1>5. ViewType
  BY DEF ViewType
<1> QED
  BY <1>1, <1>2, <1>3, <1>4, <1>5 DEF TypeOK, TypeInv

\* A goroutine, or a client, moves its own program counter.
LEMMA PCMoves ==
  ASSUME PCType
  PROVE  /\ \A i \in RunIDs, s \in WorkerPC : pc' = [pc EXCEPT ![i] = s] => PCType'
         /\ \A c \in Clients, s \in ClientPC : pc' = [pc EXCEPT ![c] = s] => PCType'
<1> USE ProcsSplit DEF PCType
<1>1. ASSUME NEW i \in RunIDs, NEW s \in WorkerPC, pc' = [pc EXCEPT ![i] = s] PROVE PCType'
  BY <1>1
<1>2. ASSUME NEW c \in Clients, NEW s \in ClientPC, pc' = [pc EXCEPT ![c] = s] PROVE PCType'
  BY <1>2
<1> QED
  BY <1>1, <1>2

LEMMA TypeStep == TypeInv /\ [Next]_vars => TypeInv'
<1> SUFFICES ASSUME TypeInv, [Next]_vars PROVE TypeInv'
  OBVIOUS
<1> USE ProcsSplit, Names DEF svcVars, procVars, histVars, boundVars, TypeOK, TypeInv
<1>1. ASSUME NEW p \in Procs, PersistSnapshot(p) PROVE TypeInv'
  <2>1. ServiceType'
    BY <1>1 DEF PersistSnapshot, ServiceType
  <2>2. PCType'
    BY <1>1, PersistPC, PCMoves
  <2>3. LocalType'
    BY <1>1 DEF PersistSnapshot, LocalType, ServiceType
  <2>4. HistoryType'
    BY <1>1 DEF PersistSnapshot, HistoryType
  <2>5. ViewType'
    <3>1. view' = view
      BY <1>1 DEF PersistSnapshot
    <3> QED
      BY <1>1, <3>1, PersistPC DEF ViewType, PCType
  <2> QED
    BY <2>1, <2>2, <2>3, <2>4, <2>5
<1>2. ASSUME NEW p \in Procs, PersistSave(p) PROVE TypeInv'
  <2>1. ServiceType'
    BY <1>2 DEF PersistSave, ServiceType, LocalType
  <2>2. PCType'
    BY <1>2, PersistPC, PCMoves
  <2>3. LocalType'
    BY <1>2 DEF PersistSave, NoRuns, LocalType
  <2>4. HistoryType'
    BY <1>2 DEF PersistSave, NoRuns, HistoryType
  <2>5. ViewType'
    <3>1. view' = view
      BY <1>2 DEF PersistSave
    <3> QED
      BY <1>2, <3>1, PersistPC DEF ViewType, PCType
  <2> QED
    BY <2>1, <2>2, <2>3, <2>4, <2>5
<1>3. ASSUME NEW i \in RunIDs, MarkRunning(i) PROVE TypeInv'
  <2>1. ServiceType'
    <3>1. runs' \in [RunIDs -> StatusOrAbsent]
      BY <1>3 DEF MarkRunning, ServiceType
    <3>2. running' \in [RunIDs -> {"none", "active", "exiting"}]
      BY <1>3 DEF MarkRunning, ServiceType
    <3>3. ctxDone' \in [RunIDs -> BOOLEAN]
      BY <1>3 DEF MarkRunning, ServiceType
    <3> QED
      BY <1>3, <3>1, <3>2, <3>3 DEF MarkRunning, ServiceType
  <2>2. PCType'
    BY <1>3, PCMoves DEF MarkRunning
  <2>3. LocalType'
    BY <1>3 DEF MarkRunning, LocalType
  <2>4. HistoryType'
    BY <1>3 DEF MarkRunning, HistoryType
  <2>5. ViewType'
    BY <1>3 DEF MarkRunning, ViewType, PCType, LocalType
  <2> QED
    BY <2>1, <2>2, <2>3, <2>4, <2>5
<1>4. ASSUME NEW i \in RunIDs, NotifyRunning(i) PROVE TypeInv'
  BY <1>4 DEF NotifyRunning, Go, ServiceType, PCType, LocalType, HistoryType, ViewType
<1>5. ASSUME NEW i \in RunIDs, FailPersisted(i) PROVE TypeInv'
  <2>1. ServiceType'
    <3>1. CASE runs[i] = "absent"
      BY <1>5, <3>1 DEF FailPersisted, ServiceType
    <3>2. CASE ~(runs[i] = "absent")
      BY <1>5, <3>2 DEF FailPersisted, ServiceType
    <3> QED
      BY <3>1, <3>2
  <2>2. PCType'
    BY <1>5, PCMoves DEF FailPersisted
  <2>3. LocalType'
    BY <1>5 DEF FailPersisted, LocalType
  <2>4. HistoryType'
    BY <1>5 DEF FailPersisted, HistoryType
  <2>5. ViewType'
    BY <1>5 DEF FailPersisted, ViewType, PCType, LocalType
  <2> QED
    BY <2>1, <2>2, <2>3, <2>4, <2>5
<1>6. ASSUME NEW i \in RunIDs, \E r \in ChildResult : ChildReturn(i, r) PROVE TypeInv'
  BY <1>6 DEF ChildReturn, Go, ServiceType, PCType, LocalType, HistoryType, ViewType
<1>7. ASSUME NEW i \in RunIDs, MarkExiting(i) PROVE TypeInv'
  BY <1>7 DEF MarkExiting, Go, ServiceType, PCType, LocalType, HistoryType, ViewType
<1>8. ASSUME NEW i \in RunIDs, FinishRun(i) PROVE TypeInv'
  <2>1. ServiceType'
    BY <1>8 DEF FinishRun, FinishedStatus, IsCanceledRunResult, ServiceType
  <2>2. PCType'
    BY <1>8, PCMoves DEF FinishRun
  <2>3. LocalType'
    BY <1>8 DEF FinishRun, FinishedStatus, IsCanceledRunResult, LocalType
  <2>4. HistoryType'
    BY <1>8 DEF FinishRun, FinishedStatus, IsCanceledRunResult, HistoryType
  <2>5. ViewType'
    BY <1>8 DEF FinishRun, FinishedStatus, IsCanceledRunResult, ViewType, PCType, LocalType
  <2> QED
    BY <2>1, <2>2, <2>3, <2>4, <2>5
<1>9. ASSUME NEW i \in RunIDs, FinalizeRun(i, i, "finalize", "commit") PROVE TypeInv'
  BY <1>9 DEF FinalizeRun, Go, ServiceType, PCType, LocalType, HistoryType, ViewType
<1>10. ASSUME NEW i \in RunIDs, CommitFinish(i) PROVE TypeInv'
  <2>1. ServiceType'
    <3>1. CASE runs[i] = "absent"
      BY <1>10, <3>1 DEF CommitFinish, ServiceType, ViewType
    <3>2. CASE ~(runs[i] = "absent")
      BY <1>10, <3>2 DEF CommitFinish, ServiceType, ViewType
    <3> QED
      BY <3>1, <3>2
  <2>2. PCType'
    BY <1>10, PCMoves DEF CommitFinish
  <2>3. LocalType'
    BY <1>10 DEF CommitFinish, LocalType
  <2>4. HistoryType'
    BY <1>10 DEF CommitFinish, HistoryType
  <2>5. ViewType'
    BY <1>10 DEF CommitFinish, ViewType, PCType, LocalType
  <2> QED
    BY <2>1, <2>2, <2>3, <2>4, <2>5
<1>11. ASSUME NEW i \in RunIDs, Notify(i, i, "finNotify", "finWake") PROVE TypeInv'
  BY <1>11 DEF Notify, Go, ServiceType, PCType, LocalType, HistoryType, ViewType
<1>12. ASSUME NEW i \in RunIDs, Wake(i, i, "finWake", "done") PROVE TypeInv'
  BY <1>12 DEF Wake, Go, ServiceType, PCType, LocalType, HistoryType, ViewType
<1>13. ASSUME NEW c \in Clients, SpawnRollback(c) PROVE TypeInv'
  BY <1>13 DEF SpawnRollback, Go, ServiceType, PCType, LocalType, HistoryType, ViewType
<1>14. ASSUME NEW c \in Clients, SpawnLaunch(c) PROVE TypeInv'
  <2>1. ServiceType'
    BY <1>14 DEF SpawnLaunch, ServiceType
  <2>2. PCType'
    BY <1>14 DEF SpawnLaunch, PCType, LocalType
  <2>3. LocalType'
    BY <1>14 DEF SpawnLaunch, LocalType
  <2>4. HistoryType'
    BY <1>14 DEF SpawnLaunch, HistoryType, LocalType
  <2>5. ViewType'
    BY <1>14 DEF SpawnLaunch, ViewType, PCType, LocalType
  <2> QED
    BY <2>1, <2>2, <2>3, <2>4, <2>5
<1>15. ASSUME NEW c \in Clients, CancelView(c) PROVE TypeInv'
  BY <1>15 DEF CancelView, Go, ServiceType, PCType, LocalType, HistoryType, ViewType
<1>16. ASSUME NEW c \in Clients, FinalizeRun(c, tgt[c], "canFinalize", "canStore") PROVE TypeInv'
  <2>1. ServiceType'
    BY <1>16 DEF FinalizeRun, Go, ServiceType
  <2>2. PCType'
    BY <1>16, PCMoves DEF FinalizeRun, Go
  <2>3. LocalType'
    BY <1>16 DEF FinalizeRun, Go, LocalType
  <2>4. HistoryType'
    BY <1>16 DEF FinalizeRun, Go, HistoryType, LocalType
  <2>5. ViewType'
    BY <1>16 DEF FinalizeRun, Go, ViewType, PCType, LocalType
  <2> QED
    BY <2>1, <2>2, <2>3, <2>4, <2>5
<1>17. ASSUME NEW c \in Clients, CancelStore(c) PROVE TypeInv'
  <2>1. ServiceType'
    <3>1. CASE runs[tgt[c]] = "absent"
      BY <1>17, <3>1 DEF CancelStore, ServiceType, LocalType
    <3>2. CASE ~(runs[tgt[c]] = "absent")
      BY SMTT(30), <1>17, <3>2 DEF CancelStore, ServiceType, LocalType
    <3> QED
      BY <3>1, <3>2
  <2>2. PCType'
    BY <1>17, PCMoves DEF CancelStore
  <2>3. LocalType'
    BY <1>17 DEF CancelStore, LocalType
  <2>4. HistoryType'
    BY <1>17 DEF CancelStore, HistoryType
  <2>5. ViewType'
    BY <1>17 DEF CancelStore, ViewType, PCType, LocalType
  <2> QED
    BY <2>1, <2>2, <2>3, <2>4, <2>5
<1>18. ASSUME NEW c \in Clients, Notify(c, tgt[c], "canNotify", "canWake") PROVE TypeInv'
  BY <1>18 DEF Notify, Go, ServiceType, PCType, LocalType, HistoryType, ViewType
<1>19. ASSUME NEW c \in Clients, Wake(c, tgt[c], "canWake", "idle") PROVE TypeInv'
  BY <1>19 DEF Wake, Go, ServiceType, PCType, LocalType, HistoryType, ViewType
<1>20. ASSUME NEW c \in Clients, WaitWoken(c) PROVE TypeInv'
  <2>1. ServiceType'
    BY <1>20 DEF WaitWoken, ServiceType
  <2>2. PCType'
    BY <1>20, PCMoves DEF WaitWoken, PCType
  <2>3. LocalType'
    BY <1>20 DEF WaitWoken, LocalType
  <2>4. HistoryType'
    BY <1>20 DEF WaitWoken, HistoryType
  <2>5. ViewType'
    BY <1>20 DEF WaitWoken, ViewType, PCType, LocalType
  <2> QED
    BY <2>1, <2>2, <2>3, <2>4, <2>5
<1>21. ASSUME NEW c \in Clients, StopAllRunning(c) PROVE TypeInv'
  BY <1>21 DEF StopAllRunning, Go, ServiceType, PCType, LocalType, HistoryType, ViewType
<1>22. ASSUME NEW c \in Clients, CloseWaited(c) PROVE TypeInv'
  BY <1>22 DEF CloseWaited, Go, ServiceType, PCType, LocalType, HistoryType, ViewType
<1>23. ASSUME NEW c \in Clients, WaitGiveUp(c) PROVE TypeInv'
  BY <1>23 DEF WaitGiveUp, Go, ServiceType, PCType, LocalType, HistoryType, ViewType
<1>24. ASSUME NEW c \in Clients, CloseCancel(c) PROVE TypeInv'
  BY <1>24 DEF CloseCancel, Go, ServiceType, PCType, LocalType, HistoryType, ViewType
<1>25. ASSUME NEW c \in Clients, NEW i \in RunIDs, SpawnInsert(c, i) PROVE TypeInv'
  BY <1>25 DEF SpawnInsert, Go, ServiceType, PCType, LocalType, HistoryType, ViewType
<1>26. ASSUME NEW c \in Clients, NEW i \in RunIDs, MarkCanceled(c, i) PROVE TypeInv'
  <2>1. ServiceType'
    BY <1>26 DEF MarkCanceled, Cancelable, ServiceType
  <2>2. PCType'
    BY <1>26, PCMoves DEF MarkCanceled
  <2>3. LocalType'
    BY <1>26 DEF MarkCanceled, Cancelable, LocalType
  <2>4. HistoryType'
    BY <1>26 DEF MarkCanceled, Cancelable, HistoryType
  <2>5. ViewType'
    BY <1>26 DEF MarkCanceled, Cancelable, ViewType, PCType, LocalType
  <2> QED
    BY <2>1, <2>2, <2>3, <2>4, <2>5
<1>27. ASSUME NEW c \in Clients, NEW i \in RunIDs, WaitCall(c, i) PROVE TypeInv'
  BY <1>27 DEF WaitCall, Go, ServiceType, PCType, LocalType, HistoryType, ViewType
<1>28. CASE Start
  BY <1>28 DEF Start, ServiceType, PCType, LocalType, HistoryType, ViewType
<1>29. CASE Crash
  <2>1. ServiceType'
    BY <1>29 DEF Crash, NoRuns, ServiceType
  <2>2. PCType'
    BY <1>29 DEF Crash, IdlePC, PCType
  <2>3. LocalType'
    BY <1>29 DEF Crash, NoRuns, LocalType
  <2>4. HistoryType'
    BY <1>29 DEF Crash, NoRuns, HistoryType
  <2>5. ViewType'
    BY <1>29 DEF Crash, NoRuns, IdlePC, ViewType, PCType, LocalType
  <2> QED
    BY <2>1, <2>2, <2>3, <2>4, <2>5
<1>30. CASE NewService
  <2>1. ServiceType'
    <3>1. \A i \in RunIDs : Normalized(store[i]) \in StatusOrAbsent
      BY DEF Normalized, ServiceType
    <3>2. runs' \in [RunIDs -> StatusOrAbsent] /\ store' \in [RunIDs -> StatusOrAbsent]
      BY <1>30, <3>1 DEF NewService, ServiceType
    <3> QED
      BY <1>30, <3>2 DEF NewService, ServiceType
  <2>2. PCType'
    BY <1>30 DEF NewService, PCType
  <2>3. LocalType'
    BY <1>30 DEF NewService, Normalized, LocalType
  <2>4. HistoryType'
    BY <1>30 DEF NewService, Normalized, HistoryType
  <2>5. ViewType'
    BY <1>30 DEF NewService, Normalized, ViewType, PCType, LocalType
  <2> QED
    BY <2>1, <2>2, <2>3, <2>4, <2>5
<1>31. CASE UNCHANGED vars
  BY <1>31 DEF vars, ServiceType, PCType, LocalType, HistoryType, ViewType
<1> QED
  BY <1>1, <1>2, <1>3, <1>4, <1>5, <1>6, <1>7, <1>8, <1>9, <1>10, <1>11, <1>12, <1>13, <1>14,
     <1>15, <1>16, <1>17, <1>18, <1>19, <1>20, <1>21, <1>22, <1>23, <1>24, <1>25, <1>26, <1>27,
     <1>28, <1>29, <1>30, <1>31
     DEF Next, Persist, Worker, ClientStep, ClientCall

\* Every variable of the service keeps its type: a run's Status is always one of
\* the declared ones, also after a restart has normalized the loaded runs.
THEOREM TypeCorrect == Spec => []TypeOK
BY TypeInit, TypeStep, PTL DEF Spec, TypeInv

LEMMA OwnershipStep ==
  ASSUME TypeInv, Ownership, FreshIDs, [Next]_vars
  PROVE  Ownership'
<1> USE ProcsSplit, Names DEF svcVars, procVars, histVars, boundVars, TypeInv, TypeOK, Ownership
<1>1. ASSUME NEW p \in Procs, PersistSnapshot(p) PROVE Ownership'
  <2>1. /\ persistMu = None /\ persistMu' = p /\ snap' = [snap EXCEPT ![p] = runs] /\ up
        /\ UNCHANGED <<runs, running, tgt, view, histVars, store, up>>
    BY <1>1 DEF PersistSnapshot
  <2>2. \/ p \in Clients /\ pc[p] = "spPersist" /\ pc' = [pc EXCEPT ![p] = "spSave"]
        \/ p \in RunIDs /\ pc[p] = "runPersist" /\ pc' = [pc EXCEPT ![p] = "runSave"]
        \/ p \in RunIDs /\ pc[p] = "finPersist" /\ pc' = [pc EXCEPT ![p] = "finSave"]
        \/ p \in Clients /\ pc[p] = "canPersist" /\ pc' = [pc EXCEPT ![p] = "canSave"]
        \/ p \in Clients /\ pc[p] = "clPersist" /\ pc' = [pc EXCEPT ![p] = "clSave"]
    BY <1>1, PersistPC
  <2>3. Down'
    BY <2>1, <2>2 DEF Down, ServiceType, PCType, LocalType, HistoryType
  <2>4. Mutex'
    BY <2>1, <2>2 DEF Mutex, Saving, ServiceType, PCType, LocalType, HistoryType
  <2>5. Unused'
    BY <2>1, <2>2 DEF Unused, Saving, SpawnOwns, Spawning, CancelTarget, CancelPending,
       CancelNotified, ServiceType, PCType, LocalType, HistoryType
  <2>6. SpawnOwns'
    BY <2>1, <2>2 DEF SpawnOwns, Spawning, Unused, Saving, Phase, BeforeChildEnds, AfterCommit,
       Terminal, ServiceType, PCType, LocalType, HistoryType
  <2>7. KeptIsKept'
    BY <2>1, <2>2 DEF KeptIsKept, Kept, Saving, SpawnOwns, Spawning, Unused, Phase,
       BeforeChildEnds, AfterCommit, Terminal, ServiceType, PCType, LocalType, HistoryType
  <2>8. Phase'
    BY <2>1, <2>2 DEF Phase, BeforeChildEnds, AfterCommit, Terminal, SpawnOwns, Spawning,
       CancelOwns, CancelPending, KeptIsKept, Kept, Saving, ServiceType, PCType, LocalType,
       HistoryType
  <2>9. CancelTarget'
    BY <2>1, <2>2 DEF CancelTarget, CancelPending, CancelNotified, Unused, Saving, ServiceType,
       PCType, LocalType, HistoryType
  <2>10. CancelOwns'
    BY <2>1, <2>2 DEF CancelOwns, CancelPending, Phase, BeforeChildEnds, AfterCommit, Terminal,
       SpawnOwns, Spawning, Unused, Saving, ServiceType, PCType, LocalType, HistoryType
  <2> QED
    BY <2>3, <2>4, <2>5, <2>6, <2>7, <2>8, <2>9, <2>10 DEF Ownership
<1>2. ASSUME NEW p \in Procs, PersistSave(p) PROVE Ownership'
  <2>1. /\ persistMu' = None /\ snap' = [snap EXCEPT ![p] = NoRuns] /\ up
        /\ UNCHANGED <<runs, running, tgt, view, histVars, up>>
    BY <1>2 DEF PersistSave
  <2>2. \/ /\ p \in Clients /\ pc[p] = "spSave"
           /\ \/ pc' = [pc EXCEPT ![p] = "spNotify"] /\ store' = snap[p]
              \/ pc' = [pc EXCEPT ![p] = "spRollback"] /\ store' = store
        \/ /\ p \in RunIDs /\ pc[p] = "runSave"
           /\ \/ pc' = [pc EXCEPT ![p] = "runNotify"] /\ store' = snap[p]
              \/ pc' = [pc EXCEPT ![p] = "failMark"] /\ store' = store
        \/ /\ p \in RunIDs /\ pc[p] = "finSave"
           /\ \/ pc' = [pc EXCEPT ![p] = "finNotify"] /\ store' = snap[p]
              \/ pc' = [pc EXCEPT ![p] = "finWake"] /\ store' = store
        \/ /\ p \in Clients /\ pc[p] = "canSave"
           /\ \/ pc' = [pc EXCEPT ![p] = "canNotify"] /\ store' = snap[p]
              \/ pc' = [pc EXCEPT ![p] = "canWake"] /\ store' = store
        \/ /\ p \in Clients /\ pc[p] = "clSave"
           /\ pc' = [pc EXCEPT ![p] = "idle"] /\ store' \in {snap[p], store}
    BY <1>2, PersistPC
  <2>3. \A q \in Procs : pc'[q] \notin Saving
    BY <2>2 DEF Mutex, Saving, PCType
  <2>4. Down'
    BY <2>1, <2>2, <2>3 DEF Down, ServiceType, PCType, LocalType, HistoryType
  <2>5. Mutex'
    BY <2>1, <2>2, <2>3 DEF Mutex, Saving, ServiceType, PCType, LocalType, HistoryType
  <2>6. Unused'
    BY <2>1, <2>2, <2>3 DEF Unused, Saving, SpawnOwns, Spawning, CancelTarget, CancelPending,
       CancelNotified, ServiceType, PCType, LocalType, HistoryType
  <2>7. SpawnOwns'
    BY <2>1, <2>2, <2>3 DEF SpawnOwns, Spawning, Unused, Saving, Phase, BeforeChildEnds,
       AfterCommit, Terminal, ServiceType, PCType, LocalType, HistoryType
  <2>8. KeptIsKept'
    BY <2>1, <2>2, <2>3 DEF KeptIsKept, Kept, Saving, SpawnOwns, Spawning, Unused, Phase,
       BeforeChildEnds, AfterCommit, Terminal, ServiceType, PCType, LocalType, HistoryType
  <2>9. Phase'
    BY <2>1, <2>2, <2>3 DEF Phase, BeforeChildEnds, AfterCommit, Terminal, SpawnOwns, Spawning,
       CancelOwns, CancelPending, KeptIsKept, Kept, Saving, ServiceType, PCType, LocalType,
       HistoryType
  <2>10. CancelTarget'
    BY <2>1, <2>2, <2>3 DEF CancelTarget, CancelPending, CancelNotified, Unused, Saving,
       ServiceType, PCType, LocalType, HistoryType
  <2>11. CancelOwns'
    BY <2>1, <2>2, <2>3 DEF CancelOwns, CancelPending, Phase, BeforeChildEnds, AfterCommit,
       Terminal, SpawnOwns, Spawning, Unused, Saving, ServiceType, PCType, LocalType,
       HistoryType
  <2> QED
    BY <2>4, <2>5, <2>6, <2>7, <2>8, <2>9, <2>10, <2>11 DEF Ownership
<1>3. ASSUME NEW i \in RunIDs, MarkRunning(i) PROVE Ownership'
  <2>1. Down'
    BY <1>3 DEF MarkRunning, Down, ServiceType, PCType, LocalType, HistoryType
  <2>2. Mutex'
    BY <1>3 DEF MarkRunning, Mutex, Saving, ServiceType, PCType, LocalType, HistoryType
  <2>3. Unused'
    BY <1>3 DEF MarkRunning, Unused, Saving, SpawnOwns, Spawning, CancelTarget, CancelPending,
       CancelNotified, ServiceType, PCType, LocalType, HistoryType
  <2>4. SpawnOwns'
    BY <1>3 DEF MarkRunning, SpawnOwns, Spawning, ServiceType, PCType, LocalType, HistoryType
  <2>5. KeptIsKept'
    BY <1>3 DEF MarkRunning, KeptIsKept, Kept, Saving, SpawnOwns, Spawning, Unused, Phase,
       BeforeChildEnds, AfterCommit, Terminal, ServiceType, PCType, LocalType, HistoryType
  <2>6. Phase'
    BY <1>3 DEF MarkRunning, Phase, BeforeChildEnds, AfterCommit, Terminal, SpawnOwns,
       Spawning, CancelOwns, CancelPending, KeptIsKept, Kept, Saving, ServiceType, PCType,
       LocalType, HistoryType
  <2>7. CancelTarget'
    BY <1>3 DEF MarkRunning, CancelTarget, CancelPending, CancelNotified, Unused, Saving,
       ServiceType, PCType, LocalType, HistoryType
  <2>8. CancelOwns'
    BY SMTT(30), <1>3 DEF MarkRunning, CancelOwns, CancelPending, Phase, BeforeChildEnds, AfterCommit,
       Terminal, SpawnOwns, Spawning, Unused, Saving, ServiceType, PCType, LocalType,
       HistoryType
  <2> QED
    BY <2>1, <2>2, <2>3, <2>4, <2>5, <2>6, <2>7, <2>8 DEF Ownership
<1>4. ASSUME NEW i \in RunIDs, NotifyRunning(i) PROVE Ownership'
  <2>1. Down'
    BY <1>4 DEF NotifyRunning, Go, Down, ServiceType, PCType, LocalType, HistoryType
  <2>2. Mutex'
    BY <1>4 DEF NotifyRunning, Go, Mutex, Saving, ServiceType, PCType, LocalType, HistoryType
  <2>3. Unused'
    BY <1>4 DEF NotifyRunning, Go, Unused, Saving, SpawnOwns, Spawning, CancelTarget,
       CancelPending, CancelNotified, ServiceType, PCType, LocalType, HistoryType
  <2>4. SpawnOwns'
    BY <1>4 DEF NotifyRunning, Go, SpawnOwns, Spawning, Unused, Saving, Phase, BeforeChildEnds,
       AfterCommit, Terminal, ServiceType, PCType, LocalType, HistoryType
  <2>5. KeptIsKept'
    BY <1>4 DEF NotifyRunning, Go, KeptIsKept, Kept, Saving, SpawnOwns, Spawning, Unused,
       Phase, BeforeChildEnds, AfterCommit, Terminal, ServiceType, PCType, LocalType,
       HistoryType
  <2>6. Phase'
    BY <1>4 DEF NotifyRunning, Go, Phase, BeforeChildEnds, AfterCommit, Terminal, SpawnOwns,
       Spawning, CancelOwns, CancelPending, KeptIsKept, Kept, Saving, ServiceType, PCType,
       LocalType, HistoryType
  <2>7. CancelTarget'
    BY <1>4 DEF NotifyRunning, Go, CancelTarget, CancelPending, CancelNotified, Unused, Saving,
       ServiceType, PCType, LocalType, HistoryType
  <2>8. CancelOwns'
    BY <1>4 DEF NotifyRunning, Go, CancelOwns, CancelPending, Phase, BeforeChildEnds,
       AfterCommit, Terminal, SpawnOwns, Spawning, Unused, Saving, ServiceType, PCType,
       LocalType, HistoryType
  <2> QED
    BY <2>1, <2>2, <2>3, <2>4, <2>5, <2>6, <2>7, <2>8 DEF Ownership
<1>5. ASSUME NEW i \in RunIDs, FailPersisted(i) PROVE Ownership'
  <2>1. Down'
    BY <1>5 DEF FailPersisted, Down, ServiceType, PCType, LocalType, HistoryType
  <2>2. Mutex'
    BY <1>5 DEF FailPersisted, Mutex, Saving, ServiceType, PCType, LocalType, HistoryType
  <2>3. Unused'
    BY <1>5 DEF FailPersisted, Unused, Saving, SpawnOwns, Spawning, CancelTarget,
       CancelPending, CancelNotified, ServiceType, PCType, LocalType, HistoryType
  <2>4. SpawnOwns'
    BY <1>5 DEF FailPersisted, SpawnOwns, Spawning, Unused, Saving, Phase, BeforeChildEnds,
       AfterCommit, Terminal, ServiceType, PCType, LocalType, HistoryType
  <2>5. KeptIsKept'
    BY <1>5 DEF FailPersisted, KeptIsKept, Kept, Saving, SpawnOwns, Spawning, Unused, Phase,
       BeforeChildEnds, AfterCommit, Terminal, ServiceType, PCType, LocalType, HistoryType
  <2>6. Phase'
    BY <1>5 DEF FailPersisted, Phase, BeforeChildEnds, AfterCommit, Terminal, SpawnOwns,
       Spawning, CancelOwns, CancelPending, KeptIsKept, Kept, Saving, ServiceType, PCType,
       LocalType, HistoryType
  <2>7. CancelTarget'
    BY <1>5 DEF FailPersisted, CancelTarget, CancelPending, CancelNotified, Unused, Saving,
       ServiceType, PCType, LocalType, HistoryType
  <2>8. CancelOwns'
    BY <1>5 DEF FailPersisted, CancelOwns, CancelPending, Phase, BeforeChildEnds, AfterCommit,
       Terminal, SpawnOwns, Spawning, Unused, Saving, ServiceType, PCType, LocalType,
       HistoryType
  <2> QED
    BY <2>1, <2>2, <2>3, <2>4, <2>5, <2>6, <2>7, <2>8 DEF Ownership
<1>6. ASSUME NEW i \in RunIDs, \E r \in ChildResult : ChildReturn(i, r) PROVE Ownership'
  <2>1. Down'
    BY <1>6 DEF ChildReturn, Go, Down, ServiceType, PCType, LocalType, HistoryType
  <2>2. Mutex'
    BY <1>6 DEF ChildReturn, Go, Mutex, Saving, ServiceType, PCType, LocalType, HistoryType
  <2>3. Unused'
    BY <1>6 DEF ChildReturn, Go, Unused, Saving, SpawnOwns, Spawning, CancelTarget,
       CancelPending, CancelNotified, ServiceType, PCType, LocalType, HistoryType
  <2>4. SpawnOwns'
    BY <1>6 DEF ChildReturn, Go, SpawnOwns, Spawning, Unused, Saving, Phase, BeforeChildEnds,
       AfterCommit, Terminal, ServiceType, PCType, LocalType, HistoryType
  <2>5. KeptIsKept'
    BY <1>6 DEF ChildReturn, Go, KeptIsKept, Kept, Saving, SpawnOwns, Spawning, Unused, Phase,
       BeforeChildEnds, AfterCommit, Terminal, ServiceType, PCType, LocalType, HistoryType
  <2>6. Phase'
    BY <1>6 DEF ChildReturn, Go, Phase, BeforeChildEnds, AfterCommit, Terminal, SpawnOwns,
       Spawning, CancelOwns, CancelPending, KeptIsKept, Kept, Saving, ServiceType, PCType,
       LocalType, HistoryType
  <2>7. CancelTarget'
    BY <1>6 DEF ChildReturn, Go, CancelTarget, CancelPending, CancelNotified, Unused, Saving,
       ServiceType, PCType, LocalType, HistoryType
  <2>8. CancelOwns'
    BY <1>6 DEF ChildReturn, Go, CancelOwns, CancelPending, Phase, BeforeChildEnds,
       AfterCommit, Terminal, SpawnOwns, Spawning, Unused, Saving, ServiceType, PCType,
       LocalType, HistoryType
  <2> QED
    BY <2>1, <2>2, <2>3, <2>4, <2>5, <2>6, <2>7, <2>8 DEF Ownership
<1>7. ASSUME NEW i \in RunIDs, MarkExiting(i) PROVE Ownership'
  BY SMTT(30), <1>7 DEF MarkExiting, Go, Down, Mutex, Saving, Unused, SpawnOwns, Spawning, KeptIsKept,
     Kept, Phase, BeforeChildEnds, AfterCommit, Terminal, CancelTarget, CancelPending,
     CancelNotified, CancelOwns, ServiceType, PCType, LocalType, HistoryType
<1>8. ASSUME NEW i \in RunIDs, FinishRun(i) PROVE Ownership'
  <2>1. Down'
    BY <1>8 DEF FinishRun, FinishedStatus, IsCanceledRunResult, Down, ServiceType, PCType,
       LocalType, HistoryType
  <2>2. Mutex'
    BY <1>8 DEF FinishRun, FinishedStatus, IsCanceledRunResult, Mutex, Saving, ServiceType,
       PCType, LocalType, HistoryType
  <2>3. Unused'
    BY <1>8 DEF FinishRun, FinishedStatus, IsCanceledRunResult, Unused, Saving, SpawnOwns,
       Spawning, CancelTarget, CancelPending, CancelNotified, ServiceType, PCType, LocalType,
       HistoryType
  <2>4. SpawnOwns'
    BY <1>8 DEF FinishRun, FinishedStatus, IsCanceledRunResult, SpawnOwns, Spawning, Unused,
       Saving, Phase, BeforeChildEnds, AfterCommit, Terminal, ServiceType, PCType, LocalType,
       HistoryType
  <2>5. KeptIsKept'
    BY <1>8 DEF FinishRun, FinishedStatus, IsCanceledRunResult, KeptIsKept, Kept, Saving,
       SpawnOwns, Spawning, Unused, Phase, BeforeChildEnds, AfterCommit, Terminal, ServiceType,
       PCType, LocalType, HistoryType
  <2>6. Phase'
    BY <1>8 DEF FinishRun, FinishedStatus, IsCanceledRunResult, Phase, BeforeChildEnds,
       AfterCommit, Terminal, SpawnOwns, Spawning, CancelOwns, CancelPending, KeptIsKept, Kept,
       Saving, ServiceType, PCType, LocalType, HistoryType
  <2>7. CancelTarget'
    BY <1>8 DEF FinishRun, FinishedStatus, IsCanceledRunResult, CancelTarget, CancelPending,
       CancelNotified, Unused, Saving, ServiceType, PCType, LocalType, HistoryType
  <2>8. CancelOwns'
    BY SMTT(30), <1>8 DEF FinishRun, FinishedStatus, IsCanceledRunResult, CancelOwns, CancelPending,
       Phase, BeforeChildEnds, AfterCommit, Terminal, SpawnOwns, Spawning, Unused, Saving,
       ServiceType, PCType, LocalType, HistoryType
  <2> QED
    BY <2>1, <2>2, <2>3, <2>4, <2>5, <2>6, <2>7, <2>8 DEF Ownership
<1>9. ASSUME NEW i \in RunIDs, FinalizeRun(i, i, "finalize", "commit") PROVE Ownership'
  <2>1. Down'
    BY <1>9 DEF FinalizeRun, Go, Down, ServiceType, PCType, LocalType, HistoryType
  <2>2. Mutex'
    BY <1>9 DEF FinalizeRun, Go, Mutex, Saving, ServiceType, PCType, LocalType, HistoryType
  <2>3. Unused'
    BY <1>9 DEF FinalizeRun, Go, Unused, Saving, SpawnOwns, Spawning, CancelTarget,
       CancelPending, CancelNotified, ServiceType, PCType, LocalType, HistoryType
  <2>4. SpawnOwns'
    BY <1>9 DEF FinalizeRun, Go, SpawnOwns, Spawning, Unused, Saving, Phase, BeforeChildEnds,
       AfterCommit, Terminal, ServiceType, PCType, LocalType, HistoryType
  <2>5. KeptIsKept'
    BY <1>9 DEF FinalizeRun, Go, KeptIsKept, Kept, Saving, SpawnOwns, Spawning, Unused, Phase,
       BeforeChildEnds, AfterCommit, Terminal, ServiceType, PCType, LocalType, HistoryType
  <2>6. Phase'
    BY <1>9 DEF FinalizeRun, Go, Phase, BeforeChildEnds, AfterCommit, Terminal, SpawnOwns,
       Spawning, CancelOwns, CancelPending, KeptIsKept, Kept, Saving, ServiceType, PCType,
       LocalType, HistoryType
  <2>7. CancelTarget'
    BY <1>9 DEF FinalizeRun, Go, CancelTarget, CancelPending, CancelNotified, Unused, Saving,
       ServiceType, PCType, LocalType, HistoryType
  <2>8. CancelOwns'
    BY <1>9 DEF FinalizeRun, Go, CancelOwns, CancelPending, Phase, BeforeChildEnds,
       AfterCommit, Terminal, SpawnOwns, Spawning, Unused, Saving, ServiceType, PCType,
       LocalType, HistoryType
  <2> QED
    BY <2>1, <2>2, <2>3, <2>4, <2>5, <2>6, <2>7, <2>8 DEF Ownership
<1>10. ASSUME NEW i \in RunIDs, CommitFinish(i) PROVE Ownership'
  <2>1. Down'
    BY <1>10 DEF CommitFinish, Down, ServiceType, PCType, LocalType, HistoryType
  <2>2. Mutex'
    BY <1>10 DEF CommitFinish, Mutex, Saving, ServiceType, PCType, LocalType, HistoryType
  <2>3. Unused'
    BY <1>10 DEF CommitFinish, Unused, Saving, SpawnOwns, Spawning, CancelTarget,
       CancelPending, CancelNotified, ServiceType, PCType, LocalType, HistoryType
  <2>4. SpawnOwns'
    BY <1>10 DEF CommitFinish, SpawnOwns, Spawning, Unused, Saving, Phase, BeforeChildEnds,
       AfterCommit, Terminal, ServiceType, PCType, LocalType, HistoryType
  <2>5. KeptIsKept'
    BY SMTT(30), <1>10 DEF CommitFinish, KeptIsKept, Kept, Saving, SpawnOwns, Spawning, Unused, Phase,
       BeforeChildEnds, AfterCommit, Terminal, ServiceType, PCType, LocalType, HistoryType
  <2>6. Phase'
    BY <1>10 DEF CommitFinish, Phase, BeforeChildEnds, AfterCommit, Terminal, SpawnOwns,
       Spawning, CancelOwns, CancelPending, KeptIsKept, Kept, Saving, ServiceType, PCType,
       LocalType, HistoryType
  <2>7. CancelTarget'
    BY <1>10 DEF CommitFinish, CancelTarget, CancelPending, CancelNotified, Unused, Saving,
       ServiceType, PCType, LocalType, HistoryType
  <2>8. CancelOwns'
    BY SMTT(30), <1>10 DEF CommitFinish, CancelOwns, CancelPending, ServiceType, PCType, LocalType,
       HistoryType
  <2> QED
    BY <2>1, <2>2, <2>3, <2>4, <2>5, <2>6, <2>7, <2>8 DEF Ownership
<1>11. ASSUME NEW i \in RunIDs, Notify(i, i, "finNotify", "finWake") PROVE Ownership'
  <2>1. Down'
    BY <1>11 DEF Notify, Go, Down, ServiceType, PCType, LocalType, HistoryType
  <2>2. Mutex'
    BY <1>11 DEF Notify, Go, Mutex, Saving, ServiceType, PCType, LocalType, HistoryType
  <2>3. Unused'
    BY <1>11 DEF Notify, Go, Unused, Saving, SpawnOwns, Spawning, CancelTarget, CancelPending,
       CancelNotified, ServiceType, PCType, LocalType, HistoryType
  <2>4. SpawnOwns'
    BY <1>11 DEF Notify, Go, SpawnOwns, Spawning, Unused, Saving, Phase, BeforeChildEnds,
       AfterCommit, Terminal, ServiceType, PCType, LocalType, HistoryType
  <2>5. KeptIsKept'
    BY <1>11 DEF Notify, Go, KeptIsKept, Kept, Saving, SpawnOwns, Spawning, Unused, Phase,
       BeforeChildEnds, AfterCommit, Terminal, ServiceType, PCType, LocalType, HistoryType
  <2>6. Phase'
    BY <1>11 DEF Notify, Go, Phase, BeforeChildEnds, AfterCommit, Terminal, SpawnOwns,
       Spawning, CancelOwns, CancelPending, KeptIsKept, Kept, Saving, ServiceType, PCType,
       LocalType, HistoryType
  <2>7. CancelTarget'
    BY <1>11 DEF Notify, Go, CancelTarget, CancelPending, CancelNotified, Unused, Saving,
       ServiceType, PCType, LocalType, HistoryType
  <2>8. CancelOwns'
    BY <1>11 DEF Notify, Go, CancelOwns, CancelPending, Phase, BeforeChildEnds, AfterCommit,
       Terminal, SpawnOwns, Spawning, Unused, Saving, ServiceType, PCType, LocalType,
       HistoryType
  <2> QED
    BY <2>1, <2>2, <2>3, <2>4, <2>5, <2>6, <2>7, <2>8 DEF Ownership
<1>12. ASSUME NEW i \in RunIDs, Wake(i, i, "finWake", "done") PROVE Ownership'
  <2>1. Down'
    BY <1>12 DEF Wake, Go, Down, ServiceType, PCType, LocalType, HistoryType
  <2>2. Mutex'
    BY <1>12 DEF Wake, Go, Mutex, Saving, ServiceType, PCType, LocalType, HistoryType
  <2>3. Unused'
    BY <1>12 DEF Wake, Go, Unused, Saving, SpawnOwns, Spawning, CancelTarget, CancelPending,
       CancelNotified, ServiceType, PCType, LocalType, HistoryType
  <2>4. SpawnOwns'
    BY <1>12 DEF Wake, Go, SpawnOwns, Spawning, Unused, Saving, Phase, BeforeChildEnds,
       AfterCommit, Terminal, ServiceType, PCType, LocalType, HistoryType
  <2>5. KeptIsKept'
    BY <1>12 DEF Wake, Go, KeptIsKept, Kept, Saving, SpawnOwns, Spawning, Unused, Phase,
       BeforeChildEnds, AfterCommit, Terminal, ServiceType, PCType, LocalType, HistoryType
  <2>6. Phase'
    BY <1>12 DEF Wake, Go, Phase, BeforeChildEnds, AfterCommit, Terminal, SpawnOwns, Spawning,
       CancelOwns, CancelPending, KeptIsKept, Kept, Saving, ServiceType, PCType, LocalType,
       HistoryType
  <2>7. CancelTarget'
    BY <1>12 DEF Wake, Go, CancelTarget, CancelPending, CancelNotified, Unused, Saving,
       ServiceType, PCType, LocalType, HistoryType
  <2>8. CancelOwns'
    BY <1>12 DEF Wake, Go, CancelOwns, CancelPending, Phase, BeforeChildEnds, AfterCommit,
       Terminal, SpawnOwns, Spawning, Unused, Saving, ServiceType, PCType, LocalType,
       HistoryType
  <2> QED
    BY <2>1, <2>2, <2>3, <2>4, <2>5, <2>6, <2>7, <2>8 DEF Ownership
<1>13. ASSUME NEW c \in Clients, SpawnRollback(c) PROVE Ownership'
  BY <1>13 DEF SpawnRollback, Go, Down, Mutex, Saving, Unused, SpawnOwns, Spawning, KeptIsKept,
     Kept, Phase, BeforeChildEnds, AfterCommit, Terminal, CancelTarget, CancelPending,
     CancelNotified, CancelOwns, ServiceType, PCType, LocalType, HistoryType
<1>14. ASSUME NEW c \in Clients, SpawnLaunch(c) PROVE Ownership'
  <2>1. Down'
    BY <1>14 DEF SpawnLaunch, Down, ServiceType, PCType, LocalType, HistoryType
  <2>2. Mutex'
    <3>1. /\ c \in Procs /\ tgt[c] \in Procs /\ c # tgt[c]
          /\ pc[c] = "spNotify" /\ pc[tgt[c]] = "none"
      BY <1>14 DEF SpawnLaunch, SpawnOwns, Spawning, LocalType
    <3>2. /\ pc'[c] = "idle" /\ pc'[tgt[c]] = "start" /\ persistMu' = persistMu
          /\ \A p \in Procs : p # c /\ p # tgt[c] => pc'[p] = pc[p]
      BY <1>14, <3>1 DEF SpawnLaunch, PCType, svcVars
    <3> QED
      BY <3>1, <3>2 DEF Mutex, Saving
  <2>3. Unused'
    BY <1>14 DEF SpawnLaunch, Unused, Saving, SpawnOwns, Spawning, CancelTarget, CancelPending,
       CancelNotified, ServiceType, PCType, LocalType, HistoryType
  <2>4. SpawnOwns'
    BY <1>14 DEF SpawnLaunch, SpawnOwns, Spawning, Unused, Saving, Phase, BeforeChildEnds,
       AfterCommit, Terminal, ServiceType, PCType, LocalType, HistoryType
  <2>5. KeptIsKept'
    BY <1>14 DEF SpawnLaunch, KeptIsKept, Kept, Saving, SpawnOwns, Spawning, Unused, Phase,
       BeforeChildEnds, AfterCommit, Terminal, ServiceType, PCType, LocalType, HistoryType
  <2>6. Phase'
    BY <1>14 DEF SpawnLaunch, Phase, BeforeChildEnds, AfterCommit, Terminal, SpawnOwns,
       Spawning, CancelOwns, CancelPending, KeptIsKept, Kept, Saving, ServiceType, PCType,
       LocalType, HistoryType
  <2>7. CancelTarget'
    BY <1>14 DEF SpawnLaunch, CancelTarget, CancelPending, CancelNotified, Unused, Saving,
       ServiceType, PCType, LocalType, HistoryType
  <2>8. CancelOwns'
    BY <1>14 DEF SpawnLaunch, CancelOwns, CancelPending, Phase, BeforeChildEnds, AfterCommit,
       Terminal, SpawnOwns, Spawning, Unused, Saving, ServiceType, PCType, LocalType,
       HistoryType
  <2> QED
    BY <2>1, <2>2, <2>3, <2>4, <2>5, <2>6, <2>7, <2>8 DEF Ownership
<1>15. ASSUME NEW c \in Clients, CancelView(c) PROVE Ownership'
  <2>1. Down'
    BY <1>15 DEF CancelView, Go, Down, ServiceType, PCType, LocalType, HistoryType
  <2>2. Mutex'
    BY <1>15 DEF CancelView, Go, Mutex, Saving, ServiceType, PCType, LocalType, HistoryType
  <2>3. Unused'
    BY <1>15 DEF CancelView, Go, Unused, Saving, SpawnOwns, Spawning, CancelTarget,
       CancelPending, CancelNotified, ServiceType, PCType, LocalType, HistoryType
  <2>4. SpawnOwns'
    BY <1>15 DEF CancelView, Go, SpawnOwns, Spawning, Unused, Saving, Phase, BeforeChildEnds,
       AfterCommit, Terminal, ServiceType, PCType, LocalType, HistoryType
  <2>5. KeptIsKept'
    BY <1>15 DEF CancelView, Go, KeptIsKept, Kept, Saving, SpawnOwns, Spawning, Unused, Phase,
       BeforeChildEnds, AfterCommit, Terminal, ServiceType, PCType, LocalType, HistoryType
  <2>6. Phase'
    BY <1>15 DEF CancelView, Go, Phase, BeforeChildEnds, AfterCommit, Terminal, SpawnOwns,
       Spawning, CancelOwns, CancelPending, KeptIsKept, Kept, Saving, ServiceType, PCType,
       LocalType, HistoryType
  <2>7. CancelTarget'
    BY <1>15 DEF CancelView, Go, CancelTarget, CancelPending, CancelNotified, Unused, Saving,
       ServiceType, PCType, LocalType, HistoryType
  <2>8. CancelOwns'
    BY <1>15 DEF CancelView, Go, CancelOwns, CancelPending, Phase, BeforeChildEnds,
       AfterCommit, Terminal, SpawnOwns, Spawning, Unused, Saving, ServiceType, PCType,
       LocalType, HistoryType
  <2> QED
    BY <2>1, <2>2, <2>3, <2>4, <2>5, <2>6, <2>7, <2>8 DEF Ownership
<1>16. ASSUME NEW c \in Clients, FinalizeRun(c, tgt[c], "canFinalize", "canStore") PROVE Ownership'
  <2>1. Down'
    BY <1>16 DEF FinalizeRun, Go, Down, ServiceType, PCType, LocalType, HistoryType
  <2>2. Mutex'
    BY <1>16 DEF FinalizeRun, Go, Mutex, Saving, ServiceType, PCType, LocalType, HistoryType
  <2>3. Unused'
    BY <1>16 DEF FinalizeRun, Go, Unused, Saving, SpawnOwns, Spawning, CancelTarget,
       CancelPending, CancelNotified, ServiceType, PCType, LocalType, HistoryType
  <2>4. SpawnOwns'
    BY <1>16 DEF FinalizeRun, Go, SpawnOwns, Spawning, Unused, Saving, Phase, BeforeChildEnds,
       AfterCommit, Terminal, ServiceType, PCType, LocalType, HistoryType
  <2>5. KeptIsKept'
    BY <1>16 DEF FinalizeRun, Go, KeptIsKept, Kept, Saving, SpawnOwns, Spawning, Unused, Phase,
       BeforeChildEnds, AfterCommit, Terminal, ServiceType, PCType, LocalType, HistoryType
  <2>6. Phase'
    BY <1>16 DEF FinalizeRun, Go, Phase, BeforeChildEnds, AfterCommit, Terminal, SpawnOwns,
       Spawning, CancelOwns, CancelPending, KeptIsKept, Kept, Saving, ServiceType, PCType,
       LocalType, HistoryType
  <2>7. CancelTarget'
    BY <1>16 DEF FinalizeRun, Go, CancelTarget, CancelPending, CancelNotified, Unused, Saving,
       ServiceType, PCType, LocalType, HistoryType
  <2>8. CancelOwns'
    BY <1>16 DEF FinalizeRun, Go, CancelOwns, CancelPending, Phase, BeforeChildEnds,
       AfterCommit, Terminal, SpawnOwns, Spawning, Unused, Saving, ServiceType, PCType,
       LocalType, HistoryType
  <2> QED
    BY <2>1, <2>2, <2>3, <2>4, <2>5, <2>6, <2>7, <2>8 DEF Ownership
<1>17. ASSUME NEW c \in Clients, CancelStore(c) PROVE Ownership'
  <2>1. Down'
    BY <1>17 DEF CancelStore, Down, ServiceType, PCType, LocalType, HistoryType
  <2>2. Mutex'
    BY <1>17 DEF CancelStore, Mutex, Saving, ServiceType, PCType, LocalType, HistoryType
  <2>3. Unused'
    BY <1>17 DEF CancelStore, Unused, Saving, SpawnOwns, Spawning, CancelTarget, CancelPending,
       CancelNotified, ServiceType, PCType, LocalType, HistoryType
  <2>4. SpawnOwns'
    BY <1>17 DEF CancelStore, SpawnOwns, Spawning, Unused, Saving, Phase, BeforeChildEnds,
       AfterCommit, Terminal, ServiceType, PCType, LocalType, HistoryType
  <2>5. KeptIsKept'
    BY <1>17 DEF CancelStore, KeptIsKept, Kept, Saving, SpawnOwns, Spawning, Unused, Phase,
       BeforeChildEnds, AfterCommit, Terminal, ServiceType, PCType, LocalType, HistoryType
  <2>6. Phase'
    BY <1>17 DEF CancelStore, Phase, BeforeChildEnds, AfterCommit, Terminal, SpawnOwns,
       Spawning, CancelOwns, CancelPending, KeptIsKept, Kept, Saving, ServiceType, PCType,
       LocalType, HistoryType
  <2>7. CancelTarget'
    BY <1>17 DEF CancelStore, CancelTarget, CancelPending, CancelNotified, Unused, Saving,
       ServiceType, PCType, LocalType, HistoryType
  <2>8. CancelOwns'
    <3>1. \A e \in Clients : e # c /\ pc[e] \in CancelPending => tgt[e] # tgt[c]
      BY <1>17 DEF CancelStore, CancelOwns, CancelPending
    <3>2. /\ pc'[c] \in {"idle", "canPersist"} /\ tgt' = tgt
          /\ \A e \in Clients : e # c => pc'[e] = pc[e]
          /\ \A j \in RunIDs : pc'[j] = pc[j] /\ (j # tgt[c] => runs'[j] = runs[j])
      BY <1>17 DEF CancelStore, ServiceType, PCType, LocalType
    <3>3. ASSUME NEW e \in Clients, pc'[e] \in CancelPending
          PROVE  e # c /\ pc[e] \in CancelPending /\ tgt'[e] = tgt[e] /\ tgt[e] \in RunIDs
      BY <3>2, <3>3 DEF CancelPending, LocalType
    <3>4. ASSUME NEW e \in Clients, pc'[e] \in CancelPending
          PROVE  /\ runs'[tgt'[e]] \in {"canceling", "absent"}
                 /\ pc'[tgt'[e]] \in {"none", "start", "done"}
      BY <3>1, <3>2, <3>3, <3>4 DEF CancelOwns
    <3>5. ASSUME NEW e \in Clients, pc'[e] \in CancelPending,
                 NEW d \in Clients, pc'[d] \in CancelPending, tgt'[d] = tgt'[e]
          PROVE  d = e
      BY <3>3, <3>5 DEF CancelOwns
    <3> QED
      BY <3>4, <3>5 DEF CancelOwns
  <2> QED
    BY <2>1, <2>2, <2>3, <2>4, <2>5, <2>6, <2>7, <2>8 DEF Ownership
<1>18. ASSUME NEW c \in Clients, Notify(c, tgt[c], "canNotify", "canWake") PROVE Ownership'
  <2>1. Down'
    BY <1>18 DEF Notify, Go, Down, ServiceType, PCType, LocalType, HistoryType
  <2>2. Mutex'
    BY <1>18 DEF Notify, Go, Mutex, Saving, ServiceType, PCType, LocalType, HistoryType
  <2>3. Unused'
    BY <1>18 DEF Notify, Go, Unused, Saving, SpawnOwns, Spawning, CancelTarget, CancelPending,
       CancelNotified, ServiceType, PCType, LocalType, HistoryType
  <2>4. SpawnOwns'
    BY <1>18 DEF Notify, Go, SpawnOwns, Spawning, Unused, Saving, Phase, BeforeChildEnds,
       AfterCommit, Terminal, ServiceType, PCType, LocalType, HistoryType
  <2>5. KeptIsKept'
    BY <1>18 DEF Notify, Go, KeptIsKept, Kept, Saving, SpawnOwns, Spawning, Unused, Phase,
       BeforeChildEnds, AfterCommit, Terminal, ServiceType, PCType, LocalType, HistoryType
  <2>6. Phase'
    BY <1>18 DEF Notify, Go, Phase, BeforeChildEnds, AfterCommit, Terminal, SpawnOwns,
       Spawning, CancelOwns, CancelPending, KeptIsKept, Kept, Saving, ServiceType, PCType,
       LocalType, HistoryType
  <2>7. CancelTarget'
    BY <1>18 DEF Notify, Go, CancelTarget, CancelPending, CancelNotified, Unused, Saving,
       ServiceType, PCType, LocalType, HistoryType
  <2>8. CancelOwns'
    BY <1>18 DEF Notify, Go, CancelOwns, CancelPending, Phase, BeforeChildEnds, AfterCommit,
       Terminal, SpawnOwns, Spawning, Unused, Saving, ServiceType, PCType, LocalType,
       HistoryType
  <2> QED
    BY <2>1, <2>2, <2>3, <2>4, <2>5, <2>6, <2>7, <2>8 DEF Ownership
<1>19. ASSUME NEW c \in Clients, Wake(c, tgt[c], "canWake", "idle") PROVE Ownership'
  <2>1. Down'
    BY <1>19 DEF Wake, Go, Down, ServiceType, PCType, LocalType, HistoryType
  <2>2. Mutex'
    BY <1>19 DEF Wake, Go, Mutex, Saving, ServiceType, PCType, LocalType, HistoryType
  <2>3. Unused'
    BY <1>19 DEF Wake, Go, Unused, Saving, SpawnOwns, Spawning, CancelTarget, CancelPending,
       CancelNotified, ServiceType, PCType, LocalType, HistoryType
  <2>4. SpawnOwns'
    BY <1>19 DEF Wake, Go, SpawnOwns, Spawning, Unused, Saving, Phase, BeforeChildEnds,
       AfterCommit, Terminal, ServiceType, PCType, LocalType, HistoryType
  <2>5. KeptIsKept'
    BY <1>19 DEF Wake, Go, KeptIsKept, Kept, Saving, SpawnOwns, Spawning, Unused, Phase,
       BeforeChildEnds, AfterCommit, Terminal, ServiceType, PCType, LocalType, HistoryType
  <2>6. Phase'
    BY <1>19 DEF Wake, Go, Phase, BeforeChildEnds, AfterCommit, Terminal, SpawnOwns, Spawning,
       CancelOwns, CancelPending, KeptIsKept, Kept, Saving, ServiceType, PCType, LocalType,
       HistoryType
  <2>7. CancelTarget'
    BY <1>19 DEF Wake, Go, CancelTarget, CancelPending, CancelNotified, Unused, Saving,
       ServiceType, PCType, LocalType, HistoryType
  <2>8. CancelOwns'
    BY <1>19 DEF Wake, Go, CancelOwns, CancelPending, Phase, BeforeChildEnds, AfterCommit,
       Terminal, SpawnOwns, Spawning, Unused, Saving, ServiceType, PCType, LocalType,
       HistoryType
  <2> QED
    BY <2>1, <2>2, <2>3, <2>4, <2>5, <2>6, <2>7, <2>8 DEF Ownership
<1>20. ASSUME NEW c \in Clients, WaitWoken(c) PROVE Ownership'
  <2>1. Down'
    BY <1>20 DEF WaitWoken, Down, ServiceType, PCType, LocalType, HistoryType
  <2>2. Mutex'
    BY <1>20 DEF WaitWoken, Mutex, Saving, ServiceType, PCType, LocalType, HistoryType
  <2>3. Unused'
    BY <1>20 DEF WaitWoken, Unused, Saving, SpawnOwns, Spawning, CancelTarget, CancelPending,
       CancelNotified, ServiceType, PCType, LocalType, HistoryType
  <2>4. SpawnOwns'
    BY <1>20 DEF WaitWoken, SpawnOwns, Spawning, Unused, Saving, Phase, BeforeChildEnds,
       AfterCommit, Terminal, ServiceType, PCType, LocalType, HistoryType
  <2>5. KeptIsKept'
    BY <1>20 DEF WaitWoken, KeptIsKept, Kept, Saving, SpawnOwns, Spawning, Unused, Phase,
       BeforeChildEnds, AfterCommit, Terminal, ServiceType, PCType, LocalType, HistoryType
  <2>6. Phase'
    BY <1>20 DEF WaitWoken, Phase, BeforeChildEnds, AfterCommit, Terminal, SpawnOwns, Spawning,
       CancelOwns, CancelPending, KeptIsKept, Kept, Saving, ServiceType, PCType, LocalType,
       HistoryType
  <2>7. CancelTarget'
    BY <1>20 DEF WaitWoken, CancelTarget, CancelPending, CancelNotified, Unused, Saving,
       ServiceType, PCType, LocalType, HistoryType
  <2>8. CancelOwns'
    BY <1>20 DEF WaitWoken, CancelOwns, CancelPending, Phase, BeforeChildEnds, AfterCommit,
       Terminal, SpawnOwns, Spawning, Unused, Saving, ServiceType, PCType, LocalType,
       HistoryType
  <2> QED
    BY <2>1, <2>2, <2>3, <2>4, <2>5, <2>6, <2>7, <2>8 DEF Ownership
<1>21. ASSUME NEW c \in Clients, StopAllRunning(c) PROVE Ownership'
  <2>1. Down'
    BY <1>21 DEF StopAllRunning, Go, Down, ServiceType, PCType, LocalType, HistoryType
  <2>2. Mutex'
    BY <1>21 DEF StopAllRunning, Go, Mutex, Saving, ServiceType, PCType, LocalType, HistoryType
  <2>3. Unused'
    BY <1>21 DEF StopAllRunning, Go, Unused, Saving, SpawnOwns, Spawning, CancelTarget,
       CancelPending, CancelNotified, ServiceType, PCType, LocalType, HistoryType
  <2>4. SpawnOwns'
    BY <1>21 DEF StopAllRunning, Go, SpawnOwns, Spawning, Unused, Saving, Phase,
       BeforeChildEnds, AfterCommit, Terminal, ServiceType, PCType, LocalType, HistoryType
  <2>5. KeptIsKept'
    BY <1>21 DEF StopAllRunning, Go, KeptIsKept, Kept, Saving, SpawnOwns, Spawning, Unused,
       Phase, BeforeChildEnds, AfterCommit, Terminal, ServiceType, PCType, LocalType,
       HistoryType
  <2>6. Phase'
    BY <1>21 DEF StopAllRunning, Go, Phase, BeforeChildEnds, AfterCommit, Terminal, SpawnOwns,
       Spawning, CancelOwns, CancelPending, KeptIsKept, Kept, Saving, ServiceType, PCType,
       LocalType, HistoryType
  <2>7. CancelTarget'
    BY <1>21 DEF StopAllRunning, Go, CancelTarget, CancelPending, CancelNotified, Unused,
       Saving, ServiceType, PCType, LocalType, HistoryType
  <2>8. CancelOwns'
    BY <1>21 DEF StopAllRunning, Go, CancelOwns, CancelPending, Phase, BeforeChildEnds,
       AfterCommit, Terminal, SpawnOwns, Spawning, Unused, Saving, ServiceType, PCType,
       LocalType, HistoryType
  <2> QED
    BY <2>1, <2>2, <2>3, <2>4, <2>5, <2>6, <2>7, <2>8 DEF Ownership
<1>22. ASSUME NEW c \in Clients, CloseWaited(c) PROVE Ownership'
  <2>1. Down'
    BY <1>22 DEF CloseWaited, Go, Down, ServiceType, PCType, LocalType, HistoryType
  <2>2. Mutex'
    BY <1>22 DEF CloseWaited, Go, Mutex, Saving, ServiceType, PCType, LocalType, HistoryType
  <2>3. Unused'
    BY <1>22 DEF CloseWaited, Go, Unused, Saving, SpawnOwns, Spawning, CancelTarget,
       CancelPending, CancelNotified, ServiceType, PCType, LocalType, HistoryType
  <2>4. SpawnOwns'
    BY <1>22 DEF CloseWaited, Go, SpawnOwns, Spawning, Unused, Saving, Phase, BeforeChildEnds,
       AfterCommit, Terminal, ServiceType, PCType, LocalType, HistoryType
  <2>5. KeptIsKept'
    BY <1>22 DEF CloseWaited, Go, KeptIsKept, Kept, Saving, SpawnOwns, Spawning, Unused, Phase,
       BeforeChildEnds, AfterCommit, Terminal, ServiceType, PCType, LocalType, HistoryType
  <2>6. Phase'
    BY <1>22 DEF CloseWaited, Go, Phase, BeforeChildEnds, AfterCommit, Terminal, SpawnOwns,
       Spawning, CancelOwns, CancelPending, KeptIsKept, Kept, Saving, ServiceType, PCType,
       LocalType, HistoryType
  <2>7. CancelTarget'
    BY <1>22 DEF CloseWaited, Go, CancelTarget, CancelPending, CancelNotified, Unused, Saving,
       ServiceType, PCType, LocalType, HistoryType
  <2>8. CancelOwns'
    BY <1>22 DEF CloseWaited, Go, CancelOwns, CancelPending, Phase, BeforeChildEnds,
       AfterCommit, Terminal, SpawnOwns, Spawning, Unused, Saving, ServiceType, PCType,
       LocalType, HistoryType
  <2> QED
    BY <2>1, <2>2, <2>3, <2>4, <2>5, <2>6, <2>7, <2>8 DEF Ownership
<1>23. ASSUME NEW c \in Clients, WaitGiveUp(c) PROVE Ownership'
  <2>1. Down'
    BY <1>23 DEF WaitGiveUp, Go, Down, ServiceType, PCType, LocalType, HistoryType
  <2>2. Mutex'
    BY <1>23 DEF WaitGiveUp, Go, Mutex, Saving, ServiceType, PCType, LocalType, HistoryType
  <2>3. Unused'
    BY <1>23 DEF WaitGiveUp, Go, Unused, Saving, SpawnOwns, Spawning, CancelTarget,
       CancelPending, CancelNotified, ServiceType, PCType, LocalType, HistoryType
  <2>4. SpawnOwns'
    BY <1>23 DEF WaitGiveUp, Go, SpawnOwns, Spawning, Unused, Saving, Phase, BeforeChildEnds,
       AfterCommit, Terminal, ServiceType, PCType, LocalType, HistoryType
  <2>5. KeptIsKept'
    BY <1>23 DEF WaitGiveUp, Go, KeptIsKept, Kept, Saving, SpawnOwns, Spawning, Unused, Phase,
       BeforeChildEnds, AfterCommit, Terminal, ServiceType, PCType, LocalType, HistoryType
  <2>6. Phase'
    BY <1>23 DEF WaitGiveUp, Go, Phase, BeforeChildEnds, AfterCommit, Terminal, SpawnOwns,
       Spawning, CancelOwns, CancelPending, KeptIsKept, Kept, Saving, ServiceType, PCType,
       LocalType, HistoryType
  <2>7. CancelTarget'
    BY <1>23 DEF WaitGiveUp, Go, CancelTarget, CancelPending, CancelNotified, Unused, Saving,
       ServiceType, PCType, LocalType, HistoryType
  <2>8. CancelOwns'
    BY <1>23 DEF WaitGiveUp, Go, CancelOwns, CancelPending, Phase, BeforeChildEnds,
       AfterCommit, Terminal, SpawnOwns, Spawning, Unused, Saving, ServiceType, PCType,
       LocalType, HistoryType
  <2> QED
    BY <2>1, <2>2, <2>3, <2>4, <2>5, <2>6, <2>7, <2>8 DEF Ownership
<1>24. ASSUME NEW c \in Clients, CloseCancel(c) PROVE Ownership'
  <2>1. Down'
    BY <1>24 DEF CloseCancel, Go, Down, ServiceType, PCType, LocalType, HistoryType
  <2>2. Mutex'
    BY <1>24 DEF CloseCancel, Go, Mutex, Saving, ServiceType, PCType, LocalType, HistoryType
  <2>3. Unused'
    BY <1>24 DEF CloseCancel, Go, Unused, Saving, SpawnOwns, Spawning, CancelTarget,
       CancelPending, CancelNotified, ServiceType, PCType, LocalType, HistoryType
  <2>4. SpawnOwns'
    BY <1>24 DEF CloseCancel, Go, SpawnOwns, Spawning, Unused, Saving, Phase, BeforeChildEnds,
       AfterCommit, Terminal, ServiceType, PCType, LocalType, HistoryType
  <2>5. KeptIsKept'
    BY <1>24 DEF CloseCancel, Go, KeptIsKept, Kept, Saving, SpawnOwns, Spawning, Unused, Phase,
       BeforeChildEnds, AfterCommit, Terminal, ServiceType, PCType, LocalType, HistoryType
  <2>6. Phase'
    BY <1>24 DEF CloseCancel, Go, Phase, BeforeChildEnds, AfterCommit, Terminal, SpawnOwns,
       Spawning, CancelOwns, CancelPending, KeptIsKept, Kept, Saving, ServiceType, PCType,
       LocalType, HistoryType
  <2>7. CancelTarget'
    BY <1>24 DEF CloseCancel, Go, CancelTarget, CancelPending, CancelNotified, Unused, Saving,
       ServiceType, PCType, LocalType, HistoryType
  <2>8. CancelOwns'
    BY <1>24 DEF CloseCancel, Go, CancelOwns, CancelPending, Phase, BeforeChildEnds,
       AfterCommit, Terminal, SpawnOwns, Spawning, Unused, Saving, ServiceType, PCType,
       LocalType, HistoryType
  <2> QED
    BY <2>1, <2>2, <2>3, <2>4, <2>5, <2>6, <2>7, <2>8 DEF Ownership
<1>25. ASSUME NEW c \in Clients, NEW i \in RunIDs, SpawnInsert(c, i) PROVE Ownership'
  <2>1. Down'
    BY <1>25 DEF SpawnInsert, Go, Down, ServiceType, PCType, LocalType, HistoryType
  <2>2. Mutex'
    BY <1>25 DEF SpawnInsert, Go, Mutex, Saving, ServiceType, PCType, LocalType, HistoryType
  <2>3. Unused'
    BY <1>25 DEF SpawnInsert, Go, Unused, Saving, SpawnOwns, Spawning, CancelTarget,
       CancelPending, CancelNotified, ServiceType, PCType, LocalType, HistoryType
  <2>4. SpawnOwns'
    BY <1>25 DEF SpawnInsert, Go, SpawnOwns, Spawning, Unused, Saving, Phase, BeforeChildEnds,
       AfterCommit, Terminal, ServiceType, PCType, LocalType, HistoryType
  <2>5. KeptIsKept'
    BY <1>25 DEF SpawnInsert, Go, KeptIsKept, Kept, Saving, SpawnOwns, Spawning, Unused, Phase,
       BeforeChildEnds, AfterCommit, Terminal, ServiceType, PCType, LocalType, HistoryType
  <2>6. Phase'
    BY <1>25 DEF SpawnInsert, Go, Phase, BeforeChildEnds, AfterCommit, Terminal, SpawnOwns,
       Spawning, CancelOwns, CancelPending, KeptIsKept, Kept, Saving, ServiceType, PCType,
       LocalType, HistoryType
  <2>7. CancelTarget'
    BY <1>25 DEF SpawnInsert, Go, CancelTarget, CancelPending, CancelNotified, Unused, Saving,
       ServiceType, PCType, LocalType, HistoryType
  <2>8. CancelOwns'
    BY <1>25 DEF SpawnInsert, Go, CancelOwns, CancelPending, CancelTarget, CancelNotified,
       ServiceType, PCType, LocalType, HistoryType
  <2> QED
    BY <2>1, <2>2, <2>3, <2>4, <2>5, <2>6, <2>7, <2>8 DEF Ownership
<1>26. ASSUME NEW c \in Clients, NEW i \in RunIDs, MarkCanceled(c, i) PROVE Ownership'
  <2>1. Down'
    BY <1>26 DEF MarkCanceled, Cancelable, Down, ServiceType, PCType, LocalType, HistoryType
  <2>2. Mutex'
    BY <1>26 DEF MarkCanceled, Cancelable, Mutex, Saving, ServiceType, PCType, LocalType,
       HistoryType
  <2>3. Unused'
    BY <1>26 DEF MarkCanceled, Cancelable, Unused, Saving, SpawnOwns, Spawning, CancelTarget,
       CancelPending, CancelNotified, ServiceType, PCType, LocalType, HistoryType
  <2>4. SpawnOwns'
    BY <1>26 DEF MarkCanceled, Cancelable, SpawnOwns, Spawning, Unused, Saving, Phase,
       BeforeChildEnds, AfterCommit, Terminal, ServiceType, PCType, LocalType, HistoryType
  <2>5. KeptIsKept'
    BY <1>26 DEF MarkCanceled, Cancelable, KeptIsKept, Kept, Saving, SpawnOwns, Spawning,
       Unused, Phase, BeforeChildEnds, AfterCommit, Terminal, ServiceType, PCType, LocalType,
       HistoryType
  <2>6. Phase'
    BY <1>26 DEF MarkCanceled, Cancelable, Phase, BeforeChildEnds, AfterCommit, Terminal,
       SpawnOwns, Spawning, CancelOwns, CancelPending, KeptIsKept, Kept, Saving, ServiceType,
       PCType, LocalType, HistoryType
  <2>7. CancelTarget'
    BY <1>26 DEF MarkCanceled, Cancelable, CancelTarget, CancelPending, CancelNotified, Unused,
       Saving, ServiceType, PCType, LocalType, HistoryType
  <2>8. CancelOwns'
    <3>1. \A e \in Clients : pc[e] \in CancelPending => tgt[e] # i
      BY <1>26 DEF MarkCanceled, Cancelable, CancelOwns
    <3>2. running[i] = "none" => pc[i] \in {"none", "start"}
      BY <1>26 DEF MarkCanceled, Cancelable, Phase, BeforeChildEnds, AfterCommit, Terminal,
         ServiceType,
                  PCType, WorkerPC, Status, StatusOrAbsent
    <3>3. pc[i] # "idle" /\ pc'[i] = pc[i] /\ \A e \in Clients : e # c => pc'[e] = pc[e] /\ tgt'[e] = tgt[e]
      BY <1>26 DEF MarkCanceled, PCType, WorkerPC, LocalType
    <3>4. /\ tgt'[c] = i /\ runs'[i] = "canceling"
          /\ pc'[c] \in {"canPersist", "canView"} /\ (pc'[c] = "canView" => running[i] = "none")
          /\ \A j \in RunIDs : j # i => runs'[j] = runs[j] /\ pc'[j] = pc[j]
      BY <1>26 DEF MarkCanceled, PCType, LocalType, ServiceType
    <3>5. ASSUME NEW e \in Clients, e # c, pc'[e] \in CancelPending
          PROVE  pc[e] \in CancelPending /\ tgt'[e] = tgt[e] /\ tgt[e] \in RunIDs /\ tgt[e] # i
      BY <3>1, <3>3, <3>5 DEF LocalType
    <3>6. ASSUME NEW e \in Clients, pc'[e] \in CancelPending
          PROVE  /\ runs'[tgt'[e]] \in {"canceling", "absent"}
                 /\ pc'[tgt'[e]] \in {"none", "start", "done"}
      <4>1. CASE e = c
        BY <3>2, <3>3, <3>4, <3>6, <4>1 DEF CancelPending
      <4>2. CASE e # c
        BY <3>4, <3>5, <3>6, <4>2 DEF CancelOwns
      <4> QED
        BY <4>1, <4>2
    <3>7. ASSUME NEW e \in Clients, pc'[e] \in CancelPending,
                 NEW d \in Clients, pc'[d] \in CancelPending, tgt'[d] = tgt'[e]
          PROVE  d = e
      BY <3>4, <3>5, <3>7 DEF CancelOwns
    <3> QED
      BY <3>6, <3>7 DEF CancelOwns
  <2> QED
    BY <2>1, <2>2, <2>3, <2>4, <2>5, <2>6, <2>7, <2>8 DEF Ownership
<1>27. ASSUME NEW c \in Clients, NEW i \in RunIDs, WaitCall(c, i) PROVE Ownership'
  <2>1. Down'
    BY <1>27 DEF WaitCall, Go, Down, ServiceType, PCType, LocalType, HistoryType
  <2>2. Mutex'
    BY <1>27 DEF WaitCall, Go, Mutex, Saving, ServiceType, PCType, LocalType, HistoryType
  <2>3. Unused'
    BY <1>27 DEF WaitCall, Go, Unused, Saving, SpawnOwns, Spawning, CancelTarget,
       CancelPending, CancelNotified, ServiceType, PCType, LocalType, HistoryType
  <2>4. SpawnOwns'
    BY <1>27 DEF WaitCall, Go, SpawnOwns, Spawning, Unused, Saving, Phase, BeforeChildEnds,
       AfterCommit, Terminal, ServiceType, PCType, LocalType, HistoryType
  <2>5. KeptIsKept'
    BY <1>27 DEF WaitCall, Go, KeptIsKept, Kept, Saving, SpawnOwns, Spawning, Unused, Phase,
       BeforeChildEnds, AfterCommit, Terminal, ServiceType, PCType, LocalType, HistoryType
  <2>6. Phase'
    BY <1>27 DEF WaitCall, Go, Phase, BeforeChildEnds, AfterCommit, Terminal, SpawnOwns,
       Spawning, CancelOwns, CancelPending, KeptIsKept, Kept, Saving, ServiceType, PCType,
       LocalType, HistoryType
  <2>7. CancelTarget'
    BY <1>27 DEF WaitCall, Go, CancelTarget, CancelPending, CancelNotified, Unused, Saving,
       ServiceType, PCType, LocalType, HistoryType
  <2>8. CancelOwns'
    BY <1>27 DEF WaitCall, Go, CancelOwns, CancelPending, Phase, BeforeChildEnds, AfterCommit,
       Terminal, SpawnOwns, Spawning, Unused, Saving, ServiceType, PCType, LocalType,
       HistoryType
  <2> QED
    BY <2>1, <2>2, <2>3, <2>4, <2>5, <2>6, <2>7, <2>8 DEF Ownership
<1>28. CASE Start
  BY <1>28 DEF Start, Down, Mutex, Saving, Unused, SpawnOwns, Spawning, KeptIsKept, Kept,
     Phase, BeforeChildEnds, AfterCommit, Terminal, CancelTarget, CancelPending,
     CancelNotified, CancelOwns, ServiceType, PCType, LocalType, HistoryType
<1>29. CASE Crash
  <2>1. Down'
    BY <1>29 DEF Crash, IdlePC, NoRuns, Down, ServiceType, PCType, LocalType, HistoryType
  <2>2. Mutex'
    BY <1>29 DEF Crash, IdlePC, NoRuns, Mutex, Saving, ServiceType, PCType, LocalType,
       HistoryType
  <2>3. Unused'
    BY <1>29 DEF Crash, IdlePC, NoRuns, Unused, Saving, SpawnOwns, Spawning, CancelTarget,
       CancelPending, CancelNotified, ServiceType, PCType, LocalType, HistoryType
  <2>4. SpawnOwns'
    BY <1>29 DEF Crash, IdlePC, NoRuns, SpawnOwns, Spawning, Unused, Saving, Phase,
       BeforeChildEnds, AfterCommit, Terminal, ServiceType, PCType, LocalType, HistoryType
  <2>5. KeptIsKept'
    BY <1>29 DEF Crash, IdlePC, NoRuns, KeptIsKept, Kept, Saving, SpawnOwns, Spawning, Unused,
       Phase, BeforeChildEnds, AfterCommit, Terminal, ServiceType, PCType, LocalType,
       HistoryType
  <2>6. Phase'
    BY <1>29 DEF Crash, IdlePC, NoRuns, Phase, BeforeChildEnds, AfterCommit, Terminal,
       SpawnOwns, Spawning, CancelOwns, CancelPending, KeptIsKept, Kept, Saving, ServiceType,
       PCType, LocalType, HistoryType
  <2>7. CancelTarget'
    BY <1>29 DEF Crash, IdlePC, NoRuns, CancelTarget, CancelPending, CancelNotified, Unused,
       Saving, ServiceType, PCType, LocalType, HistoryType
  <2>8. CancelOwns'
    BY <1>29 DEF Crash, IdlePC, NoRuns, CancelOwns, CancelPending, Phase, BeforeChildEnds,
       AfterCommit, Terminal, SpawnOwns, Spawning, Unused, Saving, ServiceType, PCType,
       LocalType, HistoryType
  <2> QED
    BY <2>1, <2>2, <2>3, <2>4, <2>5, <2>6, <2>7, <2>8 DEF Ownership
<1>30. CASE NewService
  <2>1. Down'
    BY <1>30 DEF NewService, Normalized, NoRuns, IdlePC, Down, ServiceType, PCType, LocalType,
       HistoryType
  <2>2. Mutex'
    BY <1>30 DEF NewService, Normalized, NoRuns, IdlePC, Mutex, Saving, Down, ServiceType,
       PCType, LocalType, HistoryType
  <2>3. Unused'
    BY <1>30 DEF NewService, Normalized, NoRuns, IdlePC, Unused, Saving, SpawnOwns, Spawning,
       CancelTarget, CancelPending, CancelNotified, Down, ServiceType, PCType, LocalType,
       HistoryType
  <2>4. SpawnOwns'
    BY <1>30 DEF NewService, Normalized, NoRuns, IdlePC, SpawnOwns, Spawning, Unused, Saving,
       Phase, BeforeChildEnds, AfterCommit, Terminal, Down, ServiceType, PCType, LocalType,
       HistoryType
  <2>5. KeptIsKept'
    BY <1>30 DEF NewService, Normalized, NoRuns, IdlePC, KeptIsKept, Kept, Saving, SpawnOwns,
       Spawning, Unused, Phase, BeforeChildEnds, AfterCommit, Terminal, Down, ServiceType,
       PCType, LocalType, HistoryType
  <2>6. Phase'
    BY <1>30 DEF NewService, Normalized, NoRuns, IdlePC, Phase, BeforeChildEnds, AfterCommit,
       Terminal, SpawnOwns, Spawning, CancelOwns, CancelPending, KeptIsKept, Kept, Saving,
       Down, ServiceType, PCType, LocalType, HistoryType
  <2>7. CancelTarget'
    BY <1>30 DEF NewService, Normalized, NoRuns, IdlePC, CancelTarget, CancelPending,
       CancelNotified, Unused, Saving, Down, ServiceType, PCType, LocalType, HistoryType
  <2>8. CancelOwns'
    BY <1>30 DEF NewService, Normalized, NoRuns, IdlePC, CancelOwns, CancelPending, Phase,
       BeforeChildEnds, AfterCommit, Terminal, SpawnOwns, Spawning, Unused, Saving, Down,
       ServiceType, PCType, LocalType, HistoryType
  <2> QED
    BY <2>1, <2>2, <2>3, <2>4, <2>5, <2>6, <2>7, <2>8 DEF Ownership
<1>31. CASE UNCHANGED vars
  BY <1>31 DEF vars, Down, Mutex, Saving, Unused, SpawnOwns, Spawning, KeptIsKept, Kept, Phase,
     BeforeChildEnds, AfterCommit, Terminal, CancelTarget, CancelPending, CancelNotified,
     CancelOwns, ServiceType, PCType, LocalType, HistoryType
<1> QED
  BY <1>1, <1>2, <1>3, <1>4, <1>5, <1>6, <1>7, <1>8, <1>9, <1>10, <1>11, <1>12, <1>13, <1>14,
     <1>15, <1>16, <1>17, <1>18, <1>19, <1>20, <1>21, <1>22, <1>23, <1>24, <1>25, <1>26, <1>27,
     <1>28, <1>29, <1>30, <1>31
     DEF Next, Persist, Worker, ClientStep, ClientCall

\* What every step other than persist, a crash and a restart does to the state
\* that Settling is about.
CalmStore == UNCHANGED <<store, snap>> /\ used \subseteq used' /\ accepted \subseteq accepted'
CalmPC ==
  /\ \A p \in Procs : pc'[p] \in Saving \cup {"finNotify", "canNotify"} =>
                       pc'[p] = pc[p] /\ view'[p] = view[p]
  /\ \A c \in Clients : pc'[c] \in Saving \cup {"canNotify"} => tgt'[c] = tgt[c]
CalmRuns ==
  \A i \in RunIDs : /\ runs[i] \in Terminal => runs'[i] \in {runs[i], "absent"}
                    /\ i \in used /\ runs[i] = "absent" => runs'[i] = "absent"
CalmTold ==
  \A i \in RunIDs : \/ told'[i] = told[i]
                    \/ pc[i] = "finNotify" /\ told'[i] = view[i]
                    \/ \E c \in Clients : /\ pc[c] = "canNotify" /\ tgt[c] = i
                                         /\ view[c] \in Terminal /\ told'[i] = view[c]
CalmCancel ==
  \A c \in Clients : pc'[c] \in CancelNotified /\ view'[c] \in Terminal =>
    \/ pc[c] \in CancelNotified /\ view'[c] = view[c] /\ tgt'[c] = tgt[c]
    \/ pc'[c] = "canPersist" /\ runs'[tgt'[c]] = view'[c]
Calm == CalmStore /\ CalmPC /\ CalmRuns /\ CalmTold /\ CalmCancel

LEMMA CalmStep ==
  ASSUME TypeInv, Ownership, FreshIDs, [Next]_vars,
         ~\E p \in Procs : Persist(p), ~Crash, ~NewService
  PROVE  Calm
<1> USE ProcsSplit, Names DEF svcVars, procVars, histVars, boundVars, TypeInv, TypeOK, Ownership
<1>1. ASSUME NEW i \in RunIDs, MarkRunning(i) PROVE Calm
  BY <1>1 DEF MarkRunning, Calm, CalmStore, CalmPC, Saving, CalmRuns, Terminal, CalmTold,
     CalmCancel, CancelNotified, HistoryType, PCType, LocalType, ServiceType, Phase
<1>2. ASSUME NEW i \in RunIDs, NotifyRunning(i) PROVE Calm
  BY <1>2 DEF NotifyRunning, Go, Calm, CalmStore, CalmPC, Saving, CalmRuns, Terminal, CalmTold,
     CalmCancel, CancelNotified, HistoryType, PCType, LocalType, ServiceType
<1>3. ASSUME NEW i \in RunIDs, FailPersisted(i) PROVE Calm
  BY <1>3 DEF FailPersisted, Calm, CalmStore, CalmPC, Saving, CalmRuns, Terminal, CalmTold,
     CalmCancel, CancelNotified, HistoryType, PCType, LocalType, ServiceType, Phase,
     BeforeChildEnds
<1>4. ASSUME NEW i \in RunIDs, \E r \in ChildResult : ChildReturn(i, r) PROVE Calm
  BY <1>4 DEF ChildReturn, Go, Calm, CalmStore, CalmPC, Saving, CalmRuns, Terminal, CalmTold,
     CalmCancel, CancelNotified, HistoryType, PCType, LocalType, ServiceType
<1>5. ASSUME NEW i \in RunIDs, MarkExiting(i) PROVE Calm
  BY <1>5 DEF MarkExiting, Go, Calm, CalmStore, CalmPC, Saving, CalmRuns, Terminal, CalmTold,
     CalmCancel, CancelNotified, HistoryType, PCType, LocalType, ServiceType
<1>6. ASSUME NEW i \in RunIDs, FinishRun(i) PROVE Calm
  BY <1>6 DEF FinishRun, FinishedStatus, IsCanceledRunResult, Calm, CalmStore, CalmPC, Saving,
     CalmRuns, Terminal, CalmTold, CalmCancel, CancelNotified, HistoryType, PCType, LocalType,
     ServiceType, Phase
<1>7. ASSUME NEW i \in RunIDs, FinalizeRun(i, i, "finalize", "commit") PROVE Calm
  BY <1>7 DEF FinalizeRun, Go, Calm, CalmStore, CalmPC, Saving, CalmRuns, Terminal, CalmTold,
     CalmCancel, CancelNotified, HistoryType, PCType, LocalType, ServiceType
<1>8. ASSUME NEW i \in RunIDs, CommitFinish(i) PROVE Calm
  BY <1>8 DEF CommitFinish, Calm, CalmStore, CalmPC, Saving, CalmRuns, Terminal, CalmTold,
     CalmCancel, CancelNotified, HistoryType, PCType, LocalType, ServiceType, Phase
<1>9. ASSUME NEW i \in RunIDs, Notify(i, i, "finNotify", "finWake") PROVE Calm
  BY <1>9 DEF Notify, Go, Calm, CalmStore, CalmPC, Saving, CalmRuns, Terminal, CalmTold,
     CalmCancel, CancelNotified, HistoryType, PCType, LocalType, ServiceType
<1>10. ASSUME NEW i \in RunIDs, Wake(i, i, "finWake", "done") PROVE Calm
  BY <1>10 DEF Wake, Go, Calm, CalmStore, CalmPC, Saving, CalmRuns, Terminal, CalmTold,
     CalmCancel, CancelNotified, HistoryType, PCType, LocalType, ServiceType
<1>11. ASSUME NEW c \in Clients, SpawnRollback(c) PROVE Calm
  BY <1>11 DEF SpawnRollback, Go, Calm, CalmStore, CalmPC, Saving, CalmRuns, Terminal,
     CalmTold, CalmCancel, CancelNotified, HistoryType, PCType, LocalType, ServiceType
<1>12. ASSUME NEW c \in Clients, SpawnLaunch(c) PROVE Calm
  BY <1>12 DEF SpawnLaunch, Calm, CalmStore, CalmPC, Saving, CalmRuns, Terminal, CalmTold,
     CalmCancel, CancelNotified, HistoryType, PCType, LocalType, ServiceType, SpawnOwns,
     Spawning
<1>13. ASSUME NEW c \in Clients, CancelView(c) PROVE Calm
  BY <1>13 DEF CancelView, Go, Calm, CalmStore, CalmPC, Saving, CalmRuns, Terminal, CalmTold,
     CalmCancel, CancelNotified, HistoryType, PCType, LocalType, ServiceType
<1>14. ASSUME NEW c \in Clients, FinalizeRun(c, tgt[c], "canFinalize", "canStore") PROVE Calm
  BY <1>14 DEF FinalizeRun, Go, Calm, CalmStore, CalmPC, Saving, CalmRuns, Terminal, CalmTold,
     CalmCancel, CancelNotified, HistoryType, PCType, LocalType, ServiceType
<1>15. ASSUME NEW c \in Clients, CancelStore(c) PROVE Calm
  BY <1>15 DEF CancelStore, Calm, CalmStore, CalmPC, Saving, CalmRuns, Terminal, CalmTold,
     CalmCancel, CancelNotified, HistoryType, PCType, LocalType, ServiceType, CancelOwns,
     CancelPending
<1>16. ASSUME NEW c \in Clients, Notify(c, tgt[c], "canNotify", "canWake") PROVE Calm
  BY <1>16 DEF Notify, Go, Calm, CalmStore, CalmPC, Saving, CalmRuns, Terminal, CalmTold,
     CalmCancel, CancelNotified, HistoryType, PCType, LocalType, ServiceType
<1>17. ASSUME NEW c \in Clients, Wake(c, tgt[c], "canWake", "idle") PROVE Calm
  BY <1>17 DEF Wake, Go, Calm, CalmStore, CalmPC, Saving, CalmRuns, Terminal, CalmTold,
     CalmCancel, CancelNotified, HistoryType, PCType, LocalType, ServiceType
<1>18. ASSUME NEW c \in Clients, WaitWoken(c) PROVE Calm
  BY <1>18 DEF WaitWoken, Calm, CalmStore, CalmPC, Saving, CalmRuns, Terminal, CalmTold,
     CalmCancel, CancelNotified, HistoryType, PCType, LocalType, ServiceType
<1>19. ASSUME NEW c \in Clients, StopAllRunning(c) PROVE Calm
  BY <1>19 DEF StopAllRunning, Go, Calm, CalmStore, CalmPC, Saving, CalmRuns, Terminal,
     CalmTold, CalmCancel, CancelNotified, HistoryType, PCType, LocalType, ServiceType
<1>20. ASSUME NEW c \in Clients, CloseWaited(c) PROVE Calm
  BY <1>20 DEF CloseWaited, Go, Calm, CalmStore, CalmPC, Saving, CalmRuns, Terminal, CalmTold,
     CalmCancel, CancelNotified, HistoryType, PCType, LocalType, ServiceType
<1>21. ASSUME NEW c \in Clients, WaitGiveUp(c) PROVE Calm
  BY <1>21 DEF WaitGiveUp, Go, Calm, CalmStore, CalmPC, Saving, CalmRuns, Terminal, CalmTold,
     CalmCancel, CancelNotified, HistoryType, PCType, LocalType, ServiceType
<1>22. ASSUME NEW c \in Clients, CloseCancel(c) PROVE Calm
  BY <1>22 DEF CloseCancel, Go, Calm, CalmStore, CalmPC, Saving, CalmRuns, Terminal, CalmTold,
     CalmCancel, CancelNotified, HistoryType, PCType, LocalType, ServiceType
<1>23. ASSUME NEW c \in Clients, NEW i \in RunIDs, SpawnInsert(c, i) PROVE Calm
  BY <1>23 DEF SpawnInsert, Go, Calm, CalmStore, CalmPC, Saving, CalmRuns, Terminal, CalmTold,
     CalmCancel, CancelNotified, HistoryType, PCType, LocalType, ServiceType
<1>24. ASSUME NEW c \in Clients, NEW i \in RunIDs, MarkCanceled(c, i) PROVE Calm
  BY <1>24 DEF MarkCanceled, Cancelable, Calm, CalmStore, CalmPC, Saving, CalmRuns, Terminal,
     CalmTold, CalmCancel, CancelNotified, HistoryType, PCType, LocalType, ServiceType
<1>25. ASSUME NEW c \in Clients, NEW i \in RunIDs, WaitCall(c, i) PROVE Calm
  BY <1>25 DEF WaitCall, Go, Calm, CalmStore, CalmPC, Saving, CalmRuns, Terminal, CalmTold,
     CalmCancel, CancelNotified, HistoryType, PCType, LocalType, ServiceType
<1>26. CASE Start
  BY <1>26 DEF Start, Calm, CalmStore, CalmPC, Saving, CalmRuns, Terminal, CalmTold,
     CalmCancel, CancelNotified, HistoryType, PCType, LocalType, ServiceType
<1>27. CASE UNCHANGED vars
  BY <1>27 DEF vars, Calm, CalmStore, CalmPC, Saving, CalmRuns, Terminal, CalmTold, CalmCancel,
     CancelNotified, HistoryType, PCType, LocalType, ServiceType
<1> QED
  BY <1>1, <1>2, <1>3, <1>4, <1>5, <1>6, <1>7, <1>8, <1>9, <1>10, <1>11, <1>12, <1>13, <1>14,
     <1>15, <1>16, <1>17, <1>18, <1>19, <1>20, <1>21, <1>22, <1>23, <1>24, <1>25, <1>26, <1>27
     DEF Next, Persist, Worker, ClientStep, ClientCall

LEMMA FinalizerAheadStep ==
  ASSUME TypeInv, Ownership, FinalizerAhead, FreshIDs, [Next]_vars
  PROVE  FinalizerAhead'
<1> USE ProcsSplit, Names DEF svcVars, procVars, histVars, boundVars, TypeInv, TypeOK, Ownership
<1>1. ASSUME NEW p \in Procs, PersistSnapshot(p) PROVE FinalizerAhead'
  <2>1. /\ persistMu = None /\ persistMu' = p /\ snap' = [snap EXCEPT ![p] = runs] /\ up
        /\ UNCHANGED <<runs, running, tgt, view, histVars, store, up>>
    BY <1>1 DEF PersistSnapshot
  <2>2. \/ p \in Clients /\ pc[p] = "spPersist" /\ pc' = [pc EXCEPT ![p] = "spSave"]
        \/ p \in RunIDs /\ pc[p] = "runPersist" /\ pc' = [pc EXCEPT ![p] = "runSave"]
        \/ p \in RunIDs /\ pc[p] = "finPersist" /\ pc' = [pc EXCEPT ![p] = "finSave"]
        \/ p \in Clients /\ pc[p] = "canPersist" /\ pc' = [pc EXCEPT ![p] = "canSave"]
        \/ p \in Clients /\ pc[p] = "clPersist" /\ pc' = [pc EXCEPT ![p] = "clSave"]
    BY <1>1, PersistPC
  <2> QED
    BY <2>1, <2>2 DEF FinalizerAhead, BeforeChildEnds, Phase, AfterCommit, Terminal,
       CancelOwns, CancelPending, Unused, Saving, ServiceType, PCType, LocalType, HistoryType
<1>2. ASSUME NEW p \in Procs, PersistSave(p) PROVE FinalizerAhead'
  <2>1. /\ persistMu' = None /\ snap' = [snap EXCEPT ![p] = NoRuns] /\ up
        /\ UNCHANGED <<runs, running, tgt, view, histVars, up>>
    BY <1>2 DEF PersistSave
  <2>2. \/ /\ p \in Clients /\ pc[p] = "spSave"
           /\ \/ pc' = [pc EXCEPT ![p] = "spNotify"] /\ store' = snap[p]
              \/ pc' = [pc EXCEPT ![p] = "spRollback"] /\ store' = store
        \/ /\ p \in RunIDs /\ pc[p] = "runSave"
           /\ \/ pc' = [pc EXCEPT ![p] = "runNotify"] /\ store' = snap[p]
              \/ pc' = [pc EXCEPT ![p] = "failMark"] /\ store' = store
        \/ /\ p \in RunIDs /\ pc[p] = "finSave"
           /\ \/ pc' = [pc EXCEPT ![p] = "finNotify"] /\ store' = snap[p]
              \/ pc' = [pc EXCEPT ![p] = "finWake"] /\ store' = store
        \/ /\ p \in Clients /\ pc[p] = "canSave"
           /\ \/ pc' = [pc EXCEPT ![p] = "canNotify"] /\ store' = snap[p]
              \/ pc' = [pc EXCEPT ![p] = "canWake"] /\ store' = store
        \/ /\ p \in Clients /\ pc[p] = "clSave"
           /\ pc' = [pc EXCEPT ![p] = "idle"] /\ store' \in {snap[p], store}
    BY <1>2, PersistPC
  <2>3. \A q \in Procs : pc'[q] \notin Saving
    BY <2>2 DEF Mutex, Saving, PCType
  <2> QED
    BY <2>1, <2>2, <2>3 DEF FinalizerAhead, BeforeChildEnds, Phase, AfterCommit, Terminal,
       CancelOwns, CancelPending, Unused, Saving, ServiceType, PCType, LocalType, HistoryType
<1>3. ASSUME NEW i \in RunIDs, MarkRunning(i) PROVE FinalizerAhead'
  BY <1>3 DEF MarkRunning, FinalizerAhead, BeforeChildEnds, Phase, AfterCommit, Terminal,
     CancelOwns, CancelPending, Unused, Saving, ServiceType, PCType, LocalType, HistoryType
<1>4. ASSUME NEW i \in RunIDs, NotifyRunning(i) PROVE FinalizerAhead'
  BY <1>4 DEF NotifyRunning, Go, FinalizerAhead, BeforeChildEnds, Phase, AfterCommit, Terminal,
     CancelOwns, CancelPending, Unused, Saving, ServiceType, PCType, LocalType, HistoryType
<1>5. ASSUME NEW i \in RunIDs, FailPersisted(i) PROVE FinalizerAhead'
  BY <1>5 DEF FailPersisted, FinalizerAhead, BeforeChildEnds, Phase, AfterCommit, Terminal,
     CancelOwns, CancelPending, Unused, Saving, ServiceType, PCType, LocalType, HistoryType
<1>6. ASSUME NEW i \in RunIDs, \E r \in ChildResult : ChildReturn(i, r) PROVE FinalizerAhead'
  BY <1>6 DEF ChildReturn, Go, FinalizerAhead, BeforeChildEnds, Phase, AfterCommit, Terminal,
     CancelOwns, CancelPending, Unused, Saving, ServiceType, PCType, LocalType, HistoryType
<1>7. ASSUME NEW i \in RunIDs, MarkExiting(i) PROVE FinalizerAhead'
  BY <1>7 DEF MarkExiting, Go, FinalizerAhead, BeforeChildEnds, Phase, AfterCommit, Terminal,
     CancelOwns, CancelPending, Unused, Saving, ServiceType, PCType, LocalType, HistoryType
<1>8. ASSUME NEW i \in RunIDs, FinishRun(i) PROVE FinalizerAhead'
  BY <1>8 DEF FinishRun, FinishedStatus, IsCanceledRunResult, FinalizerAhead, BeforeChildEnds,
     Phase, AfterCommit, Terminal, CancelOwns, CancelPending, Unused, Saving, ServiceType,
     PCType, LocalType, HistoryType
<1>9. ASSUME NEW i \in RunIDs, FinalizeRun(i, i, "finalize", "commit") PROVE FinalizerAhead'
  BY <1>9 DEF FinalizeRun, Go, FinalizerAhead, BeforeChildEnds, Phase, AfterCommit, Terminal,
     CancelOwns, CancelPending, Unused, Saving, ServiceType, PCType, LocalType, HistoryType
<1>10. ASSUME NEW i \in RunIDs, CommitFinish(i) PROVE FinalizerAhead'
  BY SMTT(30), <1>10 DEF CommitFinish, FinalizerAhead, BeforeChildEnds, Phase, AfterCommit, Terminal,
     CancelOwns, CancelPending, Unused, Saving, ServiceType, PCType, LocalType, HistoryType
<1>11. ASSUME NEW i \in RunIDs, Notify(i, i, "finNotify", "finWake") PROVE FinalizerAhead'
  BY <1>11 DEF Notify, Go, FinalizerAhead, BeforeChildEnds, Phase, AfterCommit, Terminal,
     CancelOwns, CancelPending, Unused, Saving, ServiceType, PCType, LocalType, HistoryType
<1>12. ASSUME NEW i \in RunIDs, Wake(i, i, "finWake", "done") PROVE FinalizerAhead'
  BY <1>12 DEF Wake, Go, FinalizerAhead, BeforeChildEnds, Phase, AfterCommit, Terminal,
     CancelOwns, CancelPending, Unused, Saving, ServiceType, PCType, LocalType, HistoryType
<1>13. ASSUME NEW c \in Clients, SpawnRollback(c) PROVE FinalizerAhead'
  BY <1>13 DEF SpawnRollback, Go, FinalizerAhead, BeforeChildEnds, Phase, AfterCommit,
     Terminal, CancelOwns, CancelPending, Unused, Saving, ServiceType, PCType, LocalType,
     HistoryType
<1>14. ASSUME NEW c \in Clients, SpawnLaunch(c) PROVE FinalizerAhead'
  BY <1>14 DEF SpawnLaunch, FinalizerAhead, BeforeChildEnds, Phase, AfterCommit, Terminal,
     CancelOwns, CancelPending, Unused, Saving, ServiceType, PCType, LocalType, HistoryType
<1>15. ASSUME NEW c \in Clients, CancelView(c) PROVE FinalizerAhead'
  BY <1>15 DEF CancelView, Go, FinalizerAhead, BeforeChildEnds, Phase, AfterCommit, Terminal,
     CancelOwns, CancelPending, Unused, Saving, ServiceType, PCType, LocalType, HistoryType
<1>16. ASSUME NEW c \in Clients, FinalizeRun(c, tgt[c], "canFinalize", "canStore") PROVE FinalizerAhead'
  BY <1>16 DEF FinalizeRun, Go, FinalizerAhead, BeforeChildEnds, Phase, AfterCommit, Terminal,
     CancelOwns, CancelPending, Unused, Saving, ServiceType, PCType, LocalType, HistoryType
<1>17. ASSUME NEW c \in Clients, CancelStore(c) PROVE FinalizerAhead'
  BY <1>17 DEF CancelStore, FinalizerAhead, BeforeChildEnds, Phase, AfterCommit, Terminal,
     CancelOwns, CancelPending, Unused, Saving, ServiceType, PCType, LocalType, HistoryType
<1>18. ASSUME NEW c \in Clients, Notify(c, tgt[c], "canNotify", "canWake") PROVE FinalizerAhead'
  BY <1>18 DEF Notify, Go, FinalizerAhead, BeforeChildEnds, Phase, AfterCommit, Terminal,
     CancelOwns, CancelPending, Unused, Saving, ServiceType, PCType, LocalType, HistoryType
<1>19. ASSUME NEW c \in Clients, Wake(c, tgt[c], "canWake", "idle") PROVE FinalizerAhead'
  BY <1>19 DEF Wake, Go, FinalizerAhead, BeforeChildEnds, Phase, AfterCommit, Terminal,
     CancelOwns, CancelPending, Unused, Saving, ServiceType, PCType, LocalType, HistoryType
<1>20. ASSUME NEW c \in Clients, WaitWoken(c) PROVE FinalizerAhead'
  BY <1>20 DEF WaitWoken, FinalizerAhead, BeforeChildEnds, Phase, AfterCommit, Terminal,
     CancelOwns, CancelPending, Unused, Saving, ServiceType, PCType, LocalType, HistoryType
<1>21. ASSUME NEW c \in Clients, StopAllRunning(c) PROVE FinalizerAhead'
  BY <1>21 DEF StopAllRunning, Go, FinalizerAhead, BeforeChildEnds, Phase, AfterCommit,
     Terminal, CancelOwns, CancelPending, Unused, Saving, ServiceType, PCType, LocalType,
     HistoryType
<1>22. ASSUME NEW c \in Clients, CloseWaited(c) PROVE FinalizerAhead'
  BY <1>22 DEF CloseWaited, Go, FinalizerAhead, BeforeChildEnds, Phase, AfterCommit, Terminal,
     CancelOwns, CancelPending, Unused, Saving, ServiceType, PCType, LocalType, HistoryType
<1>23. ASSUME NEW c \in Clients, WaitGiveUp(c) PROVE FinalizerAhead'
  BY <1>23 DEF WaitGiveUp, Go, FinalizerAhead, BeforeChildEnds, Phase, AfterCommit, Terminal,
     CancelOwns, CancelPending, Unused, Saving, ServiceType, PCType, LocalType, HistoryType
<1>24. ASSUME NEW c \in Clients, CloseCancel(c) PROVE FinalizerAhead'
  BY <1>24 DEF CloseCancel, Go, FinalizerAhead, BeforeChildEnds, Phase, AfterCommit, Terminal,
     CancelOwns, CancelPending, Unused, Saving, ServiceType, PCType, LocalType, HistoryType
<1>25. ASSUME NEW c \in Clients, NEW i \in RunIDs, SpawnInsert(c, i) PROVE FinalizerAhead'
  BY <1>25 DEF SpawnInsert, Go, FinalizerAhead, BeforeChildEnds, Phase, AfterCommit, Terminal,
     CancelOwns, CancelPending, Unused, Saving, ServiceType, PCType, LocalType, HistoryType
<1>26. ASSUME NEW c \in Clients, NEW i \in RunIDs, MarkCanceled(c, i) PROVE FinalizerAhead'
  <2>1. running[i] = "none" => runs[i] = "queued"
    BY <1>26 DEF MarkCanceled, Cancelable, Phase, BeforeChildEnds, AfterCommit, Terminal,
       ServiceType,
                PCType, WorkerPC, Status, StatusOrAbsent
  <2>2. /\ UNCHANGED finalCalls /\ tgt'[c] = i /\ runs'[i] # "queued"
        /\ pc'[c] \in {"canPersist", "canView"} /\ (pc'[c] = "canView" => running[i] = "none")
        /\ \A e \in Clients : e # c => pc'[e] = pc[e] /\ tgt'[e] = tgt[e]
        /\ \A j \in RunIDs : pc'[j] = pc[j] /\ (j # i => runs'[j] = runs[j])
    BY <1>26 DEF MarkCanceled, PCType, LocalType, ServiceType
  <2> QED
    BY <2>1, <2>2 DEF FinalizerAhead, BeforeChildEnds
<1>27. ASSUME NEW c \in Clients, NEW i \in RunIDs, WaitCall(c, i) PROVE FinalizerAhead'
  BY <1>27 DEF WaitCall, Go, FinalizerAhead, BeforeChildEnds, Phase, AfterCommit, Terminal,
     CancelOwns, CancelPending, Unused, Saving, ServiceType, PCType, LocalType, HistoryType
<1>28. CASE Start
  BY <1>28 DEF Start, FinalizerAhead, BeforeChildEnds, Phase, AfterCommit, Terminal,
     CancelOwns, CancelPending, Unused, Saving, ServiceType, PCType, LocalType, HistoryType
<1>29. CASE Crash
  BY <1>29 DEF Crash, IdlePC, NoRuns, FinalizerAhead, BeforeChildEnds, ServiceType, PCType,
     LocalType, HistoryType
<1>30. CASE NewService
  BY <1>30 DEF NewService, Normalized, NoRuns, IdlePC, FinalizerAhead, BeforeChildEnds, Down,
     ServiceType, PCType, LocalType, HistoryType
<1>31. CASE UNCHANGED vars
  BY <1>31 DEF vars, FinalizerAhead, BeforeChildEnds, Phase, AfterCommit, Terminal, CancelOwns,
     CancelPending, Unused, Saving, ServiceType, PCType, LocalType, HistoryType
<1> QED
  BY <1>1, <1>2, <1>3, <1>4, <1>5, <1>6, <1>7, <1>8, <1>9, <1>10, <1>11, <1>12, <1>13, <1>14,
     <1>15, <1>16, <1>17, <1>18, <1>19, <1>20, <1>21, <1>22, <1>23, <1>24, <1>25, <1>26, <1>27,
     <1>28, <1>29, <1>30, <1>31
     DEF Next, Persist, Worker, ClientStep, ClientCall

LEMMA FinalizerBehindStep ==
  ASSUME TypeInv, Ownership, FinalizerBehind, [Next]_vars
  PROVE  FinalizerBehind'
<1> USE ProcsSplit, Names DEF svcVars, procVars, histVars, boundVars, TypeInv, TypeOK, Ownership
<1>1. ASSUME NEW p \in Procs, PersistSnapshot(p) PROVE FinalizerBehind'
  <2>1. /\ persistMu = None /\ persistMu' = p /\ snap' = [snap EXCEPT ![p] = runs] /\ up
        /\ UNCHANGED <<runs, running, tgt, view, histVars, store, up>>
    BY <1>1 DEF PersistSnapshot
  <2>2. \/ p \in Clients /\ pc[p] = "spPersist" /\ pc' = [pc EXCEPT ![p] = "spSave"]
        \/ p \in RunIDs /\ pc[p] = "runPersist" /\ pc' = [pc EXCEPT ![p] = "runSave"]
        \/ p \in RunIDs /\ pc[p] = "finPersist" /\ pc' = [pc EXCEPT ![p] = "finSave"]
        \/ p \in Clients /\ pc[p] = "canPersist" /\ pc' = [pc EXCEPT ![p] = "canSave"]
        \/ p \in Clients /\ pc[p] = "clPersist" /\ pc' = [pc EXCEPT ![p] = "clSave"]
    BY <1>1, PersistPC
  <2> QED
    BY <2>1, <2>2 DEF FinalizerBehind, Saving, Phase, BeforeChildEnds, AfterCommit, Terminal,
       CancelOwns, CancelPending, ServiceType, PCType, LocalType, HistoryType
<1>2. ASSUME NEW p \in Procs, PersistSave(p) PROVE FinalizerBehind'
  <2>1. /\ persistMu' = None /\ snap' = [snap EXCEPT ![p] = NoRuns] /\ up
        /\ UNCHANGED <<runs, running, tgt, view, histVars, up>>
    BY <1>2 DEF PersistSave
  <2>2. \/ /\ p \in Clients /\ pc[p] = "spSave"
           /\ \/ pc' = [pc EXCEPT ![p] = "spNotify"] /\ store' = snap[p]
              \/ pc' = [pc EXCEPT ![p] = "spRollback"] /\ store' = store
        \/ /\ p \in RunIDs /\ pc[p] = "runSave"
           /\ \/ pc' = [pc EXCEPT ![p] = "runNotify"] /\ store' = snap[p]
              \/ pc' = [pc EXCEPT ![p] = "failMark"] /\ store' = store
        \/ /\ p \in RunIDs /\ pc[p] = "finSave"
           /\ \/ pc' = [pc EXCEPT ![p] = "finNotify"] /\ store' = snap[p]
              \/ pc' = [pc EXCEPT ![p] = "finWake"] /\ store' = store
        \/ /\ p \in Clients /\ pc[p] = "canSave"
           /\ \/ pc' = [pc EXCEPT ![p] = "canNotify"] /\ store' = snap[p]
              \/ pc' = [pc EXCEPT ![p] = "canWake"] /\ store' = store
        \/ /\ p \in Clients /\ pc[p] = "clSave"
           /\ pc' = [pc EXCEPT ![p] = "idle"] /\ store' \in {snap[p], store}
    BY <1>2, PersistPC
  <2>3. \A q \in Procs : pc'[q] \notin Saving
    BY <2>2 DEF Mutex, Saving, PCType
  <2> QED
    BY <2>1, <2>2, <2>3 DEF FinalizerBehind, Saving, Phase, BeforeChildEnds, AfterCommit,
       Terminal, CancelOwns, CancelPending, ServiceType, PCType, LocalType, HistoryType
<1>3. ASSUME NEW i \in RunIDs, MarkRunning(i) PROVE FinalizerBehind'
  BY <1>3 DEF MarkRunning, FinalizerBehind, Saving, Phase, BeforeChildEnds, AfterCommit,
     Terminal, CancelOwns, CancelPending, ServiceType, PCType, LocalType, HistoryType
<1>4. ASSUME NEW i \in RunIDs, NotifyRunning(i) PROVE FinalizerBehind'
  BY <1>4 DEF NotifyRunning, Go, FinalizerBehind, Saving, Phase, BeforeChildEnds, AfterCommit,
     Terminal, CancelOwns, CancelPending, ServiceType, PCType, LocalType, HistoryType
<1>5. ASSUME NEW i \in RunIDs, FailPersisted(i) PROVE FinalizerBehind'
  BY <1>5 DEF FailPersisted, FinalizerBehind, Saving, Phase, BeforeChildEnds, AfterCommit,
     Terminal, CancelOwns, CancelPending, ServiceType, PCType, LocalType, HistoryType
<1>6. ASSUME NEW i \in RunIDs, \E r \in ChildResult : ChildReturn(i, r) PROVE FinalizerBehind'
  BY <1>6 DEF ChildReturn, Go, FinalizerBehind, Saving, Phase, BeforeChildEnds, AfterCommit,
     Terminal, CancelOwns, CancelPending, ServiceType, PCType, LocalType, HistoryType
<1>7. ASSUME NEW i \in RunIDs, MarkExiting(i) PROVE FinalizerBehind'
  BY <1>7 DEF MarkExiting, Go, FinalizerBehind, Saving, Phase, BeforeChildEnds, AfterCommit,
     Terminal, CancelOwns, CancelPending, ServiceType, PCType, LocalType, HistoryType
<1>8. ASSUME NEW i \in RunIDs, FinishRun(i) PROVE FinalizerBehind'
  BY <1>8 DEF FinishRun, FinishedStatus, IsCanceledRunResult, FinalizerBehind, Saving, Phase,
     BeforeChildEnds, AfterCommit, Terminal, CancelOwns, CancelPending, ServiceType, PCType,
     LocalType, HistoryType
<1>9. ASSUME NEW i \in RunIDs, FinalizeRun(i, i, "finalize", "commit") PROVE FinalizerBehind'
  BY <1>9 DEF FinalizeRun, Go, FinalizerBehind, Saving, Phase, BeforeChildEnds, AfterCommit,
     Terminal, CancelOwns, CancelPending, ServiceType, PCType, LocalType, HistoryType
<1>10. ASSUME NEW i \in RunIDs, CommitFinish(i) PROVE FinalizerBehind'
  BY <1>10 DEF CommitFinish, FinalizerBehind, Saving, Phase, BeforeChildEnds, AfterCommit,
     Terminal, CancelOwns, CancelPending, ServiceType, PCType, LocalType, HistoryType
<1>11. ASSUME NEW i \in RunIDs, Notify(i, i, "finNotify", "finWake") PROVE FinalizerBehind'
  BY <1>11 DEF Notify, Go, FinalizerBehind, Saving, Phase, BeforeChildEnds, AfterCommit,
     Terminal, CancelOwns, CancelPending, ServiceType, PCType, LocalType, HistoryType
<1>12. ASSUME NEW i \in RunIDs, Wake(i, i, "finWake", "done") PROVE FinalizerBehind'
  BY <1>12 DEF Wake, Go, FinalizerBehind, Saving, Phase, BeforeChildEnds, AfterCommit,
     Terminal, CancelOwns, CancelPending, ServiceType, PCType, LocalType, HistoryType
<1>13. ASSUME NEW c \in Clients, SpawnRollback(c) PROVE FinalizerBehind'
  BY <1>13 DEF SpawnRollback, Go, FinalizerBehind, Saving, Phase, BeforeChildEnds, AfterCommit,
     Terminal, CancelOwns, CancelPending, ServiceType, PCType, LocalType, HistoryType
<1>14. ASSUME NEW c \in Clients, SpawnLaunch(c) PROVE FinalizerBehind'
  BY <1>14 DEF SpawnLaunch, FinalizerBehind, Saving, Phase, BeforeChildEnds, AfterCommit,
     Terminal, CancelOwns, CancelPending, ServiceType, PCType, LocalType, HistoryType
<1>15. ASSUME NEW c \in Clients, CancelView(c) PROVE FinalizerBehind'
  BY <1>15 DEF CancelView, Go, FinalizerBehind, Saving, Phase, BeforeChildEnds, AfterCommit,
     Terminal, CancelOwns, CancelPending, ServiceType, PCType, LocalType, HistoryType
<1>16. ASSUME NEW c \in Clients, FinalizeRun(c, tgt[c], "canFinalize", "canStore") PROVE FinalizerBehind'
  BY <1>16 DEF FinalizeRun, Go, FinalizerBehind, Saving, Phase, BeforeChildEnds, AfterCommit,
     Terminal, CancelOwns, CancelPending, ServiceType, PCType, LocalType, HistoryType
<1>17. ASSUME NEW c \in Clients, CancelStore(c) PROVE FinalizerBehind'
  BY <1>17 DEF CancelStore, FinalizerBehind, Saving, Phase, BeforeChildEnds, AfterCommit,
     Terminal, CancelOwns, CancelPending, ServiceType, PCType, LocalType, HistoryType
<1>18. ASSUME NEW c \in Clients, Notify(c, tgt[c], "canNotify", "canWake") PROVE FinalizerBehind'
  BY <1>18 DEF Notify, Go, FinalizerBehind, Saving, Phase, BeforeChildEnds, AfterCommit,
     Terminal, CancelOwns, CancelPending, ServiceType, PCType, LocalType, HistoryType
<1>19. ASSUME NEW c \in Clients, Wake(c, tgt[c], "canWake", "idle") PROVE FinalizerBehind'
  BY <1>19 DEF Wake, Go, FinalizerBehind, Saving, Phase, BeforeChildEnds, AfterCommit,
     Terminal, CancelOwns, CancelPending, ServiceType, PCType, LocalType, HistoryType
<1>20. ASSUME NEW c \in Clients, WaitWoken(c) PROVE FinalizerBehind'
  BY <1>20 DEF WaitWoken, FinalizerBehind, Saving, Phase, BeforeChildEnds, AfterCommit,
     Terminal, CancelOwns, CancelPending, ServiceType, PCType, LocalType, HistoryType
<1>21. ASSUME NEW c \in Clients, StopAllRunning(c) PROVE FinalizerBehind'
  BY <1>21 DEF StopAllRunning, Go, FinalizerBehind, Saving, Phase, BeforeChildEnds,
     AfterCommit, Terminal, CancelOwns, CancelPending, ServiceType, PCType, LocalType,
     HistoryType
<1>22. ASSUME NEW c \in Clients, CloseWaited(c) PROVE FinalizerBehind'
  BY <1>22 DEF CloseWaited, Go, FinalizerBehind, Saving, Phase, BeforeChildEnds, AfterCommit,
     Terminal, CancelOwns, CancelPending, ServiceType, PCType, LocalType, HistoryType
<1>23. ASSUME NEW c \in Clients, WaitGiveUp(c) PROVE FinalizerBehind'
  BY <1>23 DEF WaitGiveUp, Go, FinalizerBehind, Saving, Phase, BeforeChildEnds, AfterCommit,
     Terminal, CancelOwns, CancelPending, ServiceType, PCType, LocalType, HistoryType
<1>24. ASSUME NEW c \in Clients, CloseCancel(c) PROVE FinalizerBehind'
  BY <1>24 DEF CloseCancel, Go, FinalizerBehind, Saving, Phase, BeforeChildEnds, AfterCommit,
     Terminal, CancelOwns, CancelPending, ServiceType, PCType, LocalType, HistoryType
<1>25. ASSUME NEW c \in Clients, NEW i \in RunIDs, SpawnInsert(c, i) PROVE FinalizerBehind'
  BY <1>25 DEF SpawnInsert, Go, FinalizerBehind, Saving, Phase, BeforeChildEnds, AfterCommit,
     Terminal, CancelOwns, CancelPending, ServiceType, PCType, LocalType, HistoryType
<1>26. ASSUME NEW c \in Clients, NEW i \in RunIDs, MarkCanceled(c, i) PROVE FinalizerBehind'
  BY <1>26 DEF MarkCanceled, Cancelable, FinalizerBehind, Saving, Phase, BeforeChildEnds,
     AfterCommit, Terminal, CancelOwns, CancelPending, ServiceType, PCType, LocalType,
     HistoryType
<1>27. ASSUME NEW c \in Clients, NEW i \in RunIDs, WaitCall(c, i) PROVE FinalizerBehind'
  BY <1>27 DEF WaitCall, Go, FinalizerBehind, Saving, Phase, BeforeChildEnds, AfterCommit,
     Terminal, CancelOwns, CancelPending, ServiceType, PCType, LocalType, HistoryType
<1>28. CASE Start
  BY <1>28 DEF Start, FinalizerBehind, Saving, Phase, BeforeChildEnds, AfterCommit, Terminal,
     CancelOwns, CancelPending, ServiceType, PCType, LocalType, HistoryType
<1>29. CASE Crash
  BY <1>29 DEF Crash, IdlePC, NoRuns, FinalizerBehind, Saving, ServiceType, PCType, LocalType,
     HistoryType
<1>30. CASE NewService
  BY <1>30 DEF NewService, Normalized, NoRuns, IdlePC, FinalizerBehind, Saving, Down,
     ServiceType, PCType, LocalType, HistoryType
<1>31. CASE UNCHANGED vars
  BY <1>31 DEF vars, FinalizerBehind, Saving, Phase, BeforeChildEnds, AfterCommit, Terminal,
     CancelOwns, CancelPending, ServiceType, PCType, LocalType, HistoryType
<1> QED
  BY <1>1, <1>2, <1>3, <1>4, <1>5, <1>6, <1>7, <1>8, <1>9, <1>10, <1>11, <1>12, <1>13, <1>14,
     <1>15, <1>16, <1>17, <1>18, <1>19, <1>20, <1>21, <1>22, <1>23, <1>24, <1>25, <1>26, <1>27,
     <1>28, <1>29, <1>30, <1>31
     DEF Next, Persist, Worker, ClientStep, ClientCall

LEMMA CancelingStep ==
  ASSUME TypeInv, Ownership, Canceling, FreshIDs, [Next]_vars
  PROVE  Canceling'
<1> USE ProcsSplit, Names DEF svcVars, procVars, histVars, boundVars, TypeInv, TypeOK, Ownership
<1>1. ASSUME NEW p \in Procs, PersistSnapshot(p) PROVE Canceling'
  <2>1. /\ persistMu = None /\ persistMu' = p /\ snap' = [snap EXCEPT ![p] = runs] /\ up
        /\ UNCHANGED <<runs, running, tgt, view, histVars, store, up>>
    BY <1>1 DEF PersistSnapshot
  <2>2. \/ p \in Clients /\ pc[p] = "spPersist" /\ pc' = [pc EXCEPT ![p] = "spSave"]
        \/ p \in RunIDs /\ pc[p] = "runPersist" /\ pc' = [pc EXCEPT ![p] = "runSave"]
        \/ p \in RunIDs /\ pc[p] = "finPersist" /\ pc' = [pc EXCEPT ![p] = "finSave"]
        \/ p \in Clients /\ pc[p] = "canPersist" /\ pc' = [pc EXCEPT ![p] = "canSave"]
        \/ p \in Clients /\ pc[p] = "clPersist" /\ pc' = [pc EXCEPT ![p] = "clSave"]
    BY <1>1, PersistPC
  <2> QED
    BY <2>1, <2>2 DEF Canceling, Phase, BeforeChildEnds, AfterCommit, Terminal, CancelOwns,
       CancelPending, Unused, Saving, ServiceType, PCType, LocalType, HistoryType
<1>2. ASSUME NEW p \in Procs, PersistSave(p) PROVE Canceling'
  <2>1. /\ persistMu' = None /\ snap' = [snap EXCEPT ![p] = NoRuns] /\ up
        /\ UNCHANGED <<runs, running, tgt, view, histVars, up>>
    BY <1>2 DEF PersistSave
  <2>2. \/ /\ p \in Clients /\ pc[p] = "spSave"
           /\ \/ pc' = [pc EXCEPT ![p] = "spNotify"] /\ store' = snap[p]
              \/ pc' = [pc EXCEPT ![p] = "spRollback"] /\ store' = store
        \/ /\ p \in RunIDs /\ pc[p] = "runSave"
           /\ \/ pc' = [pc EXCEPT ![p] = "runNotify"] /\ store' = snap[p]
              \/ pc' = [pc EXCEPT ![p] = "failMark"] /\ store' = store
        \/ /\ p \in RunIDs /\ pc[p] = "finSave"
           /\ \/ pc' = [pc EXCEPT ![p] = "finNotify"] /\ store' = snap[p]
              \/ pc' = [pc EXCEPT ![p] = "finWake"] /\ store' = store
        \/ /\ p \in Clients /\ pc[p] = "canSave"
           /\ \/ pc' = [pc EXCEPT ![p] = "canNotify"] /\ store' = snap[p]
              \/ pc' = [pc EXCEPT ![p] = "canWake"] /\ store' = store
        \/ /\ p \in Clients /\ pc[p] = "clSave"
           /\ pc' = [pc EXCEPT ![p] = "idle"] /\ store' \in {snap[p], store}
    BY <1>2, PersistPC
  <2>3. \A q \in Procs : pc'[q] \notin Saving
    BY <2>2 DEF Mutex, Saving, PCType
  <2> QED
    BY <2>1, <2>2, <2>3 DEF Canceling, Phase, BeforeChildEnds, AfterCommit, Terminal,
       CancelOwns, CancelPending, Unused, Saving, ServiceType, PCType, LocalType, HistoryType
<1>3. ASSUME NEW i \in RunIDs, MarkRunning(i) PROVE Canceling'
  BY <1>3 DEF MarkRunning, Canceling, Phase, BeforeChildEnds, AfterCommit, Terminal,
     CancelOwns, CancelPending, Unused, Saving, ServiceType, PCType, LocalType, HistoryType
<1>4. ASSUME NEW i \in RunIDs, NotifyRunning(i) PROVE Canceling'
  BY <1>4 DEF NotifyRunning, Go, Canceling, Phase, BeforeChildEnds, AfterCommit, Terminal,
     CancelOwns, CancelPending, Unused, Saving, ServiceType, PCType, LocalType, HistoryType
<1>5. ASSUME NEW i \in RunIDs, FailPersisted(i) PROVE Canceling'
  BY <1>5 DEF FailPersisted, Canceling, Phase, BeforeChildEnds, AfterCommit, Terminal,
     CancelOwns, CancelPending, Unused, Saving, ServiceType, PCType, LocalType, HistoryType
<1>6. ASSUME NEW i \in RunIDs, \E r \in ChildResult : ChildReturn(i, r) PROVE Canceling'
  BY <1>6 DEF ChildReturn, Go, Canceling, Phase, BeforeChildEnds, AfterCommit, Terminal,
     CancelOwns, CancelPending, Unused, Saving, ServiceType, PCType, LocalType, HistoryType
<1>7. ASSUME NEW i \in RunIDs, MarkExiting(i) PROVE Canceling'
  BY <1>7 DEF MarkExiting, Go, Canceling, Phase, BeforeChildEnds, AfterCommit, Terminal,
     CancelOwns, CancelPending, Unused, Saving, ServiceType, PCType, LocalType, HistoryType
<1>8. ASSUME NEW i \in RunIDs, FinishRun(i) PROVE Canceling'
  BY <1>8 DEF FinishRun, FinishedStatus, IsCanceledRunResult, Canceling, Phase,
     BeforeChildEnds, AfterCommit, Terminal, CancelOwns, CancelPending, Unused, Saving,
     ServiceType, PCType, LocalType, HistoryType
<1>9. ASSUME NEW i \in RunIDs, FinalizeRun(i, i, "finalize", "commit") PROVE Canceling'
  BY <1>9 DEF FinalizeRun, Go, Canceling, Phase, BeforeChildEnds, AfterCommit, Terminal,
     CancelOwns, CancelPending, Unused, Saving, ServiceType, PCType, LocalType, HistoryType
<1>10. ASSUME NEW i \in RunIDs, CommitFinish(i) PROVE Canceling'
  <2>1. view[i] \in Terminal /\ (i \in cancelWon => view[i] # "completed")
    BY <1>10 DEF CommitFinish, Canceling, ViewType
  <2>2. /\ cancelWon' = cancelWon /\ view' = view /\ runs'[i] \in {view[i], "absent"}
        /\ pc'[i] \in {"done", "finPersist"}
        /\ \A j \in RunIDs : j # i => runs'[j] = runs[j] /\ pc'[j] = pc[j]
    BY <1>10 DEF CommitFinish, ServiceType, PCType
  <2> QED
    BY <2>1, <2>2 DEF Canceling, Terminal, HistoryType
<1>11. ASSUME NEW i \in RunIDs, Notify(i, i, "finNotify", "finWake") PROVE Canceling'
  BY <1>11 DEF Notify, Go, Canceling, Phase, BeforeChildEnds, AfterCommit, Terminal,
     CancelOwns, CancelPending, Unused, Saving, ServiceType, PCType, LocalType, HistoryType
<1>12. ASSUME NEW i \in RunIDs, Wake(i, i, "finWake", "done") PROVE Canceling'
  BY <1>12 DEF Wake, Go, Canceling, Phase, BeforeChildEnds, AfterCommit, Terminal, CancelOwns,
     CancelPending, Unused, Saving, ServiceType, PCType, LocalType, HistoryType
<1>13. ASSUME NEW c \in Clients, SpawnRollback(c) PROVE Canceling'
  BY <1>13 DEF SpawnRollback, Go, Canceling, Phase, BeforeChildEnds, AfterCommit, Terminal,
     CancelOwns, CancelPending, Unused, Saving, ServiceType, PCType, LocalType, HistoryType
<1>14. ASSUME NEW c \in Clients, SpawnLaunch(c) PROVE Canceling'
  BY <1>14 DEF SpawnLaunch, Canceling, Phase, BeforeChildEnds, AfterCommit, Terminal,
     CancelOwns, CancelPending, Unused, Saving, ServiceType, PCType, LocalType, HistoryType
<1>15. ASSUME NEW c \in Clients, CancelView(c) PROVE Canceling'
  BY <1>15 DEF CancelView, Go, Canceling, Phase, BeforeChildEnds, AfterCommit, Terminal,
     CancelOwns, CancelPending, Unused, Saving, ServiceType, PCType, LocalType, HistoryType
<1>16. ASSUME NEW c \in Clients, FinalizeRun(c, tgt[c], "canFinalize", "canStore") PROVE Canceling'
  BY <1>16 DEF FinalizeRun, Go, Canceling, Phase, BeforeChildEnds, AfterCommit, Terminal,
     CancelOwns, CancelPending, Unused, Saving, ServiceType, PCType, LocalType, HistoryType
<1>17. ASSUME NEW c \in Clients, CancelStore(c) PROVE Canceling'
  BY <1>17 DEF CancelStore, Canceling, Phase, BeforeChildEnds, AfterCommit, Terminal,
     CancelOwns, CancelPending, Unused, Saving, ServiceType, PCType, LocalType, HistoryType
<1>18. ASSUME NEW c \in Clients, Notify(c, tgt[c], "canNotify", "canWake") PROVE Canceling'
  BY <1>18 DEF Notify, Go, Canceling, Phase, BeforeChildEnds, AfterCommit, Terminal,
     CancelOwns, CancelPending, Unused, Saving, ServiceType, PCType, LocalType, HistoryType
<1>19. ASSUME NEW c \in Clients, Wake(c, tgt[c], "canWake", "idle") PROVE Canceling'
  BY <1>19 DEF Wake, Go, Canceling, Phase, BeforeChildEnds, AfterCommit, Terminal, CancelOwns,
     CancelPending, Unused, Saving, ServiceType, PCType, LocalType, HistoryType
<1>20. ASSUME NEW c \in Clients, WaitWoken(c) PROVE Canceling'
  BY <1>20 DEF WaitWoken, Canceling, Phase, BeforeChildEnds, AfterCommit, Terminal, CancelOwns,
     CancelPending, Unused, Saving, ServiceType, PCType, LocalType, HistoryType
<1>21. ASSUME NEW c \in Clients, StopAllRunning(c) PROVE Canceling'
  BY <1>21 DEF StopAllRunning, Go, Canceling, Phase, BeforeChildEnds, AfterCommit, Terminal,
     CancelOwns, CancelPending, Unused, Saving, ServiceType, PCType, LocalType, HistoryType
<1>22. ASSUME NEW c \in Clients, CloseWaited(c) PROVE Canceling'
  BY <1>22 DEF CloseWaited, Go, Canceling, Phase, BeforeChildEnds, AfterCommit, Terminal,
     CancelOwns, CancelPending, Unused, Saving, ServiceType, PCType, LocalType, HistoryType
<1>23. ASSUME NEW c \in Clients, WaitGiveUp(c) PROVE Canceling'
  BY <1>23 DEF WaitGiveUp, Go, Canceling, Phase, BeforeChildEnds, AfterCommit, Terminal,
     CancelOwns, CancelPending, Unused, Saving, ServiceType, PCType, LocalType, HistoryType
<1>24. ASSUME NEW c \in Clients, CloseCancel(c) PROVE Canceling'
  BY <1>24 DEF CloseCancel, Go, Canceling, Phase, BeforeChildEnds, AfterCommit, Terminal,
     CancelOwns, CancelPending, Unused, Saving, ServiceType, PCType, LocalType, HistoryType
<1>25. ASSUME NEW c \in Clients, NEW i \in RunIDs, SpawnInsert(c, i) PROVE Canceling'
  BY <1>25 DEF SpawnInsert, Go, Canceling, Phase, BeforeChildEnds, AfterCommit, Terminal,
     CancelOwns, CancelPending, Unused, Saving, ServiceType, PCType, LocalType, HistoryType
<1>26. ASSUME NEW c \in Clients, NEW i \in RunIDs, MarkCanceled(c, i) PROVE Canceling'
  BY <1>26 DEF MarkCanceled, Cancelable, Canceling, Phase, BeforeChildEnds, AfterCommit,
     Terminal, CancelOwns, CancelPending, Unused, Saving, ServiceType, PCType, LocalType,
     HistoryType
<1>27. ASSUME NEW c \in Clients, NEW i \in RunIDs, WaitCall(c, i) PROVE Canceling'
  BY <1>27 DEF WaitCall, Go, Canceling, Phase, BeforeChildEnds, AfterCommit, Terminal,
     CancelOwns, CancelPending, Unused, Saving, ServiceType, PCType, LocalType, HistoryType
<1>28. CASE Start
  BY <1>28 DEF Start, Canceling, Phase, BeforeChildEnds, AfterCommit, Terminal, CancelOwns,
     CancelPending, Unused, Saving, ServiceType, PCType, LocalType, HistoryType
<1>29. CASE Crash
  BY <1>29 DEF Crash, IdlePC, NoRuns, Canceling, ServiceType, PCType, LocalType, HistoryType
<1>30. CASE NewService
  BY <1>30 DEF NewService, Normalized, NoRuns, IdlePC, Canceling, Down, ServiceType, PCType,
     LocalType, HistoryType
<1>31. CASE UNCHANGED vars
  BY <1>31 DEF vars, Canceling, Phase, BeforeChildEnds, AfterCommit, Terminal, CancelOwns,
     CancelPending, Unused, Saving, ServiceType, PCType, LocalType, HistoryType
<1> QED
  BY <1>1, <1>2, <1>3, <1>4, <1>5, <1>6, <1>7, <1>8, <1>9, <1>10, <1>11, <1>12, <1>13, <1>14,
     <1>15, <1>16, <1>17, <1>18, <1>19, <1>20, <1>21, <1>22, <1>23, <1>24, <1>25, <1>26, <1>27,
     <1>28, <1>29, <1>30, <1>31
     DEF Next, Persist, Worker, ClientStep, ClientCall

\* A settled run stays settled.
LEMMA SettledStays ==
  ASSUME TypeInv, Ownership, FreshIDs, [Next]_vars,
         NEW i \in RunIDs, NEW v \in Terminal, Settled(i, v)
  PROVE  Settled(i, v)'
<1> USE ProcsSplit, Names DEF svcVars, procVars, histVars, boundVars, TypeInv, TypeOK, Ownership
<1>1. ASSUME NEW p \in Procs, PersistSnapshot(p) PROVE Settled(i, v)'
  <2>1. /\ UNCHANGED <<runs, store, used>> /\ snap' = [snap EXCEPT ![p] = runs]
        /\ \A q \in Procs : q # p => pc'[q] = pc[q]
    BY <1>1 DEF PersistSnapshot, PCType
  <2> QED
    BY <2>1 DEF Settled, LocalType
<1>2. ASSUME NEW p \in Procs, PersistSave(p) PROVE Settled(i, v)'
  <2>1. /\ UNCHANGED <<runs, used>> /\ store' \in {snap[p], store} /\ pc[p] \in Saving
    BY <1>2, PersistPC DEF PersistSave, Saving
  <2>2. \A q \in Procs : pc'[q] \notin Saving
    BY <1>2, PersistPC DEF Mutex, Saving, PCType
  <2> QED
    BY <2>1, <2>2 DEF Settled
<1>3. CASE Crash
  BY <1>3 DEF Crash, IdlePC, NoRuns, Settled, Saving
<1>4. CASE NewService
  <2>1. Normalized(store[i]) = store[i]
    BY DEF Normalized, Settled
  <2>2. used' = used /\ runs'[i] \in {store[i], runs[i]} /\ store'[i] = store[i]
    BY <1>4, <2>1 DEF NewService, ServiceType
  <2> QED
    BY <1>4, <2>2 DEF NewService, Settled, Down, IdlePC, Saving
<1>5. CASE ~(\E p \in Procs : Persist(p)) /\ ~Crash /\ ~NewService
  <2>1. Calm
    BY <1>5, CalmStep
  <2> QED
    BY <2>1 DEF Calm, CalmStore, CalmPC, CalmRuns, Settled
<1> QED
  BY <1>1, <1>2, <1>3, <1>4, <1>5 DEF Persist

LEMMA SettlingStep ==
  ASSUME TypeInv, Ownership, Settling, FreshIDs, [Next]_vars
  PROVE  Settling'
<1> USE ProcsSplit, Names DEF svcVars, procVars, histVars, boundVars, TypeInv, TypeOK, Ownership, Settling
<1>1. ASSUME NEW p \in Procs, PersistSnapshot(p) PROVE Settling'
  <2>1. /\ persistMu = None /\ persistMu' = p /\ snap' = [snap EXCEPT ![p] = runs] /\ up
        /\ UNCHANGED <<runs, running, tgt, view, histVars, store, up>>
    BY <1>1 DEF PersistSnapshot
  <2>2. \/ p \in Clients /\ pc[p] = "spPersist" /\ pc' = [pc EXCEPT ![p] = "spSave"]
        \/ p \in RunIDs /\ pc[p] = "runPersist" /\ pc' = [pc EXCEPT ![p] = "runSave"]
        \/ p \in RunIDs /\ pc[p] = "finPersist" /\ pc' = [pc EXCEPT ![p] = "finSave"]
        \/ p \in Clients /\ pc[p] = "canPersist" /\ pc' = [pc EXCEPT ![p] = "canSave"]
        \/ p \in Clients /\ pc[p] = "clPersist" /\ pc' = [pc EXCEPT ![p] = "clSave"]
    BY <1>1, PersistPC
  <2>3. StoreSettled'
    BY <2>1, SettledStays DEF StoreSettled
  <2>4. ToldSettled'
    BY <2>1, SettledStays DEF ToldSettled, HistoryType
  <2>5. FinSettled'
    BY <2>1, <2>2, SettledStays DEF FinSettled, Phase, AfterCommit, PCType
  <2>6. CanSettled'
    BY <2>1, <2>2, SettledStays DEF CanSettled, PCType, LocalType
  <2>7. SnapAgrees'
    BY <2>1, <2>2 DEF SnapAgrees, LocalType, PCType
  <2>8. FinSaved'
    BY <2>1, <2>2 DEF FinSaved, Phase, AfterCommit, LocalType, PCType
  <2>9. CanSaved'
    BY <2>1, <2>2 DEF CanSaved, CancelNotified, LocalType, PCType
  <2> QED
    BY <2>3, <2>4, <2>5, <2>6, <2>7, <2>8, <2>9
<1>2. ASSUME NEW p \in Procs, PersistSave(p) PROVE Settling'
  <2>1. /\ persistMu' = None /\ snap' = [snap EXCEPT ![p] = NoRuns] /\ up
        /\ UNCHANGED <<runs, running, tgt, view, histVars, up>>
    BY <1>2 DEF PersistSave
  <2>2. \/ /\ p \in Clients /\ pc[p] = "spSave"
           /\ \/ pc' = [pc EXCEPT ![p] = "spNotify"] /\ store' = snap[p]
              \/ pc' = [pc EXCEPT ![p] = "spRollback"] /\ store' = store
        \/ /\ p \in RunIDs /\ pc[p] = "runSave"
           /\ \/ pc' = [pc EXCEPT ![p] = "runNotify"] /\ store' = snap[p]
              \/ pc' = [pc EXCEPT ![p] = "failMark"] /\ store' = store
        \/ /\ p \in RunIDs /\ pc[p] = "finSave"
           /\ \/ pc' = [pc EXCEPT ![p] = "finNotify"] /\ store' = snap[p]
              \/ pc' = [pc EXCEPT ![p] = "finWake"] /\ store' = store
        \/ /\ p \in Clients /\ pc[p] = "canSave"
           /\ \/ pc' = [pc EXCEPT ![p] = "canNotify"] /\ store' = snap[p]
              \/ pc' = [pc EXCEPT ![p] = "canWake"] /\ store' = store
        \/ /\ p \in Clients /\ pc[p] = "clSave"
           /\ pc' = [pc EXCEPT ![p] = "idle"] /\ store' \in {snap[p], store}
    BY <1>2, PersistPC
  <2>3. \A q \in Procs : pc'[q] \notin Saving
    BY <2>2 DEF Mutex, Saving, PCType
  <2>4. StoreSettled'
    <3> SUFFICES ASSUME NEW i \in RunIDs, store'[i] \in Terminal PROVE Settled(i, store[i])'
      BY DEF StoreSettled
    <3>1. CASE store'[i] = store[i]
      BY <3>1, SettledStays DEF StoreSettled
    <3>2. CASE store'[i] = snap[p][i]
      <4>1. pc[p] \in Saving /\ snap[p][i] # "absent"
        BY <2>2, <3>2 DEF Saving
      <4>2. i \in used
        BY <4>1 DEF Unused
      <4>3. runs[i] \in {snap[p][i], "absent"}
        BY <3>2, <4>1 DEF SnapAgrees
      <4> QED
        BY <2>1, <2>3, <3>2, <4>2, <4>3 DEF Settled
    <3> QED
      BY <2>2, <3>1, <3>2
  <2>5. ToldSettled'
    BY <2>1, SettledStays DEF ToldSettled, HistoryType
  <2>6. FinSettled'
    <3> SUFFICES ASSUME NEW i \in RunIDs, pc'[i] = "finNotify" PROVE Settled(i, view[i])'
      BY DEF FinSettled
    <3>1. CASE pc[i] = "finNotify"
      BY <2>1, <3>1, SettledStays DEF FinSettled, Phase, AfterCommit
    <3>2. CASE pc[i] # "finNotify"
      <4>1. p = i /\ pc[i] = "finSave" /\ store' = snap[i]
        BY <2>2, <3>2 DEF PCType
      <4>2. i \in used /\ runs[i] = view[i] /\ snap[i][i] = view[i]
        BY <4>1 DEF Unused, Phase, AfterCommit, FinSaved
      <4> QED
        BY <2>1, <2>3, <4>1, <4>2 DEF Settled
    <3> QED
      BY <3>1, <3>2
  <2>7. CanSettled'
    <3> SUFFICES ASSUME NEW c \in Clients, pc'[c] = "canNotify", view'[c] \in Terminal
                 PROVE  Settled(tgt[c], view[c])'
      BY DEF CanSettled
    <3>1. CASE pc[c] = "canNotify"
      BY <2>1, <3>1, SettledStays DEF CanSettled, LocalType
    <3>2. CASE pc[c] # "canNotify"
      <4>1. p = c /\ pc[c] = "canSave" /\ store' = snap[c]
        BY <2>2, <3>2 DEF PCType
      <4>2. tgt[c] \in used
        BY <4>1 DEF CancelTarget, CancelNotified
      <4>3. runs[tgt[c]] \in {view[c], "absent"} /\ snap[c][tgt[c]] \in {view[c], "absent"}
        BY <2>1, <4>1 DEF CanSaved, CancelNotified
      <4> QED
        BY <2>1, <2>3, <4>1, <4>2, <4>3 DEF Settled
    <3> QED
      BY <3>1, <3>2
  <2>8. SnapAgrees'
    BY <2>3 DEF SnapAgrees
  <2>9. FinSaved'
    BY <2>3 DEF FinSaved, Saving
  <2>10. CanSaved'
    BY <2>1, <2>2, <2>3 DEF CanSaved, CancelNotified, Saving, PCType
  <2> QED
    BY <2>4, <2>5, <2>6, <2>7, <2>8, <2>9, <2>10
<1>3. CASE Crash
  <2>1. UNCHANGED <<store, told>> /\ \A p \in Procs : pc'[p] \in {"none", "idle"}
    BY <1>3 DEF Crash, IdlePC
  <2>2. StoreSettled' /\ ToldSettled'
    BY <1>3, SettledStays DEF StoreSettled, ToldSettled, HistoryType, Crash
  <2> QED
    BY <2>1, <2>2 DEF FinSettled, CanSettled, SnapAgrees, FinSaved, CanSaved, Saving,
       CancelNotified
<1>4. CASE NewService
  <2>1. UNCHANGED <<pc, used, told, snap>> /\ \A p \in Procs : pc[p] \in {"none", "idle"}
    BY <1>4 DEF NewService, Down, IdlePC
  <2>2. StoreSettled'
    <3> SUFFICES ASSUME NEW i \in RunIDs, store'[i] \in Terminal PROVE Settled(i, store[i])'
      BY DEF StoreSettled
    <3>1. store[i] # "absent" /\ runs'[i] \in {store'[i], "absent"}
      BY <1>4 DEF NewService, Normalized, ServiceType, Down, NoRuns
    <3> QED
      BY <2>1, <3>1 DEF Settled, Unused, Saving
  <2>3. ToldSettled'
    BY <2>1, SettledStays DEF ToldSettled, HistoryType
  <2> QED
    BY <2>1, <2>2, <2>3 DEF FinSettled, CanSettled, SnapAgrees, FinSaved, CanSaved, Saving,
       CancelNotified
<1>5. CASE ~(\E p \in Procs : Persist(p)) /\ ~Crash /\ ~NewService
  <2>1. CalmStore /\ CalmPC /\ CalmRuns /\ CalmTold /\ CalmCancel
    BY <1>5, CalmStep DEF Calm
  <2>2. StoreSettled'
    BY <2>1, SettledStays DEF StoreSettled, CalmStore
  <2>3. ToldSettled'
    <3> SUFFICES ASSUME NEW i \in RunIDs, told'[i] # "none" PROVE Settled(i, told[i])'
      BY DEF ToldSettled
    <3>1. told'[i] \in Terminal /\ Settled(i, told'[i])
      BY <2>1 DEF CalmTold, ToldSettled, FinSettled, CanSettled, HistoryType, Phase, AfterCommit
    <3> QED
      BY <3>1, SettledStays
  <2>4. FinSettled'
    BY <2>1, SettledStays DEF FinSettled, CalmPC, Phase, AfterCommit
  <2>5. CanSettled'
    BY <2>1, SettledStays DEF CanSettled, CalmPC, LocalType
  <2>6. SnapAgrees'
    BY <2>1 DEF SnapAgrees, CalmPC, CalmStore, CalmRuns, Unused, ServiceType
  <2>7. FinSaved'
    BY <2>1 DEF FinSaved, CalmPC, CalmStore, Saving
  <2>8. CanSaved'
    BY <2>1 DEF CanSaved, CalmPC, CalmStore, CalmRuns, CalmCancel, CancelTarget, Saving,
       LocalType, PCType
  <2> QED
    BY <2>2, <2>3, <2>4, <2>5, <2>6, <2>7, <2>8
<1> QED
  BY <1>1, <1>2, <1>3, <1>4, <1>5 DEF Persist

LEMMA IInvInit == Init => IInv
<1> SUFFICES ASSUME Init PROVE IInv
  OBVIOUS
<1> USE ProcsSplit, Names DEF Init, NoRuns, IdlePC
<1>1. TypeInv
  BY TypeInit
<1>2. Down /\ Mutex /\ Unused
  BY DEF Down, Mutex, Unused, Saving
<1>3. SpawnOwns /\ KeptIsKept /\ CancelTarget /\ CancelOwns
  BY DEF SpawnOwns, Spawning, KeptIsKept, Kept, CancelTarget, CancelOwns, CancelPending,
     CancelNotified
<1>4. Phase
  BY DEF Phase, BeforeChildEnds, AfterCommit
<1>5. Settling
  BY DEF Settling, StoreSettled, ToldSettled, FinSettled, CanSettled, SnapAgrees, FinSaved,
     CanSaved,
         Saving, CancelNotified, Terminal
<1>6. FinalizerAhead /\ FinalizerBehind /\ Canceling
  BY DEF FinalizerAhead, FinalizerBehind, Canceling, BeforeChildEnds, Saving, Terminal
<1> QED
  BY <1>1, <1>2, <1>3, <1>4, <1>5, <1>6 DEF IInv, Ownership

LEMMA IInvStep == FreshIDs /\ IInv /\ [Next]_vars => IInv'
BY TypeStep, OwnershipStep, SettlingStep, FinalizerAheadStep, FinalizerBehindStep, CancelingStep
   DEF IInv

LEMMA IInvHolds == FreshIDs => (Spec => []IInv)
<1> SUFFICES ASSUME FreshIDs PROVE Spec => []IInv
  OBVIOUS
<1>1. IInv /\ [Next]_vars => IInv'
  BY IInvStep
<1> QED
  BY IInvInit, <1>1, PTL DEF Spec

LEMMA IInvImplies ==
  IInv => TerminalMeansExited /\ ObservedTerminalIsDurable /\ FinalizedOnce /\ CancelSticks
<1> SUFFICES ASSUME IInv
             PROVE  TerminalMeansExited /\ ObservedTerminalIsDurable /\ FinalizedOnce /\ CancelSticks
  OBVIOUS
<1> USE DEF IInv
<1>1. TerminalMeansExited
  BY DEF TerminalMeansExited, ChildAhead, Ownership, Phase, BeforeChildEnds, Terminal
<1>2. ObservedTerminalIsDurable
  BY DEF ObservedTerminalIsDurable, Settling, ToldSettled, Settled, Ownership, KeptIsKept, Kept,
         TypeInv, TypeOK, HistoryType
<1>3. FinalizedOnce
  BY DEF FinalizedOnce, FinalizerAhead, FinalizerBehind
<1>4. CancelSticks
  BY DEF CancelSticks, Canceling
<1> QED
  BY <1>1, <1>2, <1>3, <1>4

\* With fresh ids no run is terminal in Service.runs while its goroutine still has
\* the child to run: Cancel and the goroutine never both own the run's end.
THEOREM ExitedTheorem == FreshIDs => (Spec => []TerminalMeansExited)
BY IInvHolds, IInvImplies, PTL

\* With fresh ids what OnRunUpdate reported as terminal is what the Store holds,
\* through later Saves, failing Saves, crashes and restarts.
THEOREM DurableTheorem == FreshIDs => (Spec => []ObservedTerminalIsDurable)
BY IInvHolds, IInvImplies, PTL

\* With fresh ids the finalizer precedes every terminal status, in the map and in
\* the Store, and one process calls it at most once for a run.
THEOREM FinalizerTheorem == FreshIDs => (Spec => []FinalizedOnce)
BY IInvHolds, IInvImplies, PTL

\* With fresh ids a Cancel that reported changed = true never ends in "completed".
THEOREM CancelTheorem == FreshIDs => (Spec => []CancelSticks)
BY IInvHolds, IInvImplies, PTL

\* With fresh ids no critical section of a live service moves an accepted run out
\* of a terminal status.
THEOREM FinalInMap == FreshIDs => (Spec => TerminalIsFinal)
<1> SUFFICES ASSUME FreshIDs PROVE Spec => TerminalIsFinal
  OBVIOUS
<1>1. ASSUME IInv, IInv', [Next]_vars
      PROVE  [\A i \in accepted :
                (up /\ up' /\ runs[i] \in Terminal) => runs'[i] = runs[i]]_vars
  <2> SUFFICES ASSUME NEW i \in accepted, up, up', runs[i] \in Terminal PROVE runs'[i] = runs[i]
    OBVIOUS
  <2>1. i \in RunIDs
    BY <1>1 DEF IInv, TypeInv, TypeOK, HistoryType
  <2>2. CASE \E p \in Procs : Persist(p)
    BY <2>2 DEF Persist, PersistSnapshot, PersistSave
  <2>3. CASE Crash \/ NewService
    BY <2>3 DEF Crash, NewService
  <2>4. CASE ~(\E p \in Procs : Persist(p)) /\ ~Crash /\ ~NewService
    <3>1. Calm
      BY <1>1, <2>4, CalmStep DEF IInv
    <3>2. runs'[i] # "absent"
      BY <1>1, <2>1, <3>1 DEF Calm, CalmStore, IInv, Ownership, KeptIsKept, Kept
    <3> QED
      BY <2>1, <3>1, <3>2 DEF Calm, CalmRuns
  <2> QED
    BY <2>2, <2>3, <2>4
<1> QED
  BY IInvHolds, <1>1, PTL DEF Spec, TerminalIsFinal

\* With fresh ids no Save, and no restart, takes a stored terminal status back.
THEOREM FinalInStore == FreshIDs => (Spec => StoredTerminalIsFinal)
<1> SUFFICES ASSUME FreshIDs PROVE Spec => StoredTerminalIsFinal
  OBVIOUS
<1>1. ASSUME IInv, IInv', [Next]_vars
      PROVE  [\A i \in accepted : store[i] \in Terminal => store'[i] = store[i]]_vars
  <2> SUFFICES ASSUME NEW i \in accepted, store[i] \in Terminal PROVE store'[i] = store[i]
    OBVIOUS
  <2>1. i \in RunIDs
    BY <1>1 DEF IInv, TypeInv, TypeOK, HistoryType
  <2>2. PICK v \in Terminal : store[i] = v
    OBVIOUS
  <2>3. Settled(i, v)
    BY <1>1, <2>1, <2>2 DEF IInv, Settling, StoreSettled
  <2>4. store'[i] \in {v, "absent"}
    BY <1>1, <2>1, <2>3, SettledStays DEF IInv, Settled
  <2>5. accepted \subseteq accepted'
    <3>1. CASE (\E p \in Procs : Persist(p)) \/ Crash \/ NewService
      BY <3>1 DEF Persist, PersistSnapshot, PersistSave, Crash, NewService, histVars
    <3>2. CASE ~(\E p \in Procs : Persist(p)) /\ ~Crash /\ ~NewService
      BY <1>1, <3>2, CalmStep DEF IInv, Calm, CalmStore
    <3> QED
      BY <3>1, <3>2
  <2> QED
    BY <1>1, <2>1, <2>2, <2>4, <2>5 DEF IInv, Ownership, KeptIsKept, Kept
<1> QED
  BY IInvHolds, <1>1, PTL DEF Spec, StoredTerminalIsFinal
=============================================================================
