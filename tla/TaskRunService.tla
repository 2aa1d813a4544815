--------------------------- MODULE TaskRunService ---------------------------
(***************************************************************************)
(* The in-process task run service (agent/taskrun/inprocess/service.go):   *)
(* Spawn starts a goroutine per run, Cancel, Wait and Close are called by  *)
(* concurrent clients, every state change is written to a Store, and a     *)
(* crash loses all but the Store.                                          *)
(*                                                                         *)
(* A step is one critical section of Service.mu, one half of persist (the  *)
(* snapshot, the Save), one call of the finalizer, the observer or the     *)
(* child runner.  A run is reduced to its Status; text, metadata, progress *)
(* and timestamps are data no property reads.                              *)
(***************************************************************************)
EXTENDS Naturals, FiniteSets

CONSTANTS
  RunIDs,      \* ids of runs; the goroutine of run i is process i
  Clients,     \* goroutines that call Spawn, Cancel, Wait and Close
  None,        \* "no process"
  FreshIDs,    \* TRUE: Spawn assigns uuids; FALSE: callers reuse an id of their own
  MaxFailures, \* bound: Store.Save calls that may fail
  MaxCrashes   \* bound: crashes of the process

ASSUME ProcAssumption == RunIDs \cap Clients = {} /\ None \notin RunIDs \cup Clients
ASSUME BoundAssumption == MaxFailures \in Nat /\ MaxCrashes \in Nat
ASSUME FreshAssumption == FreshIDs \in BOOLEAN

VARIABLES
  runs,       \* Service.runs: the status of each run, "absent" when not in the map
  running,    \* Service.running: "none", "active" or "exiting"
  ctxDone,    \* the run's own context was canceled through runningRun.cancel
  waiters,    \* Service.waiters: the clients whose channel is registered
  persistMu,  \* the holder of Service.persistMu
  base,       \* Service.baseCtx: "none", "live" or "canceled"
  store,      \* what Store.Load would return
  up,         \* the process is alive
  pc,         \* what each goroutine does next
  tgt,        \* the run a client's call is about
  view,       \* the terminal or canceling view a goroutine carries between locks
  snap,       \* the snapshot a goroutine is saving in persist
  failures, crashes,
  used,       \* history: ids a Spawn has inserted
  accepted,   \* history: ids whose Spawn launched the goroutine
  told,       \* history: the last terminal status the observer was told
  finalCalls, \* history: calls of the finalizer since the process started
  finalized,  \* history: runs the finalizer was ever called for
  cancelWon   \* history: runs for which a Cancel reported changed = true

svcVars  == <<runs, running, ctxDone, waiters, persistMu, base>>
procVars == <<pc, tgt, view, snap>>
histVars == <<used, accepted, told, finalCalls, finalized, cancelWon>>
boundVars == <<failures, crashes>>
vars == <<svcVars, procVars, histVars, boundVars, store, up>>

Procs == RunIDs \cup Clients

Terminal == {"completed", "failed", "canceled"}
Status   == Terminal \cup {"queued", "running", "finalizing", "canceling"}
StatusOrAbsent == Status \cup {"absent"}
NoRuns   == [i \in RunIDs |-> "absent"]

\* persist is called from five places; where each goes on after the Save.
SaveAt   == [spPersist |-> "spSave", runPersist |-> "runSave", finPersist |-> "finSave",
             canPersist |-> "canSave", clPersist |-> "clSave"]
SavedTo  == [spSave |-> "spNotify", runSave |-> "runNotify", finSave |-> "finNotify",
             canSave |-> "canNotify", clSave |-> "idle"]
\* Mutants of FailedTo: the observer is told though the Save failed; no wake.
FailedToNotifies == [spSave |-> "spRollback", runSave |-> "failMark", finSave |-> "finNotify",
                     canSave |-> "canNotify", clSave |-> "idle"]
FailedToNoWake == [spSave |-> "spRollback", runSave |-> "failMark", finSave |-> "done",
                   canSave |-> "canWake", clSave |-> "idle"]
FailedTo == [spSave |-> "spRollback", runSave |-> "failMark", finSave |-> "finWake",
             canSave |-> "canWake", clSave |-> "idle"]

WorkerPC == {"none", "start", "runPersist", "runSave", "runNotify", "failMark", "child",
             "exit", "finish", "finalize", "commit", "finPersist", "finSave",
             "finNotify", "finWake", "done"}
ClientPC == {"idle", "spPersist", "spSave", "spRollback", "spNotify",
             "canView", "canFinalize", "canStore", "canPersist", "canSave",
             "canNotify", "canWake", "waiting",
             "clStop", "clWait", "clPersist", "clSave"}

\* Mutant of CtxDone: the run's context is not a child of baseCtx.
CtxDoneDetached(i) == ctxDone[i]
CtxDone(i) == ctxDone[i] \/ base = "canceled"

Go(p, from, to) == pc[p] = from /\ pc' = [pc EXCEPT ![p] = to]
-----------------------------------------------------------------------------
(***************************************************************************)
(* persist: snapshot all runs under persistMu and mu, then Save.           *)
(***************************************************************************)
\* Mutant of PersistSnapshot: persistMu is not taken.
PersistSnapshotUnlocked(p) ==
  /\ up
  /\ pc[p] \in DOMAIN SaveAt
  /\ snap' = [snap EXCEPT ![p] = runs]
  /\ pc' = [pc EXCEPT ![p] = SaveAt[pc[p]]]
  /\ UNCHANGED <<svcVars, tgt, view, histVars, boundVars, store, up>>

PersistSnapshot(p) ==
  /\ up
  /\ pc[p] \in DOMAIN SaveAt
  /\ persistMu = None
  /\ persistMu' = p
  /\ snap' = [snap EXCEPT ![p] = runs]
  /\ pc' = [pc EXCEPT ![p] = SaveAt[pc[p]]]
  /\ UNCHANGED <<runs, running, ctxDone, waiters, base, tgt, view, histVars, boundVars, store, up>>

PersistSave(p) ==
  /\ up
  /\ pc[p] \in DOMAIN SavedTo
  /\ persistMu' = None
  /\ snap' = [snap EXCEPT ![p] = NoRuns]
  /\ \/ /\ store' = snap[p]
        /\ pc' = [pc EXCEPT ![p] = SavedTo[pc[p]]]
        /\ UNCHANGED failures
     \/ /\ failures < MaxFailures
        /\ failures' = failures + 1
        /\ pc' = [pc EXCEPT ![p] = FailedTo[pc[p]]]
        /\ UNCHANGED store
  /\ UNCHANGED <<runs, running, ctxDone, waiters, base, tgt, view, histVars, crashes, up>>
-----------------------------------------------------------------------------
(***************************************************************************)
(* Spawn                                                                   *)
(***************************************************************************)
SpawnInsert(c, i) ==
  /\ up
  /\ base # "none"
  /\ runs[i] = "absent"
  /\ FreshIDs => i \notin used
  /\ Go(c, "idle", "spPersist")
  /\ tgt' = [tgt EXCEPT ![c] = i]
  /\ runs' = [runs EXCEPT ![i] = "queued"]
  /\ used' = used \cup {i}
  /\ UNCHANGED <<running, ctxDone, waiters, persistMu, base, view, snap,
                 accepted, told, finalCalls, finalized, cancelWon, boundVars, store, up>>

\* The Save failed: the run is taken out of the map and Spawn returns the error.
SpawnRollback(c) ==
  /\ up
  /\ Go(c, "spRollback", "idle")
  /\ runs' = [runs EXCEPT ![tgt[c]] = "absent"]
  /\ UNCHANGED <<running, ctxDone, waiters, persistMu, base, tgt, view, snap,
                 histVars, boundVars, store, up>>

\* The observer is told "queued" and the goroutine is launched.
SpawnLaunch(c) ==
  /\ up
  /\ pc[c] = "spNotify"
  /\ pc' = [pc EXCEPT ![c] = "idle", ![tgt[c]] = "start"]
  /\ accepted' = accepted \cup {tgt[c]}
  /\ UNCHANGED <<svcVars, tgt, view, snap, used, told, finalCalls, finalized, cancelWon, boundVars, store, up>>
-----------------------------------------------------------------------------
(***************************************************************************)
(* execute: the goroutine of run i.                                        *)
(***************************************************************************)
\* Mutant of MarkRunning: a run that was canceled while queued is started.
MarkRunningAlways(i) ==
  /\ up
  /\ Go(i, "start", "runPersist")
  /\ runs' = [runs EXCEPT ![i] = "running"]
  /\ running' = [running EXCEPT ![i] = "active"]
  /\ UNCHANGED <<ctxDone, waiters, persistMu, base, tgt, view, snap, histVars, boundVars, store, up>>

MarkRunning(i) ==
  /\ up
  /\ pc[i] = "start"
  /\ IF runs[i] \in {"absent", "canceled", "canceling"}
     THEN /\ pc' = [pc EXCEPT ![i] = "done"]
          /\ UNCHANGED <<runs, running, ctxDone>>
     ELSE /\ runs' = [runs EXCEPT ![i] = "running"]
          /\ running' = [running EXCEPT ![i] = "active"]
          /\ ctxDone' = [ctxDone EXCEPT ![i] = FALSE]
          /\ pc' = [pc EXCEPT ![i] = "runPersist"]
  /\ UNCHANGED <<waiters, persistMu, base, tgt, view, snap, histVars, boundVars, store, up>>

NotifyRunning(i) ==
  /\ up
  /\ Go(i, "runNotify", "child")
  /\ UNCHANGED <<svcVars, tgt, view, snap, histVars, boundVars, store, up>>

\* failPersistedRun up to its finalizer call; the rest is that of finishRun.
FailPersisted(i) ==
  /\ up
  /\ pc[i] = "failMark"
  /\ ctxDone' = [ctxDone EXCEPT ![i] = TRUE]
  /\ IF runs[i] = "absent"
     THEN /\ running' = [running EXCEPT ![i] = "none"]
          /\ pc' = [pc EXCEPT ![i] = "done"]
          /\ UNCHANGED <<runs, view>>
     ELSE /\ running' = [running EXCEPT ![i] = IF @ = "none" THEN "none" ELSE "exiting"]
          /\ view' = [view EXCEPT ![i] = "failed"]
          /\ runs' = [runs EXCEPT ![i] = "finalizing"]
          /\ pc' = [pc EXCEPT ![i] = "finalize"]
  /\ UNCHANGED <<waiters, persistMu, base, tgt, snap, histVars, boundVars, store, up>>

(***************************************************************************)
(* runChild: the runner's event stream ends.  Without an error of its own  *)
(* it still returns ctxErr(ctx), so "ok" needs a live context.  The result *)
(* is kept in view: "ok", "error" or "canceled" is read by FinishRun.      *)
(***************************************************************************)
ChildResult == {"ok", "error", "canceled"}

ChildReturn(i, r) ==
  /\ up
  /\ r = "ok" => ~CtxDone(i)
  /\ Go(i, "child", "exit")
  /\ view' = [view EXCEPT ![i] = r]
  /\ UNCHANGED <<svcVars, tgt, snap, histVars, boundVars, store, up>>

MarkExiting(i) ==
  /\ up
  /\ Go(i, "exit", "finish")
  /\ running' = [running EXCEPT ![i] = IF @ = "none" THEN "none" ELSE "exiting"]
  /\ UNCHANGED <<runs, ctxDone, waiters, persistMu, base, tgt, view, snap,
                 histVars, boundVars, store, up>>

\* Mutant of IsCanceledRunResult: the recorded cancellation is not looked at.
IsCanceledByError(st, r) == r = "canceled"
IsCanceledRunResult(st, r) == r = "canceled" \/ (st = "canceling" /\ r = "ok")

\* Mutant of FinishedStatus: the runner's result is stored as it came.
FinishedStatusRaw(st, r) == IF IsCanceledRunResult(st, r) THEN "canceled" ELSE r

FinishedStatus(st, r) ==
  IF IsCanceledRunResult(st, r) THEN "canceled"
  ELSE IF r = "ok" THEN "completed" ELSE "failed"

FinishRun(i) ==
  /\ up
  /\ pc[i] = "finish"
  /\ IF runs[i] = "absent"
     THEN /\ running' = [running EXCEPT ![i] = "none"]
          /\ pc' = [pc EXCEPT ![i] = "done"]
          /\ UNCHANGED <<runs, view>>
     ELSE /\ view' = [view EXCEPT ![i] = FinishedStatus(runs[i], view[i])]
          /\ runs' = [runs EXCEPT ![i] = "finalizing"]
          /\ pc' = [pc EXCEPT ![i] = "finalize"]
          /\ UNCHANGED running
  /\ UNCHANGED <<ctxDone, waiters, persistMu, base, tgt, snap, histVars, boundVars, store, up>>

\* The finalizer returns (a panic is recovered): the same for both callers.
FinalizeRun(p, i, from, to) ==
  /\ up
  /\ Go(p, from, to)
  /\ finalCalls' = [finalCalls EXCEPT ![i] = @ + 1]
  /\ finalized' = finalized \cup {i}
  /\ UNCHANGED <<svcVars, tgt, view, snap, used, accepted, told, cancelWon, boundVars, store, up>>

CommitFinish(i) ==
  /\ up
  /\ pc[i] = "commit"
  /\ running' = [running EXCEPT ![i] = "none"]
  /\ IF runs[i] = "absent"
     THEN pc' = [pc EXCEPT ![i] = "done"] /\ UNCHANGED runs
     ELSE /\ runs' = [runs EXCEPT ![i] = view[i]]
          /\ pc' = [pc EXCEPT ![i] = "finPersist"]
  /\ UNCHANGED <<ctxDone, waiters, persistMu, base, tgt, view, snap, histVars, boundVars, store, up>>

\* notify: the observer gets the view the goroutine carries.
Notify(p, i, from, to) ==
  /\ up
  /\ Go(p, from, to)
  /\ told' = [told EXCEPT ![i] = IF view[p] \in Terminal THEN view[p] ELSE @]
  /\ UNCHANGED <<svcVars, tgt, view, snap, used, accepted, finalCalls, finalized, cancelWon, boundVars, store, up>>

Wake(p, i, from, to) ==
  /\ up
  /\ Go(p, from, to)
  /\ waiters' = [waiters EXCEPT ![i] = {}]
  /\ UNCHANGED <<runs, running, ctxDone, persistMu, base, tgt, view, snap,
                 histVars, boundVars, store, up>>
-----------------------------------------------------------------------------
(***************************************************************************)
(* Cancel                                                                  *)
(***************************************************************************)
\* A run that is terminal, already canceling or past its child is left alone:
\* Cancel then returns changed = false, which changes nothing.
\* CancelableTwice is a mutant: "canceling" may be canceled again.
CancelableTwice(i) == runs[i] \notin Terminal \cup {"absent"} /\ running[i] # "exiting"

Cancelable(i) == /\ runs[i] \notin Terminal \cup {"absent", "canceling"}
                 /\ running[i] # "exiting"

\* Mutant of MarkCanceled: a run with a goroutine is finalized at once.
MarkCanceledAtOnce(c, i) ==
  /\ up
  /\ Cancelable(i)
  /\ Go(c, "idle", "canView")
  /\ tgt' = [tgt EXCEPT ![c] = i]
  /\ view' = [view EXCEPT ![c] = "canceling"]
  /\ runs' = [runs EXCEPT ![i] = "canceling"]
  /\ cancelWon' = cancelWon \cup {i}
  /\ ctxDone' = [ctxDone EXCEPT ![i] = running[i] # "none"]
  /\ UNCHANGED <<running, waiters, persistMu, base, snap,
                 used, accepted, told, finalCalls, finalized, boundVars, store, up>>
MarkCanceled(c, i) ==
  /\ up
  /\ Cancelable(i)
  /\ pc[c] = "idle"
  /\ tgt' = [tgt EXCEPT ![c] = i]
  /\ view' = [view EXCEPT ![c] = "canceling"]
  /\ runs' = [runs EXCEPT ![i] = "canceling"]
  /\ cancelWon' = cancelWon \cup {i}
  /\ IF running[i] # "none"
     THEN /\ ctxDone' = [ctxDone EXCEPT ![i] = TRUE]
          /\ pc' = [pc EXCEPT ![c] = "canPersist"]
     ELSE pc' = [pc EXCEPT ![c] = "canView"] /\ UNCHANGED ctxDone
  /\ UNCHANGED <<running, waiters, persistMu, base, snap,
                 used, accepted, told, finalCalls, finalized, boundVars, store, up>>

\* finalizeCanceledRun, first critical section.
CancelView(c) ==
  /\ up
  /\ Go(c, "canView", IF runs[tgt[c]] = "absent" THEN "idle" ELSE "canFinalize")
  /\ UNCHANGED <<svcVars, tgt, view, snap, histVars, boundVars, store, up>>

\* finalizeCanceledRun, second critical section.
CancelStore(c) ==
  /\ up
  /\ pc[c] = "canStore"
  /\ IF runs[tgt[c]] = "absent"
     THEN pc' = [pc EXCEPT ![c] = "idle"] /\ UNCHANGED <<runs, view>>
     ELSE /\ runs' = [runs EXCEPT ![tgt[c]] = "canceled"]
          /\ view' = [view EXCEPT ![c] = "canceled"]
          /\ pc' = [pc EXCEPT ![c] = "canPersist"]
  /\ UNCHANGED <<running, ctxDone, waiters, persistMu, base, tgt, snap,
                 histVars, boundVars, store, up>>
-----------------------------------------------------------------------------
(***************************************************************************)
(* Wait: look at the run and register a channel in one critical section.   *)
(***************************************************************************)
\* A Wait that finds no run, or a terminal one, returns and changes nothing.
WaitCall(c, i) ==
  /\ up
  /\ runs[i] \notin Terminal \cup {"absent"}
  /\ Go(c, "idle", "waiting")
  /\ tgt' = [tgt EXCEPT ![c] = i]
  /\ waiters' = [waiters EXCEPT ![i] = @ \cup {c}]
  /\ UNCHANGED <<runs, running, ctxDone, persistMu, base, view, snap,
                 histVars, boundVars, store, up>>

\* The channel was closed: the loop looks again.
WaitWoken(c) ==
  /\ up
  /\ pc[c] = "waiting"
  /\ c \notin waiters[tgt[c]]
  /\ IF runs[tgt[c]] \in Terminal \cup {"absent"}
     THEN pc' = [pc EXCEPT ![c] = "idle"] /\ UNCHANGED waiters
     ELSE waiters' = [waiters EXCEPT ![tgt[c]] = @ \cup {c}] /\ UNCHANGED pc
  /\ UNCHANGED <<runs, running, ctxDone, persistMu, base, tgt, view, snap,
                 histVars, boundVars, store, up>>

\* The caller's context ended: removeWaiter, return its error.
WaitGiveUp(c) ==
  /\ up
  /\ Go(c, "waiting", "idle")
  /\ waiters' = [waiters EXCEPT ![tgt[c]] = @ \ {c}]
  /\ UNCHANGED <<runs, running, ctxDone, persistMu, base, tgt, view, snap,
                 histVars, boundVars, store, up>>
-----------------------------------------------------------------------------
(***************************************************************************)
(* Start, Close, crash, and the restart by NewService.                     *)
(***************************************************************************)
Start ==
  /\ up
  /\ base = "none"
  /\ base' = "live"
  /\ UNCHANGED <<runs, running, ctxDone, waiters, persistMu, procVars,
                 histVars, boundVars, store, up>>

CloseCancel(c) ==
  /\ up
  /\ Go(c, "idle", "clStop")
  /\ base' = IF base = "none" THEN "none" ELSE "canceled"
  /\ UNCHANGED <<runs, running, ctxDone, waiters, persistMu, tgt, view, snap,
                 histVars, boundVars, store, up>>

StopAllRunning(c) ==
  /\ up
  /\ Go(c, "clStop", "clWait")
  /\ ctxDone' = [i \in RunIDs |-> ctxDone[i] \/ running[i] = "active"]
  /\ UNCHANGED <<runs, running, waiters, persistMu, base, tgt, view, snap,
                 histVars, boundVars, store, up>>

\* wg.Wait: no goroutine of a run is left.
CloseWaited(c) ==
  /\ up
  /\ \A i \in RunIDs : pc[i] \in {"none", "done"}
  /\ Go(c, "clWait", "clPersist")
  /\ UNCHANGED <<svcVars, tgt, view, snap, histVars, boundVars, store, up>>

IdlePC == [p \in Procs |-> IF p \in RunIDs THEN "none" ELSE "idle"]

\* Everything but the Store is lost.
Crash ==
  /\ up
  /\ crashes < MaxCrashes
  /\ crashes' = crashes + 1
  /\ up' = FALSE
  /\ runs' = NoRuns
  /\ running' = [i \in RunIDs |-> "none"]
  /\ ctxDone' = [i \in RunIDs |-> FALSE]
  /\ waiters' = [i \in RunIDs |-> {}]
  /\ persistMu' = None /\ snap' = [p \in Procs |-> NoRuns]
  /\ base' = "none"
  /\ pc' = IdlePC
  /\ finalCalls' = [i \in RunIDs |-> 0]
  /\ cancelWon' = {}
  /\ UNCHANGED <<tgt, view, used, accepted, told, finalized, failures, store>>

\* normalizeLoadedRuns: what a run that was not terminal becomes.
Normalized(st) == IF st \in Terminal \cup {"absent"} THEN st ELSE "failed"

\* NewService: load, normalize (the finalizer runs for each changed run),
\* persist if anything changed; when that Save fails there is no service.
NewService ==
  /\ ~up
  /\ LET interrupted == {i \in RunIDs : Normalized(store[i]) # store[i]}
         loaded      == [i \in RunIDs |-> Normalized(store[i])]
     IN  /\ finalized' = finalized \cup interrupted
         /\ \/ /\ runs' = loaded /\ store' = loaded /\ up' = TRUE
               /\ finalCalls' = [i \in RunIDs |-> IF i \in interrupted THEN 1 ELSE 0]
               /\ UNCHANGED failures
            \/ /\ interrupted # {}
               /\ failures < MaxFailures
               /\ failures' = failures + 1
               /\ UNCHANGED <<runs, store, up, finalCalls>>
  /\ UNCHANGED <<running, ctxDone, waiters, persistMu, base, procVars,
                 used, accepted, told, cancelWon, crashes>>
-----------------------------------------------------------------------------
Init ==
  /\ runs = NoRuns
  /\ running = [i \in RunIDs |-> "none"]
  /\ ctxDone = [i \in RunIDs |-> FALSE]
  /\ waiters = [i \in RunIDs |-> {}]
  /\ persistMu = None
  /\ base = "none"
  /\ store = NoRuns
  /\ up = TRUE
  /\ pc = IdlePC
  /\ tgt \in [Clients -> RunIDs]
  /\ view = [p \in Procs |-> "ok"]
  /\ snap = [p \in Procs |-> NoRuns]
  /\ failures = 0 /\ crashes = 0
  /\ used = {} /\ accepted = {} /\ cancelWon = {} /\ finalized = {}
  /\ told = [i \in RunIDs |-> "none"]
  /\ finalCalls = [i \in RunIDs |-> 0]

\* What the goroutine of run i does.
Worker(i) ==
  \/ MarkRunning(i) \/ NotifyRunning(i) \/ FailPersisted(i)
  \/ \E r \in ChildResult : ChildReturn(i, r)
  \/ MarkExiting(i) \/ FinishRun(i)
  \/ FinalizeRun(i, i, "finalize", "commit")
  \/ CommitFinish(i)
  \/ Notify(i, i, "finNotify", "finWake")
  \/ Wake(i, i, "finWake", "done")

\* What a client in the middle of a call does next.
ClientStep(c) ==
  \/ SpawnRollback(c) \/ SpawnLaunch(c)
  \/ CancelView(c)
  \/ FinalizeRun(c, tgt[c], "canFinalize", "canStore")
  \/ CancelStore(c)
  \/ Notify(c, tgt[c], "canNotify", "canWake")
  \/ Wake(c, tgt[c], "canWake", "idle")
  \/ WaitWoken(c)
  \/ StopAllRunning(c) \/ CloseWaited(c)

\* The calls a client may make, and the end of a Wait's context.
ClientCall(c) ==
  \/ \E i \in RunIDs : SpawnInsert(c, i) \/ MarkCanceled(c, i) \/ WaitCall(c, i)
  \/ WaitGiveUp(c)
  \/ CloseCancel(c)

Persist(p) == PersistSnapshot(p) \/ PersistSave(p)

Next ==
  \/ \E p \in Procs : Persist(p)
  \/ \E i \in RunIDs : Worker(i)
  \/ \E c \in Clients : ClientStep(c) \/ ClientCall(c)
  \/ Start \/ Crash \/ NewService

Spec == Init /\ [][Next]_vars

(***************************************************************************)
(* The service's goroutines are scheduled fairly and the Store, finalizer  *)
(* and observer return.  The child runner is only assumed to return once   *)
(* its context is canceled; no client is assumed to call anything.         *)
(***************************************************************************)
WorkerRuns(i) == Worker(i) /\ (pc[i] = "child" => CtxDone(i))

FairSpec ==
  /\ Spec
  /\ \A p \in Procs : SF_vars(Persist(p))
  /\ \A i \in RunIDs : WF_vars(WorkerRuns(i))
  /\ \A c \in Clients : WF_vars(ClientStep(c))
-----------------------------------------------------------------------------
ServiceType ==
  /\ runs \in [RunIDs -> StatusOrAbsent]
  /\ running \in [RunIDs -> {"none", "active", "exiting"}]
  /\ ctxDone \in [RunIDs -> BOOLEAN]
  /\ waiters \in [RunIDs -> SUBSET Clients]
  /\ persistMu \in Procs \cup {None}
  /\ base \in {"none", "live", "canceled"}
  /\ store \in [RunIDs -> StatusOrAbsent]
  /\ up \in BOOLEAN

PCType ==
  /\ pc \in [Procs -> WorkerPC \cup ClientPC]
  /\ \A i \in RunIDs : pc[i] \in WorkerPC
  /\ \A c \in Clients : pc[c] \in ClientPC

LocalType ==
  /\ tgt \in [Clients -> RunIDs]
  /\ view \in [Procs -> Status \cup ChildResult]
  /\ snap \in [Procs -> [RunIDs -> StatusOrAbsent]]

HistoryType ==
  /\ failures \in Nat /\ crashes \in Nat
  /\ used \subseteq RunIDs /\ accepted \subseteq RunIDs
  /\ cancelWon \subseteq RunIDs /\ finalized \subseteq RunIDs
  /\ told \in [RunIDs -> Terminal \cup {"none"}]
  /\ finalCalls \in [RunIDs -> Nat]

\* Every field of Service, every local of a call and every stored status has its
\* type: the statuses are the declared ones, also after a restart.
TypeOK == ServiceType /\ PCType /\ LocalType /\ HistoryType

(***************************************************************************)
(* Safety.                                                                 *)
(***************************************************************************)
\* The goroutine of run i has its child in front of it or under way.
ChildAhead(i) == pc[i] \in {"runPersist", "runSave", "runNotify", "child"}

\* "StatusCanceled means the child agent exited after cancellation", and the
\* same of the other terminal statuses: no run is terminal in Service.runs
\* while its goroutine still has the child to run.
TerminalMeansExited ==
  up => \A i \in RunIDs : runs[i] \in Terminal => ~ChildAhead(i)

\* "Observer receives lifecycle updates after they have been persisted": once
\* OnRunUpdate has reported a terminal status of an accepted run, the Store
\* holds that status, whatever is saved, canceled or restarted afterwards.
ObservedTerminalIsDurable ==
  \A i \in accepted : told[i] # "none" => store[i] = told[i]

\* "IsTerminal reports whether the status will no longer change under normal
\* execution": no later critical section of a running service moves an
\* accepted run out of a terminal status.
TerminalIsFinal ==
  [][\A i \in accepted :
       (up /\ up' /\ runs[i] \in Terminal) => runs'[i] = runs[i]]_vars

\* A Save never takes a terminal status of an accepted run back: persistMu
\* orders the snapshots, so an older one never overwrites a newer one.
StoredTerminalIsFinal ==
  [][\A i \in accepted : store[i] \in Terminal => store'[i] = store[i]]_vars

\* "Finalizer attaches metadata after the child agent exits and before the
\* terminal run is persisted and observed": it was called for every run that is
\* terminal in the map or the Store, and a process calls it once for a run,
\* though finishRun, Cancel and the restart may all want to.
FinalizedOnce ==
  \A i \in RunIDs :
    /\ finalCalls[i] <= 1
    /\ (up /\ runs[i] \in Terminal) \/ store[i] \in Terminal => i \in finalized

\* A Cancel that reported changed = true is never answered by "completed".
CancelSticks == up => \A i \in cancelWon : runs[i] # "completed"

(***************************************************************************)
(* Liveness.                                                               *)
(***************************************************************************)
\* No lost wakeup: a Wait on an accepted run returns once the run is terminal or
\* bound to become so (Wait registers its channel before wake collects them).
WaitReturns ==
  \A c \in Clients :
    (up /\ pc[c] = "waiting" /\ tgt[c] \in accepted
        /\ runs[tgt[c]] \in Terminal \cup {"canceling", "finalizing"})
      ~> (~up \/ pc[c] = "idle")

\* Close of a started service returns: the canceled children exit and every
\* goroutine finishes, those a racing Spawn still launches too.
CloseReturns ==
  \A c \in Clients :
    (up /\ pc[c] = "clWait" /\ base = "canceled") ~> (~up \/ pc[c] = "idle")
=============================================================================
