----------------------------- MODULE CronService -----------------------------
(***************************************************************************)
(* The scheduler of OpenClaw (openclaw/internal/cron/service.go): a loop    *)
(* starts the jobs that are due, each execution runs in a goroutine of its  *)
(* own, users add, patch, remove and run jobs, and every change is written  *)
(* to one file, from which the next process starts.                         *)
(*                                                                         *)
(* A step is one critical section of Service.mu, one half of persist (the   *)
(* copy of the jobs, the write), or one call made without a lock: the       *)
(* agent's run, the delivery of its answer.  A cron expression is an        *)
(* interval; texts, statistics, timeouts and profiles are data no guard     *)
(* reads.  A RunCount is kept only where a MaxRuns bounds it.               *)
(***************************************************************************)
EXTENDS Integers, FiniteSets

CONSTANTS
  Jobs,           \* ids that Add may assign; none is assigned twice
  Schedules,      \* what a user may ask for
  Clients,        \* goroutines that call Add, Update, Remove and RunNow
  Tokens,         \* bound: executions in flight; an ended one's token is free again
  Loop, Closer,   \* the goroutine of Start, the caller of Close
  None,           \* no time, process, token or call
  MaxTime,        \* bound: the clock
  MaxEvents       \* bound: calls of users, failed saves and restarts together

Procs == {Loop, Closer} \cup Clients \cup Tokens

ASSUME ProcAssumption ==
  /\ Loop # Closer /\ {Loop, Closer} \cap (Clients \cup Tokens) = {}
  /\ Clients \cap Tokens = {} /\ None \notin Procs \cup Int
ASSUME ScheduleAssumption ==
  Schedules \subseteq [kind : {"at", "every"}, time : Nat \ {0}, maxRuns : Nat,
                       endsAt : Nat \cup {None}, overlap : {"skip", "replace"}]
ASSUME BoundAssumption ==
  /\ MaxTime \in Nat \ {0} /\ MaxEvents \in Nat
  /\ IsFiniteSet(Jobs) /\ IsFiniteSet(Tokens)

VARIABLES
  jobs,       \* Service.jobs: schedule, Enabled, NextRunAt and RunCount by id
  running,    \* Service.running: the token registered for a job
  canceled,   \* tokens whose own context was canceled
  suppressed, \* tokens registered with suppressDelivery
  stopping,   \* the context of the loop was canceled
  persistMu,  \* the holder of persistMu
  snap,       \* the jobs it is writing
  file,       \* the jobs on disk
  pc,         \* what each goroutine does next; an execution is its token's goroutine
  exec,       \* the execution behind a token
  call,       \* what a client carries from one critical section to the next
  now,        \* the clock
  events,     \* calls, failed saves and restarts so far
  used,       \* ids assigned so far
  patched,    \* history: whether an Update of a job was committed, and of what it knew
  withdrawn,  \* history: executions whose job was removed, disabled, replaced or closed
  begun,      \* history: scheduled executions begun of jobs with a MaxRuns
  slots,      \* history: the slots this process began of jobs nobody patched
  unsaved,    \* history: the last save failed
  rolledBack, \* history: RunNow took a registration back
  tainted     \* history: a process ended with unsaved

svcVars   == <<jobs, running, canceled, suppressed, stopping>>
diskVars  == <<persistMu, snap, file>>
procVars  == <<pc, exec, call>>
boundVars == <<now, events>>
histVars  == <<used, patched, withdrawn, begun, slots, unsaved, rolledBack, tainted>>
vars == <<svcVars, diskVars, procVars, boundVars, histVars>>

Times == Nat \cup {None}
JobType  == [sched : Schedules, enabled : BOOLEAN, next : Times, count : Nat]
ExecType == [job : Jobs, scheduled : BOOLEAN, slot : Times, began : Times, late : BOOLEAN]
IsJobMap(m) == DOMAIN m \subseteq Jobs /\ \A j \in DOMAIN m : m[j] \in JobType
NoJobs   == [j \in {} |-> None]
Draft    == [job : Jobs, seen : JobType, next : JobType]

Without(f, D) == [x \in DOMAIN f \ D |-> f[x]]
With(f, x, v) == [y \in DOMAIN f \cup {x} |-> IF y = x THEN v ELSE f[y]]
Go(p, from, to) == pc[p] = from /\ pc' = [pc EXCEPT ![p] = to]
-----------------------------------------------------------------------------
(***************************************************************************)
(* Schedules and policies                                                  *)
(***************************************************************************)
\* Mutant of LimitReached: one run too many.
LimitReachedLate(job) == job.sched.maxRuns > 0 /\ job.count > job.sched.maxRuns
LimitReached(job)    == job.sched.maxRuns > 0 /\ job.count >= job.sched.maxRuns
WindowClosed(job, t) == job.sched.endsAt # None /\ job.sched.endsAt <= t
Exhausted(job, t)    == job.enabled /\ (LimitReached(job) \/ WindowClosed(job, t))

Off(job) == [job EXCEPT !.enabled = FALSE, !.next = None]
Retire(job, t) == IF Exhausted(job, t) THEN Off(job) ELSE job

NextRunAllowed(job, next, t) ==
  /\ ~LimitReached(job) /\ ~WindowClosed(job, t)
  /\ next # None /\ job.sched.endsAt # None => next < job.sched.endsAt

ApplyNextRunPolicy(job, next, t) ==
  IF NextRunAllowed(job, next, t)
  THEN [job EXCEPT !.next = next, !.enabled = @ /\ next # None]
  ELSE Off(job)

InitialNextRun(sched, t) == IF sched.kind = "at" THEN sched.time ELSE t + sched.time

\* The first slot after t that keeps the cadence of base.
NextAfterRun(sched, base, t) ==
  LET next == base + sched.time
  IN  IF sched.kind = "at" THEN None
      ELSE IF next > t THEN next
      ELSE next + ((t - next) \div sched.time + 1) * sched.time

Normalized(job, t) ==
  IF job.enabled THEN ApplyNextRunPolicy(job, InitialNextRun(job.sched, t), t)
                 ELSE [job EXCEPT !.next = None]

NewJob(sched, t) ==
  Normalized([sched |-> sched, enabled |-> TRUE, next |-> None, count |-> 0], t)

Loaded(saved, t) ==
  [j \in DOMAIN saved |->
     IF saved[j].enabled /\ saved[j].next # None
     THEN ApplyNextRunPolicy(saved[j], saved[j].next, t)
     ELSE Normalized(saved[j], t)]

Counted(job) == IF job.sched.maxRuns = 0 THEN job ELSE [job EXCEPT !.count = @ + 1]
-----------------------------------------------------------------------------
(***************************************************************************)
(* Executions                                                              *)
(***************************************************************************)
Unused == {t \in Tokens : pc[t] = "unused"}

\* From its registration to finishRun.
InFlight(t) == pc[t] \in {"marked", "begin", "run", "deliver"}
InFlightOf(D) == {t \in Tokens : InFlight(t) /\ exec[t].job \in D}

\* Mutant of CtxDone: scheduled runs are not children of the loop's context.
CtxDoneDetached(t) == t \in canceled
CtxDone(t) == t \in canceled \/ (stopping /\ exec[t].scheduled)

Registered(D) == {running[j] : j \in D \cap DOMAIN running}

\* late is history: a manual run that Close did not find when it stopped the others.
Mark(j, scheduled, slot) ==
  [job |-> j, scheduled |-> scheduled, slot |-> slot, began |-> None,
   late |-> ~scheduled /\ pc[Closer] # "open"]

\* The token and what is known of it are forgotten.
Free(t) ==
  /\ exec' = [exec EXCEPT ![t] = None]
  /\ canceled' = canceled \ {t}
  /\ suppressed' = suppressed \ {t}
  /\ withdrawn' = withdrawn \ {t}
-----------------------------------------------------------------------------
(***************************************************************************)
(* persist: copy the jobs under persistMu and mu, then write the file.     *)
(***************************************************************************)
\* Mutant of Snapshot: persistMu is not taken.
SnapshotUnlocked(p) ==
  /\ pc[p] \in {"persist", "persistRun"}
  /\ snap' = [snap EXCEPT ![p] = jobs]
  /\ pc' = [pc EXCEPT ![p] = IF @ = "persist" THEN "save" ELSE "saveRun"]
  /\ UNCHANGED <<svcVars, persistMu, file, exec, call, boundVars, histVars>>

Snapshot(p) ==
  /\ pc[p] \in {"persist", "persistRun"}
  /\ persistMu = None
  /\ persistMu' = p
  /\ snap' = [snap EXCEPT ![p] = jobs]
  /\ pc' = [pc EXCEPT ![p] = IF @ = "persist" THEN "save" ELSE "saveRun"]
  /\ UNCHANGED <<svcVars, file, exec, call, boundVars, histVars>>

\* One more call, failed save or restart.
Event == events < MaxEvents /\ events' = events + 1

Written(p) == file' = snap[p] /\ unsaved' = FALSE /\ UNCHANGED events
NotWritten == Event /\ unsaved' = TRUE /\ UNCHANGED file

\* What every write does besides: the lock and the copy are given up.
Save(p) ==
  /\ pc[p] \in {"save", "saveRun"}
  /\ persistMu' = None
  /\ snap' = [snap EXCEPT ![p] = NoJobs]
  /\ UNCHANGED <<now, used, patched, begun, slots, rolledBack, tainted>>
-----------------------------------------------------------------------------
(***************************************************************************)
(* The loop                                                                *)
(***************************************************************************)
IsDue(j) ==
  /\ jobs[j].enabled /\ ~Exhausted(jobs[j], now)
  /\ jobs[j].next # None /\ jobs[j].next <= now

\* A job whose run is still in flight is skipped or replaced.
\* Mutant of StartNow: it is started next to the run.
StartNowAnyway == {j \in DOMAIN jobs : IsDue(j)}
StartNow ==
  {j \in DOMAIN jobs : IsDue(j) /\ (j \in DOMAIN running => jobs[j].sched.overlap = "replace")}

ReplacedRuns == Registered(StartNow)

\* The loop comes here when it starts and at every tick.
\* Every due job is registered and counted in one critical section.
TriggerDue ==
  LET start == StartNow
      token == CHOOSE f \in [start -> Unused] : \A j, k \in start : f[j] = f[k] => j = k
      mine(t) == {j \in start : token[j] = t}
  IN
  /\ pc[Loop] \in {"trigger", "select"}
  /\ Cardinality(start) <= Cardinality(Unused)
  /\ jobs' = [j \in DOMAIN jobs |->
                IF j \in start THEN Counted(jobs[j]) ELSE Retire(jobs[j], now)]
  /\ running' = [j \in DOMAIN running \cup start |->
                   IF j \in start THEN token[j] ELSE running[j]]
  /\ canceled' = canceled \cup ReplacedRuns
  /\ suppressed' = suppressed \cup ReplacedRuns
  /\ withdrawn' = withdrawn \cup InFlightOf(start)
  /\ exec' = [t \in Tokens |-> IF mine(t) = {} THEN exec[t]
                               ELSE LET j == CHOOSE j \in mine(t) : TRUE
                                    IN  Mark(j, TRUE, jobs[j].next)]
  /\ pc' = [p \in Procs |-> IF p = Loop THEN IF jobs' = jobs /\ start = {} THEN "select"
                                             ELSE "persist"
                            ELSE IF p \in Tokens /\ mine(p) # {} THEN "marked" ELSE pc[p]]
  /\ UNCHANGED <<stopping, diskVars, call, boundVars, used, patched, begun, slots, unsaved, rolledBack,
                 tainted>>

\* Whether the save failed or not, the goroutines are started.
LoopSaved ==
  /\ Save(Loop)
  /\ Written(Loop) \/ NotWritten
  /\ pc' = [p \in Procs |->
              IF p = Loop THEN "select"
              ELSE IF p \in Tokens /\ pc[p] = "marked" /\ exec[p].scheduled THEN "begin"
              ELSE pc[p]]
  /\ UNCHANGED <<svcVars, exec, call, withdrawn>>

LoopExits ==
  /\ stopping
  /\ Go(Loop, "select", "exited")
  /\ UNCHANGED <<svcVars, diskVars, exec, call, boundVars, histVars>>
-----------------------------------------------------------------------------
(***************************************************************************)
(* An execution: executeJob and finishRun                                  *)
(***************************************************************************)
\* It reads the clock and calls the agent.
Begin(t) ==
  LET x == exec[t] IN
  /\ Go(t, "begin", "run")
  /\ exec' = [exec EXCEPT ![t].began = now]
  /\ slots' = [slots EXCEPT ![x.job] =
                 IF x.scheduled /\ patched[x.job] = "never" THEN @ \cup {x.slot} ELSE @]
  /\ begun' = [begun EXCEPT ![x.job] =
                 IF x.scheduled /\ x.job \in DOMAIN jobs /\ jobs[x.job].sched.maxRuns > 0
                 THEN @ + 1 ELSE @]
  /\ UNCHANGED <<svcVars, diskVars, call, boundVars, used, patched, withdrawn, unsaved, rolledBack, tainted>>

IsRegistered(t) == exec[t].job \in DOMAIN running /\ running[exec[t].job] = t

\* Mutant of DeliveryAllowed: any registered run of the job may deliver.
DeliveryAllowedToAny(t) ==
  exec[t].job \in DOMAIN running /\ running[exec[t].job] \notin suppressed
DeliveryAllowed(t) == IsRegistered(t) /\ t \notin suppressed

\* The agent has an answer, and the run is asked for once more before it is sent.
Deliver(t) ==
  /\ Go(t, "run", "deliver")
  /\ DeliveryAllowed(t)
  /\ UNCHANGED <<svcVars, diskVars, exec, call, boundVars, histVars>>

Finished(job, x) ==
  IF x.scheduled
  THEN LET base == IF job.next = None THEN x.slot ELSE job.next
       IN  ApplyNextRunPolicy(job, NextAfterRun(job.sched, base, x.began), x.began)
  ELSE ApplyNextRunPolicy(job, job.next, x.began)

\* Mutant of Deregister: the registration of a removed job stays.
DeregisterKnown(t) ==
  running' = IF IsRegistered(t) /\ exec[t].job \in DOMAIN jobs
             THEN Without(running, {exec[t].job}) ELSE running
\* Mutant of Deregister: the token is not compared.
DeregisterAny(t) == running' = Without(running, {exec[t].job})
Deregister(t) ==
  running' = IF IsRegistered(t) \/ exec[t].job \notin DOMAIN jobs
             THEN Without(running, {exec[t].job}) ELSE running

\* The answer is sent, or there is none, or none that may be sent.
FinishRun(t) ==
  LET j == exec[t].job IN
  /\ pc[t] \in {"run", "deliver"}
  /\ IF j \in DOMAIN jobs /\ IsRegistered(t)
     THEN jobs' = [jobs EXCEPT ![j] = Finished(@, exec[t])] /\ pc' = [pc EXCEPT ![t] = "persist"]
     ELSE pc' = [pc EXCEPT ![t] = "unused"] /\ UNCHANGED jobs
  /\ Deregister(t)
  /\ Free(t)
  /\ UNCHANGED <<stopping, diskVars, call, boundVars, used, patched, begun, slots, unsaved, rolledBack,
                 tainted>>

RunSaved(t) ==
  /\ Save(t)
  /\ Written(t) \/ NotWritten
  /\ Go(t, "save", "unused")
  /\ UNCHANGED <<svcVars, exec, call, withdrawn>>
-----------------------------------------------------------------------------
(***************************************************************************)
(* The users' calls                                                        *)
(***************************************************************************)
Calls(c) == pc[c] = "idle" /\ Event /\ UNCHANGED now

Add(c, j, sched) ==
  /\ Calls(c)
  /\ j \notin used
  /\ used' = used \cup {j}
  /\ jobs' = With(jobs, j, NewJob(sched, now))
  /\ Go(c, "idle", "persist")
  /\ UNCHANGED <<running, canceled, suppressed, stopping, diskVars, exec, call, patched,
                 withdrawn, begun, slots, unsaved, rolledBack, tainted>>

\* Remove takes one job, RemoveForUser all of a scope.  Their runs stay registered.
Remove(c, D) ==
  /\ Calls(c)
  /\ jobs' = Without(jobs, D)
  /\ canceled' = canceled \cup Registered(D)
  /\ suppressed' = suppressed \cup Registered(D)
  /\ withdrawn' = withdrawn \cup InFlightOf(D)
  /\ Go(c, "idle", "persist")
  /\ UNCHANGED <<running, stopping, diskVars, exec, call, used, patched, begun, slots, unsaved, rolledBack,
                 tainted>>

\* Update copies the job under the lock, patches the copy without it ...
UpdateReads(c, j, patch) ==
  /\ Calls(c)
  /\ call' = [call EXCEPT ![c] =
       [job |-> j, seen |-> jobs[j],
        next |-> Normalized([jobs[j] EXCEPT !.enabled = CASE patch = "enable"  -> TRUE
                                                          [] patch = "disable" -> FALSE
                                                          [] OTHER             -> @], now)]]
  /\ Go(c, "idle", "update")
  /\ UNCHANGED <<svcVars, diskVars, exec, histVars>>

\* ... and puts it back, whatever has become of the job meanwhile.
UpdateWrites(c) ==
  LET j    == call[c].job
      next == call[c].next
      off  == IF next.enabled THEN {} ELSE {j}
  IN
  /\ Go(c, "update", "persist")
  /\ call' = [call EXCEPT ![c] = None]
  /\ jobs' = With(jobs, j, next)
  /\ suppressed' = suppressed \cup Registered(off)
  /\ withdrawn' = withdrawn \cup InFlightOf(off)
  /\ patched' = [patched EXCEPT ![j] =
                   IF j \in DOMAIN jobs /\ jobs[j] = call[c].seen /\ @ # "overtaken"
                   THEN "clean" ELSE "overtaken"]
  /\ slots' = [slots EXCEPT ![j] = {}]
  /\ UNCHANGED <<running, canceled, stopping, diskVars, exec, boundVars, used, begun, unsaved,
                 rolledBack, tainted>>

ClientSaved(c) ==
  /\ Save(c)
  /\ Written(c) \/ NotWritten
  /\ Go(c, "save", "idle")
  /\ UNCHANGED <<svcVars, exec, call, withdrawn>>

\* RunNow on a job that may not run any more retires it, and saves nothing.
RunNowRefused(c, j) ==
  /\ Calls(c)
  /\ j \notin DOMAIN running
  /\ Exhausted(jobs[j], now)
  /\ jobs' = [jobs EXCEPT ![j] = Off(@)]
  /\ UNCHANGED <<running, canceled, suppressed, stopping, diskVars, procVars, histVars>>

RunNow(c, j) ==
  LET t == CHOOSE t \in Unused : TRUE IN
  /\ Calls(c)
  /\ j \notin DOMAIN running
  /\ ~Exhausted(jobs[j], now)
  /\ Unused # {}
  /\ jobs' = [jobs EXCEPT ![j] = Counted(@)]
  /\ running' = With(running, j, t)
  /\ exec' = [exec EXCEPT ![t] = Mark(j, FALSE, None)]
  /\ call' = [call EXCEPT ![c] = t]
  /\ pc' = [pc EXCEPT ![c] = "persistRun", ![t] = "marked"]
  /\ UNCHANGED <<canceled, suppressed, stopping, diskVars, histVars>>

RunNowSaved(c) ==
  /\ Save(c)
  /\ pc[c] = "saveRun"
  /\ \/ /\ Written(c)
        /\ pc' = [pc EXCEPT ![c] = "idle", ![call[c]] = "begin"]
        /\ call' = [call EXCEPT ![c] = None]
     \/ /\ NotWritten
        /\ pc' = [pc EXCEPT ![c] = "rollback"]
        /\ UNCHANGED call
  /\ UNCHANGED <<svcVars, exec, withdrawn>>

\* The registration of the job is deleted, whosever it is by now.
RunNowRollback(c) ==
  LET t == call[c]
      j == exec[t].job
  IN
  /\ pc[c] = "rollback"
  /\ pc' = [pc EXCEPT ![c] = "idle", ![t] = "unused"]
  /\ running' = Without(running, {j})
  /\ jobs' = [k \in DOMAIN jobs |->
                IF k = j /\ jobs[k].count > 0 THEN [jobs[k] EXCEPT !.count = @ - 1] ELSE jobs[k]]
  /\ Free(t)
  /\ call' = [call EXCEPT ![c] = None]
  /\ rolledBack' = TRUE
  /\ UNCHANGED <<stopping, diskVars, boundVars, used, patched, begun, slots, unsaved, tainted>>
-----------------------------------------------------------------------------
(***************************************************************************)
(* Close                                                                   *)
(***************************************************************************)
\* Mutant of StopAllRuns: the runs are told not to deliver, but go on.
StopAllRunsQuietly == suppressed' = suppressed \cup Registered(DOMAIN running) /\ UNCHANGED canceled
StopAllRuns ==
  /\ suppressed' = suppressed \cup Registered(DOMAIN running)
  /\ canceled' = canceled \cup Registered(DOMAIN running)

CloseStops ==
  /\ Go(Closer, "open", "cancel")
  /\ StopAllRuns
  /\ withdrawn' = withdrawn \cup InFlightOf(Jobs)
  /\ UNCHANGED <<jobs, running, stopping, diskVars, exec, call, boundVars, used, patched, begun,
                 slots, unsaved, rolledBack, tainted>>

CloseCancels ==
  /\ Go(Closer, "cancel", "wait")
  /\ stopping' = TRUE
  /\ UNCHANGED <<jobs, running, canceled, suppressed, diskVars, exec, call, boundVars, histVars>>

CloseWaited ==
  /\ pc[Loop] = "exited"
  /\ \A t \in Tokens : pc[t] \in {"unused", "marked"}
  /\ Go(Closer, "wait", "persist")
  /\ UNCHANGED <<svcVars, diskVars, exec, call, boundVars, histVars>>

CloseSaved ==
  /\ Save(Closer)
  /\ Written(Closer) \/ NotWritten
  /\ Go(Closer, "save", "closed")
  /\ UNCHANGED <<svcVars, exec, call, withdrawn>>
-----------------------------------------------------------------------------
FirstPC == [p \in Procs |-> CASE p = Loop -> "trigger" [] p = Closer -> "open"
                              [] p \in Clients -> "idle" [] OTHER -> "unused"]

\* The process ends, at any point or after Close, and NewService and Start begin the next.
Restart ==
  /\ Event
  /\ jobs' = Loaded(file, now)
  /\ running' = NoJobs /\ canceled' = {} /\ suppressed' = {} /\ stopping' = FALSE
  /\ persistMu' = None /\ snap' = [p \in Procs |-> NoJobs]
  /\ pc' = FirstPC
  /\ exec' = [t \in Tokens |-> None] /\ call' = [c \in Clients |-> None]
  /\ withdrawn' = {} /\ slots' = [j \in Jobs |-> {}]
  /\ unsaved' = FALSE /\ rolledBack' = FALSE /\ tainted' = (tainted \/ unsaved)
  /\ UNCHANGED <<file, now, used, patched, begun>>

Tick ==
  /\ now < MaxTime
  /\ now' = now + 1
  /\ UNCHANGED <<svcVars, diskVars, procVars, events, histVars>>

\* What an earlier process left at time 0: for each job nothing, or one that was added.
Saved == UNION {[D -> {NewJob(sched, 0) : sched \in Schedules}] : D \in SUBSET Jobs}

Init ==
  /\ file \in Saved /\ jobs = Loaded(file, 1) /\ used = DOMAIN file
  /\ running = NoJobs /\ canceled = {} /\ suppressed = {} /\ stopping = FALSE
  /\ persistMu = None /\ snap = [p \in Procs |-> NoJobs]
  /\ pc = FirstPC
  /\ exec = [t \in Tokens |-> None] /\ call = [c \in Clients |-> None]
  /\ now = 1 /\ events = 0
  /\ patched = [j \in Jobs |-> "never"] /\ withdrawn = {}
  /\ begun = [j \in Jobs |-> 0] /\ slots = [j \in Jobs |-> {}]
  /\ unsaved = FALSE /\ rolledBack = FALSE /\ tainted = FALSE

LoopStep == TriggerDue \/ Snapshot(Loop) \/ LoopSaved \/ LoopExits
RunStep(t) == Begin(t) \/ Deliver(t) \/ FinishRun(t) \/ Snapshot(t) \/ RunSaved(t)
ClientStep(c) == UpdateWrites(c) \/ Snapshot(c) \/ ClientSaved(c) \/ RunNowSaved(c) \/ RunNowRollback(c)
CloseStep == CloseCancels \/ CloseWaited \/ Snapshot(Closer) \/ CloseSaved
Call(c) ==
  \/ \E j \in Jobs, sched \in Schedules : Add(c, j, sched)
  \/ \E D \in SUBSET DOMAIN jobs \ {{}} : Remove(c, D)
  \/ \E j \in DOMAIN jobs :
       \/ \E patch \in {"keep", "enable", "disable"} : UpdateReads(c, j, patch)
       \/ RunNow(c, j) \/ RunNowRefused(c, j)

Next ==
  \/ LoopStep \/ CloseStops \/ CloseStep \/ Restart \/ Tick
  \/ \E t \in Tokens : RunStep(t)
  \/ \E c \in Clients : ClientStep(c) \/ Call(c)

Spec == Init /\ [][Next]_vars

(***************************************************************************)
(* The loop, Close, and some one of the others proceed, an agent stops     *)
(* once its context is done, and the loop's select does not prefer the     *)
(* ticker for ever.  Nothing is assumed of users, of the call of Close, of *)
(* the clock, or of an agent left alone.                                   *)
(***************************************************************************)
Proceeds(t) ==
  \/ Begin(t) \/ Snapshot(t) \/ RunSaved(t)
  \/ (pc[t] = "deliver" \/ (pc[t] = "run" /\ CtxDone(t))) /\ FinishRun(t)

FairSpec ==
  /\ Spec
  /\ WF_pc(LoopStep) /\ SF_pc(LoopExits) /\ WF_pc(CloseStep)
  /\ WF_pc((\E t \in Tokens : Proceeds(t)) \/ (\E c \in Clients : ClientStep(c)))
-----------------------------------------------------------------------------
(***************************************************************************)
(* Properties                                                              *)
(***************************************************************************)
LoopPC   == {"trigger", "persist", "save", "select", "exited"}
ClosePC  == {"open", "cancel", "wait", "persist", "save", "closed"}
ClientPC == {"idle", "update", "persist", "save", "persistRun", "saveRun", "rollback"}
RunPC    == {"unused", "marked", "begin", "run", "deliver", "persist", "save"}

\* The shape of the service's state.  What is registered for a job is an execution of
\* it that is in flight (one that outlived it would keep the job busy for ever), and a
\* save under way is that of the holder of persistMu.
TypeOK ==
  /\ IsJobMap(jobs) /\ IsJobMap(file) /\ \A p \in Procs : IsJobMap(snap[p])
  /\ DOMAIN running \subseteq Jobs
  /\ \A j \in DOMAIN running :
       running[j] \in Tokens /\ InFlight(running[j]) /\ exec[running[j]].job = j
  /\ canceled \cup suppressed \cup withdrawn \subseteq Tokens
  /\ {stopping, unsaved, rolledBack, tainted} \subseteq BOOLEAN
  /\ persistMu \in Procs \cup {None}
  /\ \A p \in Procs : p = persistMu <=> pc[p] \in {"save", "saveRun"}
  /\ pc[Loop] \in LoopPC /\ pc[Closer] \in ClosePC
  /\ \A c \in Clients : /\ pc[c] \in ClientPC
                        /\ call[c] \in {None} \cup Tokens \cup Draft
  /\ \A t \in Tokens : /\ pc[t] \in RunPC
                       /\ exec[t] \in IF InFlight(t) THEN ExecType ELSE {None}
  /\ now \in 1..MaxTime /\ events \in 0..MaxEvents
  /\ used \subseteq Jobs /\ DOMAIN jobs \subseteq used
  /\ patched \in [Jobs -> {"never", "clean", "overtaken"}]
  /\ begun \in [Jobs -> Nat] /\ slots \in [Jobs -> SUBSET Nat]

\* Two executions of a job are never at work at once, unless one was told to stop:
\* a replaced or removed run that ends late must not take the registration of its
\* successor with it (finishRun's token).  Rolling back a failed save may.
OneAtATime ==
  ~rolledBack =>
    \A t, u \in Tokens : (InFlight(t) /\ InFlight(u) /\ exec[t].job = exec[u].job /\ t # u)
                           => CtxDone(t) \/ CtxDone(u)

\* "Optional maximum number of executions before the job disables itself", "No run
\* is scheduled at or after" EndsAt: also across restarts, because a run is counted
\* and saved before its goroutine starts, and whatever Update does in between,
\* unless an Update overtakes another change or the process ends with a save failed.
\* Only what the clock starts is limited: RunNow counts its run as well, but also
\* starts a job that has disabled itself.
WithinPolicy ==
  \A j \in DOMAIN jobs :
    LET sched == jobs[j].sched IN
    patched[j] # "overtaken" /\ ~tainted =>
      /\ sched.maxRuns > 0 => begun[j] <= sched.maxRuns
      /\ sched.endsAt # None =>
           \A t \in InFlightOf({j}) : exec[t].scheduled => exec[t].slot < sched.endsAt

\* One process begins a slot of an unpatched job that skips overlaps at most once,
\* whatever is run by hand, and however late executions end.
EachSlotOnce ==
  [][\A t \in Tokens :
       pc[t] = "begin" /\ pc'[t] = "run" /\ exec[t].scheduled =>
       LET j == exec[t].job IN
       j \in DOMAIN jobs /\ jobs[j].sched.overlap = "skip"
         => exec[t].slot \notin slots[j]]_vars

\* No answer is delivered of a run that was withdrawn before it asked for leave:
\* removed, disabled, replaced, or in flight when Close began.  The map knows only
\* the last run of a job; the others must find out by their token.
NoUnwantedDelivery ==
  [][\A t \in Tokens : pc[t] = "run" /\ pc'[t] = "deliver" => t \notin withdrawn]_vars

\* When no goroutine has something left to save, a process that starts now resumes
\* what this one would go on with: every change was followed by a copy, and an
\* older copy never overwrites a newer one.
RestartLosesNothing ==
  (/\ ~unsaved /\ ~rolledBack
   /\ \A p \in Procs : pc[p] \notin {"persist", "persistRun", "save", "saveRun"})
     => Loaded(file, now) = Loaded(jobs, now)

\* Close returns: the loop and all runs end, unless a manual run was registered after
\* Close had stopped the others, or its registration was taken back for another's
\* failed save: its context nobody cancels.
LateManualRun == \E t \in Tokens : InFlight(t) /\ exec[t].late
CloseReturns ==
  (pc[Closer] = "cancel") ~>
    (pc[Closer] \in {"closed", "open"} \/ LateManualRun \/ rolledBack)
=============================================================================
