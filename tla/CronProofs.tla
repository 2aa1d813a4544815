------------------------------ MODULE CronProofs ------------------------------
(***************************************************************************)
(* Proofs about CronService: for any jobs, schedules, users, executions    *)
(* and bounds, and whatever saves fail and processes end.                  *)
(***************************************************************************)
EXTENDS CronService, FiniteSetTheorems, TLAPS

(***************************************************************************)
(* The inductive invariant.                                                *)
(***************************************************************************)

Waits(c)  == pc[c] \in {"persistRun", "saveRun", "rollback"}   \* inside RunNow
Saving(p) == pc[p] \in {"save", "saveRun"}
Asks(p)   == pc[p] \in {"persist", "persistRun"}

\* The goroutines: where each is, and what it knows there.
Places ==
  /\ pc \in [Procs -> LoopPC \cup ClosePC \cup ClientPC \cup RunPC]
  /\ pc[Loop] \in LoopPC /\ pc[Closer] \in ClosePC
  /\ \A c \in Clients : pc[c] \in ClientPC
  /\ \A t \in Tokens : pc[t] \in RunPC
  /\ persistMu \in Procs \cup {None}
  /\ \A p \in Procs : p = persistMu <=> Saving(p)
  /\ DOMAIN snap = Procs

\* The executions: what is known of each, and which client waits for which.
Executions ==
  /\ exec \in [Tokens -> ExecType \cup {None}]
  /\ \A t \in Tokens : /\ exec[t] \in IF InFlight(t) THEN ExecType ELSE {None}
                       /\ InFlight(t) => exec[t].job \in used
                       /\ InFlight(t) /\ exec[t].scheduled => exec[t].slot \in Nat
                       /\ pc[t] \in {"run", "deliver"} => exec[t].began \in Nat
                       /\ pc[t] = "marked" /\ exec[t].scheduled => pc[Loop] \in {"persist", "save"}
  /\ call \in [Clients -> {None} \cup Tokens \cup Draft]
  /\ \A c \in Clients : Waits(c) => /\ call[c] \in Tokens /\ pc[call[c]] = "marked"
                                    /\ ~exec[call[c]].scheduled
                                    /\ \A d \in Clients : Waits(d) /\ call[d] = call[c] => c = d
  /\ \A c \in Clients : pc[c] = "update" => call[c] \in Draft

\* The rest of the types.
Values ==
  /\ canceled \cup suppressed \cup withdrawn \subseteq Tokens
  /\ {stopping, unsaved, rolledBack, tainted} \subseteq BOOLEAN
  /\ now \in 1..MaxTime /\ events \in 0..MaxEvents
  /\ used \subseteq Jobs
  /\ patched \in [Jobs -> {"never", "clean", "overtaken"}]
  /\ begun \in [Jobs -> Nat] /\ slots \in [Jobs -> SUBSET Nat]
  /\ \A j \in Jobs \ used : begun[j] = 0 /\ slots[j] = {}

\* What is registered for a job is an execution of it that is in flight.
Registrations ==
  /\ DOMAIN running \subseteq Jobs
  /\ \A j \in DOMAIN running :
       running[j] \in Tokens /\ InFlight(running[j]) /\ exec[running[j]].job = j

\* Every copy of a job that is kept somewhere.
CopiesOf(j) ==
  {m[j] : m \in {n \in {jobs, file} \cup {snap[p] : p \in Procs} : j \in DOMAIN n}}
    \cup UNION {{call[c].seen, call[c].next} :
                  c \in {d \in Clients : pc[d] = "update" /\ call[d].job = j}}

Sound(job) ==
  /\ job \in JobType
  /\ job.enabled => job.next # None
  /\ job.next # None /\ job.sched.endsAt # None => job.next < job.sched.endsAt

Known == DOMAIN jobs \cup DOMAIN file \cup UNION {DOMAIN snap[p] : p \in Procs}

\* A job is known from its Add on, and all its copies have the schedule it was added with.
CopiesAgree ==
  /\ Known \subseteq used
  /\ \A j \in Jobs : \A k \in CopiesOf(j) : j \in used /\ Sound(k)
  /\ \A j \in Jobs : \A k, l \in CopiesOf(j) : k.sched = l.sched

TypeInv == Places /\ Executions /\ Values /\ Registrations /\ CopiesAgree

\* An execution that nobody told to stop is the registered one of its job.
Alone ==
  /\ ~rolledBack => \A t \in Tokens : InFlight(t) => CtxDone(t) \/ IsRegistered(t)
  /\ \A j \in DOMAIN running : j \notin DOMAIN jobs => running[j] \in canceled

\* An execution that was withdrawn is told so, or has lost its registration for ever.
Withdrawn ==
  \A t \in withdrawn : InFlight(t) /\ (t \in suppressed \/ ~IsRegistered(t))

\* No execution of an unpatched job that skips overlaps is unregistered, and its slots
\* lie behind the one it is at.
Unpatched(j) == j \in DOMAIN jobs /\ patched[j] = "never" /\ jobs[j].sched.overlap = "skip"
AtSlot(t) ==
  LET j == exec[t].job IN
  /\ jobs[j].next \in {None, exec[t].slot}
  /\ \A s \in slots[j] : IF pc[t] \in {"marked", "begin"} THEN s < exec[t].slot
                                                        ELSE s <= exec[t].slot
SlotOrder ==
  /\ \A j \in Jobs : patched[j] # "never" => slots[j] = {}
  /\ \A j \in Jobs : Unpatched(j) =>
       /\ \A t \in InFlightOf({j}) : IsRegistered(t) /\ (exec[t].scheduled => AtSlot(t))
       /\ \/ \E t \in InFlightOf({j}) : exec[t].scheduled
          \/ jobs[j].next = None
          \/ \A s \in slots[j] : s < jobs[j].next

\* Executions that were counted and have not begun: scheduled ones, those of them whose
\* count was written, and those of a RunNow that may yet take its count back.
Pending(j)   == {t \in Tokens : pc[t] \in {"marked", "begin"} /\ exec[t].scheduled /\ exec[t].job = j}
Released(j)  == {t \in Tokens : pc[t] = "begin" /\ exec[t].scheduled /\ exec[t].job = j}
Tentative(j) == {t \in Tokens : pc[t] = "marked" /\ ~exec[t].scheduled /\ exec[t].job = j}

Limited(job, j) == job.sched.maxRuns > 0 /\ patched[j] # "overtaken" /\ ~tainted
Counts ==
  /\ \A c \in Clients : pc[c] = "update" => call[c].next.count = call[c].seen.count
  /\ \A j \in DOMAIN jobs : Limited(jobs[j], j) =>
       /\ begun[j] + Cardinality(Pending(j)) <= jobs[j].sched.maxRuns
       /\ begun[j] + Cardinality(Pending(j)) + Cardinality(Tentative(j)) <= jobs[j].count
  /\ \A j \in DOMAIN file : Limited(file[j], j) =>
       /\ begun[j] <= file[j].sched.maxRuns
       /\ ~unsaved => begun[j] + Cardinality(Released(j)) <= file[j].count
  /\ \A p \in Procs : \A j \in DOMAIN snap[p] : Saving(p) /\ Limited(snap[p][j], j) =>
       /\ begun[j] <= snap[p][j].sched.maxRuns
       /\ begun[j] + Cardinality(IF p = Loop THEN Pending(j) ELSE Released(j)) <= snap[p][j].count
Window ==
  \A t \in Tokens : InFlight(t) /\ exec[t].scheduled =>
    \A k \in CopiesOf(exec[t].job) : k.sched.endsAt # None => exec[t].slot < k.sched.endsAt

\* Unless a goroutine is about to copy the jobs, what is written or being written is
\* as good as the jobs.
Durable ==
  ~rolledBack /\ (\A p \in Procs : ~Asks(p)) =>
    /\ persistMu # None => Loaded(snap[persistMu], now) = Loaded(jobs, now)
    /\ persistMu = None /\ ~unsaved => Loaded(file, now) = Loaded(jobs, now)

IInv == TypeInv /\ Alone /\ Withdrawn /\ SlotOrder /\ Counts /\ Window /\ Durable

--------------------------------------------------------------------------------
(* Schedules and policies.                                                 *)

SameJob(job, k) == k.sched = job.sched /\ k.count = job.count

LEMMA OffSound ==
  ASSUME NEW job \in JobType
  PROVE  Sound(Off(job)) /\ SameJob(job, Off(job))
BY DEF Off, Sound, SameJob, JobType, Times

\* A job that ApplyNextRunPolicy has passed is only enabled with a next run in its window.
LEMMA PolicySound ==
  ASSUME NEW job \in JobType, NEW next \in Times, NEW t
  PROVE  LET k == ApplyNextRunPolicy(job, next, t) IN Sound(k) /\ SameJob(job, k)
<1>1. CASE NextRunAllowed(job, next, t)
  BY <1>1 DEF ApplyNextRunPolicy, NextRunAllowed, Sound, SameJob, JobType, Times
<1>2. CASE ~NextRunAllowed(job, next, t)
  BY <1>2, OffSound DEF ApplyNextRunPolicy
<1> QED BY <1>1, <1>2

\* The next run of an interval lies after the one that was due, and after the clock.
LEMMA NextAfterRunLater ==
  ASSUME NEW sched \in Schedules, NEW base \in Nat, NEW t \in Nat
  PROVE  LET next == NextAfterRun(sched, base, t) IN
         next \in Times /\ (next # None => next > base)
<1>1. sched.time \in Nat /\ sched.time > 0
  BY ScheduleAssumption
<1> DEFINE d == sched.time
           next == base + d
           k == (t - next) \div d + 1
<1>2. next \in Nat /\ next > base
  BY <1>1
<1>3. ASSUME ~(next > t)
      PROVE  next + k * d \in Nat /\ next + k * d > base
  <2>1. k \in Nat
    BY <1>1, <1>2, <1>3
  <2> HIDE DEF k
  <2>2. k * d \in Nat
    BY <1>1, <2>1
  <2> QED BY <1>2, <2>2
<1> QED BY <1>2, <1>3 DEF NextAfterRun, Times

LEMMA NormalizedSound ==
  ASSUME NEW job \in JobType, NEW t \in Nat
  PROVE  Sound(Normalized(job, t)) /\ SameJob(job, Normalized(job, t))
<1>1. InitialNextRun(job.sched, t) \in Times
  BY ScheduleAssumption DEF InitialNextRun, JobType, Times
<1>2. CASE job.enabled
  BY <1>1, <1>2, PolicySound DEF Normalized
<1>3. CASE ~job.enabled
  BY <1>3 DEF Normalized, Sound, SameJob, JobType, Times
<1> QED BY <1>2, <1>3

\* What Update makes of the job it has read.
LEMMA PatchSound ==
  ASSUME NEW job \in JobType, NEW patch, NEW t \in Nat
  PROVE  LET k == Normalized([job EXCEPT !.enabled = CASE patch = "enable"  -> TRUE
                                                       [] patch = "disable" -> FALSE
                                                       [] OTHER             -> @], t)
         IN  Sound(k) /\ SameJob(job, k)
<1>1. PICK enabled \in BOOLEAN : enabled = CASE patch = "enable"  -> TRUE
                                             [] patch = "disable" -> FALSE
                                             [] OTHER             -> job.enabled
  BY DEF JobType
<1>2. [job EXCEPT !.enabled = enabled] \in JobType /\ SameJob(job, [job EXCEPT !.enabled = enabled])
  BY DEF JobType, SameJob
<1> QED BY <1>1, <1>2, NormalizedSound DEF SameJob

LEMMA NewJobSound ==
  ASSUME NEW sched \in Schedules, NEW t \in Nat
  PROVE  Sound(NewJob(sched, t)) /\ NewJob(sched, t).sched = sched /\ NewJob(sched, t).count = 0
<1> DEFINE job == [sched |-> sched, enabled |-> TRUE, next |-> None, count |-> 0]
<1>1. job \in JobType
  BY DEF JobType, Times
<1> QED BY <1>1, NormalizedSound DEF NewJob, SameJob

\* What a restart makes of a saved job.
Resumed(job, t) ==
  IF job.enabled THEN ApplyNextRunPolicy(job, job.next, t) ELSE [job EXCEPT !.next = None]

LEMMA LoadedIsResumed ==
  ASSUME NEW saved, \A j \in DOMAIN saved : Sound(saved[j]), NEW t
  PROVE  Loaded(saved, t) = [j \in DOMAIN saved |-> Resumed(saved[j], t)]
BY DEF Loaded, Resumed, Normalized, Sound

LEMMA ResumedSound ==
  ASSUME NEW job, Sound(job), NEW t
  PROVE  Sound(Resumed(job, t)) /\ SameJob(job, Resumed(job, t))
<1>1. CASE job.enabled
  BY <1>1, PolicySound DEF Resumed, Sound, JobType
<1>2. CASE ~job.enabled
  BY <1>2 DEF Resumed, Sound, SameJob, JobType, Times
<1> QED BY <1>1, <1>2

\* A restart does not undo an earlier one, and a later one does what both do.
LEMMA ResumedLater ==
  ASSUME NEW job, Sound(job), NEW t \in Nat, NEW u \in Nat, t <= u
  PROVE  Resumed(Resumed(job, t), u) = Resumed(job, u)
<1>1. job \in JobType /\ job.sched.endsAt \in Nat \cup {None}
  BY ScheduleAssumption DEF Sound, JobType
<1>2. CASE ~job.enabled
  BY <1>1, <1>2 DEF Resumed, JobType
<1>3. CASE job.enabled /\ NextRunAllowed(job, job.next, t)
  <2>1. Resumed(job, t) = job
    BY <1>1, <1>3 DEF Resumed, ApplyNextRunPolicy, Sound, JobType
  <2> QED BY <2>1
<1>4. CASE job.enabled /\ ~NextRunAllowed(job, job.next, t)
  <2>1. ~NextRunAllowed(job, job.next, u)
    BY <1>1, <1>4 DEF NextRunAllowed, WindowClosed
  <2>2. Resumed(job, t) = Off(job) /\ Resumed(job, u) = Off(job)
    BY <1>4, <2>1 DEF Resumed, ApplyNextRunPolicy
  <2> QED BY <1>1, <2>2 DEF Resumed, Off, JobType
<1> QED BY <1>2, <1>3, <1>4

\* An exhausted job is one that a restart turns off.
LEMMA ExhaustedOff ==
  ASSUME NEW job, Sound(job), NEW t, Exhausted(job, t)
  PROVE  Resumed(Off(job), t) = Resumed(job, t)
BY DEF Exhausted, Resumed, ApplyNextRunPolicy, NextRunAllowed, Off, Sound, JobType

LEMMA RetireSound ==
  ASSUME NEW job, Sound(job), NEW t
  PROVE  /\ Sound(Retire(job, t)) /\ SameJob(job, Retire(job, t))
         /\ Retire(job, t).next \in {None, job.next}
<1>1. Off(job).next = None
  BY DEF Off, Sound, JobType
<1> QED BY <1>1, OffSound DEF Retire, Sound, SameJob

LEMMA CountedSound ==
  ASSUME NEW job, Sound(job)
  PROVE  /\ Sound(Counted(job)) /\ Counted(job).sched = job.sched /\ Counted(job).next = job.next
         /\ job.sched.maxRuns > 0 => Counted(job).count = job.count + 1
<1>1. job.sched.maxRuns \in Nat
  BY ScheduleAssumption DEF Sound, JobType
<1> QED BY <1>1 DEF Counted, Sound, JobType

LEMMA FinishedSound ==
  ASSUME NEW job, Sound(job), NEW x, x.began \in Nat, x.scheduled => x.slot \in Nat
  PROVE  /\ Sound(Finished(job, x)) /\ SameJob(job, Finished(job, x))
         /\ x.scheduled /\ job.next \in {None, x.slot} /\ Finished(job, x).next # None
              => Finished(job, x).next > x.slot
         /\ ~x.scheduled => Finished(job, x).next \in {None, job.next}
<1>1. job \in JobType /\ job.sched \in Schedules /\ job.next \in Times
  BY DEF Sound, JobType
<1>2. CASE x.scheduled
  <2> DEFINE base == IF job.next = None THEN x.slot ELSE job.next
             next == NextAfterRun(job.sched, base, x.began)
  <2>1. base \in Nat
    BY <1>1, <1>2 DEF Times
  <2>2. next \in Times /\ (next # None => next > base)
    BY <1>1, <2>1, NextAfterRunLater
  <2> HIDE DEF next
  <2>3. Finished(job, x) = ApplyNextRunPolicy(job, next, x.began)
    BY <1>2 DEF Finished, next
  <2>4. Finished(job, x).next \in {None, next}
    BY <1>1, <2>2, <2>3 DEF ApplyNextRunPolicy, Off, JobType
  <2> QED BY <1>1, <1>2, <2>2, <2>3, <2>4, PolicySound
<1>3. CASE ~x.scheduled
  <2>1. Finished(job, x) = ApplyNextRunPolicy(job, job.next, x.began)
    BY <1>3 DEF Finished
  <2>2. Finished(job, x).next \in {None, job.next}
    BY <1>1, <2>1 DEF ApplyNextRunPolicy, Off, JobType
  <2> QED BY <1>1, <1>3, <2>1, <2>2, PolicySound
<1> QED BY <1>2, <1>3
--------------------------------------------------------------------------------
(* What the steps do to executions.                                        *)

Ran == {"marked", "begin", "run", "deliver"}

\* There is a token for each job that starts, and none for two.
LEMMA TokensSuffice ==
  ASSUME NEW S, IsFiniteSet(S), NEW T, IsFiniteSet(T), Cardinality(S) <= Cardinality(T)
  PROVE  \E f \in [S -> T] : \A j, k \in S : f[j] = f[k] => j = k
<1>1. PICK m \in Nat : ExistsBijection(1..m, S) /\ Cardinality(S) = m
  BY FS_NatBijection, FS_CountingElements
<1>2. PICK n \in Nat : ExistsBijection(1..n, T) /\ Cardinality(T) = n
  BY FS_NatBijection, FS_CountingElements
<1>3. PICK f \in Bijection(1..m, S) : TRUE
  BY <1>1 DEF ExistsBijection
<1>4. PICK g \in Bijection(1..n, T) : TRUE
  BY <1>2 DEF ExistsBijection
<1>5. m <= n /\ 1..m \subseteq 1..n
  BY <1>1, <1>2
<1>6. /\ \A j \in S : \E i \in 1..m : f[i] = j
      /\ \A i \in 1..n : g[i] \in T
      /\ \A i, k \in 1..n : g[i] = g[k] => i = k
  BY <1>3, <1>4 DEF Bijection, Injection, Surjection, IsInjective
<1> DEFINE place(j) == CHOOSE i \in 1..m : f[i] = j
           h == [j \in S |-> g[place(j)]]
<1>7. \A j \in S : place(j) \in 1..m /\ f[place(j)] = j
  BY <1>6
<1> HIDE DEF place
<1>8. h \in [S -> T] /\ \A j, k \in S : h[j] = h[k] => j = k
  BY <1>5, <1>6, <1>7
<1> QED BY <1>8

\* The jobs that start have fresh tokens, one each; other executions stay as they are.
LEMMA TriggerTokens ==
  ASSUME Places, Executions, Known \subseteq Jobs, TriggerDue
  PROVE  \E token \in [StartNow -> Unused] :
           /\ \A j, k \in StartNow : token[j] = token[k] => j = k
           /\ running' = [j \in DOMAIN running \cup StartNow |->
                            IF j \in StartNow THEN token[j] ELSE running[j]]
           /\ exec' = [t \in Tokens |-> exec'[t]]
           /\ \A j \in StartNow : /\ exec'[token[j]] = Mark(j, TRUE, jobs[j].next)
                                  /\ pc'[token[j]] = "marked"
           /\ \A t \in Tokens : (\A j \in StartNow : token[j] # t) =>
                                  exec'[t] = exec[t] /\ pc'[t] = pc[t]
           /\ pc' = [p \in Procs |-> pc'[p]] /\ pc'[Loop] \in {"select", "persist"}
           /\ (pc'[Loop] = "select" => jobs' = jobs /\ StartNow = {})
           /\ \A p \in Procs \ (Tokens \cup {Loop}) : pc'[p] = pc[p]
<1>1. IsFiniteSet(StartNow) /\ IsFiniteSet(Unused)
  <2>1. StartNow \subseteq Jobs /\ Unused \subseteq Tokens
    BY DEF StartNow, Unused, Known
  <2> QED BY <2>1, BoundAssumption, FS_Subset
<1>2. PICK S : S = StartNow
  OBVIOUS
<1> DEFINE fresh == CHOOSE f \in [S -> Unused] : \A j, k \in S : f[j] = f[k] => j = k
           mine(t) == {j \in S : fresh[j] = t}
<1>3. fresh \in [S -> Unused] /\ \A j, k \in S : fresh[j] = fresh[k] => j = k
  <2>1. Cardinality(S) <= Cardinality(Unused)
    BY <1>2 DEF TriggerDue
  <2> QED BY <1>1, <1>2, <2>1, TokensSuffice
<1>4. /\ running' = [j \in DOMAIN running \cup S |-> IF j \in S THEN fresh[j] ELSE running[j]]
      /\ exec' = [t \in Tokens |-> IF mine(t) = {} THEN exec[t]
                                   ELSE LET j == CHOOSE j \in mine(t) : TRUE
                                        IN  Mark(j, TRUE, jobs[j].next)]
      /\ pc' = [p \in Procs |-> IF p = Loop THEN IF jobs' = jobs /\ S = {} THEN "select"
                                                 ELSE "persist"
                                ELSE IF p \in Tokens /\ mine(p) # {} THEN "marked" ELSE pc[p]]
  BY <1>2 DEF TriggerDue
<1> HIDE DEF fresh
<1>5. \A j \in S : mine(fresh[j]) = {j} /\ fresh[j] \in Tokens
  BY <1>3 DEF Unused
<1>6. \A j \in S : exec'[fresh[j]] = Mark(j, TRUE, jobs[j].next)
  <2>1. TAKE j \in S
  <2>2. exec'[fresh[j]] = LET k == CHOOSE k \in {j} : TRUE IN Mark(k, TRUE, jobs[k].next)
    BY <1>4, <1>5
  <2>3. (CHOOSE k \in {j} : TRUE) = j
    OBVIOUS
  <2> QED BY <2>2, <2>3
<1>7. \A j \in S : pc'[fresh[j]] = "marked"
  BY <1>4, <1>5, ProcAssumption DEF Procs
<1>8. \A t \in Tokens : (\A j \in S : fresh[j] # t) => exec'[t] = exec[t] /\ pc'[t] = pc[t]
  <2> SUFFICES ASSUME NEW t \in Tokens, \A j \in S : fresh[j] # t
               PROVE  exec'[t] = exec[t] /\ pc'[t] = pc[t]
    OBVIOUS
  <2>1. mine(t) = {}
    OBVIOUS
  <2>2. t \in Procs /\ t # Loop
    BY ProcAssumption DEF Procs
  <2> HIDE DEF mine
  <2> QED BY <1>4, <2>1, <2>2
<1>9. /\ pc' = [p \in Procs |-> pc'[p]] /\ pc'[Loop] \in {"select", "persist"}
      /\ (pc'[Loop] = "select" => jobs' = jobs /\ S = {})
      /\ \A p \in Procs \ (Tokens \cup {Loop}) : pc'[p] = pc[p]
  <2>1. Loop \in Procs
    BY DEF Procs
  <2> HIDE DEF mine
  <2> QED BY <1>4, <2>1
<1>10. exec' = [t \in Tokens |-> exec'[t]]
  BY <1>4
<1> HIDE DEF mine
<1>11. fresh \in [StartNow -> Unused]
  BY <1>2, <1>3
<1> WITNESS fresh \in [StartNow -> Unused]
<1> QED BY <1>2, <1>3, <1>4, <1>6, <1>7, <1>8, <1>9, <1>10
--------------------------------------------------------------------------------
(* Every step keeps the goroutines in their places.                        *)

\* A step in which one goroutine, not a saving one, moves on.
LEMMA PlacesMove ==
  ASSUME Places, NEW p \in Procs, NEW to, pc' = [pc EXCEPT ![p] = to],
         ~Saving(p), to \notin {"save", "saveRun"},
         p = Loop => to \in LoopPC, p = Closer => to \in ClosePC,
         p \in Clients => to \in ClientPC, p \in Tokens => to \in RunPC,
         persistMu' = persistMu, snap' = snap
  PROVE  Places'
<1>1. pc' = [q \in Procs |-> IF q = p THEN to ELSE pc[q]]
  BY DEF Places
<1>2. to \in LoopPC \cup ClosePC \cup ClientPC \cup RunPC
  BY DEF Procs
<1> QED BY <1>1, <1>2, ProcAssumption DEF Places, Saving, Procs

LEMMA PlacesSnapshot ==
  ASSUME Places, NEW p \in Procs, Snapshot(p)
  PROVE  Places'
<1> DEFINE to == IF pc[p] = "persist" THEN "save" ELSE "saveRun"
<1>1. pc' = [q \in Procs |-> IF q = p THEN to ELSE pc[q]]
  BY DEF Snapshot, Places
<1>2. /\ p \in Clients \/ to = "save"
      /\ p \in Procs /\ p # None /\ persistMu = None /\ persistMu' = p /\ DOMAIN snap' = Procs
      /\ ~Saving(p) /\ pc[p] \in {"persist", "persistRun"}
  BY ProcAssumption DEF Snapshot, Places, Procs, LoopPC, ClosePC, RunPC, Saving
<1>3. \A q \in Procs : ~Saving(q)
  BY <1>2, ProcAssumption DEF Places
<1> QED BY <1>1, <1>2, <1>3, ProcAssumption
        DEF Places, Saving, Procs, LoopPC, ClosePC, ClientPC, RunPC

\* A save ends; besides its goroutine only executions may move on.
LEMMA PlacesSave ==
  ASSUME Places, NEW p \in Procs, Save(p), NEW to,
         p = Loop => to \in LoopPC, p = Closer => to \in ClosePC,
         p \in Clients => to \in ClientPC, p \in Tokens => to \in RunPC,
         to \notin {"save", "saveRun"},
         pc' = [q \in Procs |-> pc'[q]], pc'[p] = to,
         \A q \in Procs : q # p => pc'[q] = pc[q] \/ (q \in Tokens /\ pc'[q] = "begin")
  PROVE  Places'
<1>1. p = persistMu /\ persistMu' = None /\ DOMAIN snap' = Procs
  BY DEF Save, Places, Saving
<1>2. \A q \in Procs : ~Saving(q)'
  <2>1. TAKE q \in Procs
  <2>2. CASE q = p
    BY <2>2 DEF Saving
  <2>3. CASE q # p
    BY <1>1, <2>3 DEF Saving, Places
  <2> QED BY <2>2, <2>3
<1>3. /\ pc'[Loop] \in LoopPC /\ pc'[Closer] \in ClosePC
      /\ \A c \in Clients : pc'[c] \in ClientPC
      /\ \A t \in Tokens : pc'[t] \in RunPC
  BY ProcAssumption DEF Places, Procs, RunPC
<1>4. pc' \in [Procs -> LoopPC \cup ClosePC \cup ClientPC \cup RunPC]
  BY <1>3 DEF Procs
<1> QED BY <1>1, <1>2, <1>3, <1>4, ProcAssumption DEF Places
\* The steps, one by one.
LEMMA Steps ==
  ASSUME Next
  PROVE  \/ TriggerDue \/ LoopSaved \/ LoopExits
         \/ \E p \in Procs : Snapshot(p)
         \/ \E t \in Tokens : Begin(t) \/ Deliver(t) \/ FinishRun(t) \/ RunSaved(t)
         \/ \E c \in Clients : \/ \E j \in Jobs, sched \in Schedules : Add(c, j, sched)
                               \/ \E D \in SUBSET DOMAIN jobs : Remove(c, D)
                               \/ \E j \in DOMAIN jobs, patch \in {"keep", "enable", "disable"} :
                                    UpdateReads(c, j, patch)
                               \/ UpdateWrites(c) \/ ClientSaved(c)
                               \/ \E j \in DOMAIN jobs : RunNow(c, j) \/ RunNowRefused(c, j)
                               \/ RunNowSaved(c) \/ RunNowRollback(c)
         \/ CloseStops \/ CloseCancels \/ CloseWaited \/ CloseSaved
         \/ Restart \/ Tick
<1>1. CASE LoopStep \/ CloseStep
  BY <1>1 DEF LoopStep, CloseStep, Procs
<1>2. CASE \E t \in Tokens : RunStep(t)
  BY <1>2 DEF RunStep, Procs
<1>3. CASE \E c \in Clients : ClientStep(c) \/ Call(c)
  <2>1. PICK c \in Clients : ClientStep(c) \/ Call(c)
    BY <1>3
  <2>2. CASE ClientStep(c)
    BY <2>2 DEF ClientStep, Procs
  <2>3. CASE Call(c)
    BY <2>3 DEF Call
  <2> QED BY <2>1, <2>2, <2>3
<1> QED BY <1>1, <1>2, <1>3 DEF Next

LEMMA PlacesStep ==
  ASSUME TypeInv, Next
  PROVE  Places'
<1>1. /\ Places /\ Executions /\ Registrations /\ Known \subseteq Jobs
      /\ \A p \in Procs : p = persistMu <=> Saving(p)
      /\ Loop \in Procs /\ Closer \in Procs /\ Clients \subseteq Procs /\ Tokens \subseteq Procs
  BY DEF TypeInv, CopiesAgree, Values, Places, Procs
<1> USE ProcAssumption
<1>2. CASE TriggerDue
  <2>1. PICK token \in [StartNow -> Unused] :
           /\ \A j \in StartNow : pc'[token[j]] = "marked"
           /\ \A t \in Tokens : (\A j \in StartNow : token[j] # t) => pc'[t] = pc[t]
           /\ pc' = [p \in Procs |-> pc'[p]] /\ pc'[Loop] \in {"select", "persist"}
           /\ \A p \in Procs \ (Tokens \cup {Loop}) : pc'[p] = pc[p]
    BY <1>1, <1>2, TriggerTokens
  <2>2. pc[Loop] \in {"trigger", "select"} /\ persistMu' = persistMu /\ snap' = snap
    BY <1>2 DEF TriggerDue, diskVars
  <2>3. \A t \in Tokens : pc'[t] = pc[t] \/ (pc[t] = "unused" /\ pc'[t] = "marked")
    <3>1. TAKE t \in Tokens
    <3>2. CASE \E j \in StartNow : token[j] = t
      BY <2>1, <3>2 DEF Unused
    <3>3. CASE \A j \in StartNow : token[j] # t
      BY <2>1, <3>3
    <3> QED BY <3>2, <3>3
  <2>4. \A p \in Procs : Saving(p)' <=> Saving(p)
    BY <2>1, <2>2, <2>3 DEF Saving, Procs
  <2>5. /\ pc'[Loop] \in LoopPC /\ pc'[Closer] \in ClosePC
        /\ \A c \in Clients : pc'[c] \in ClientPC
        /\ \A t \in Tokens : pc'[t] \in RunPC
    BY <1>1, <2>1, <2>3 DEF Places, LoopPC, RunPC
  <2>6. pc' \in [Procs -> LoopPC \cup ClosePC \cup ClientPC \cup RunPC]
    BY <2>1, <2>5 DEF Procs
  <2> QED BY <1>1, <2>2, <2>4, <2>5, <2>6 DEF Places
<1>3. CASE LoopSaved
  <2>1. Save(Loop) /\ pc' = [q \in Procs |-> pc'[q]] /\ pc'[Loop] = "select"
        /\ \A q \in Procs : q # Loop => pc'[q] = pc[q] \/ (q \in Tokens /\ pc'[q] = "begin")
    BY <1>1, <1>3 DEF LoopSaved
  <2> QED BY <1>1, <2>1, PlacesSave DEF LoopPC
<1>4. CASE LoopExits
  BY <1>1, <1>4, PlacesMove DEF LoopExits, Go, Saving, LoopPC, diskVars
<1>5. ASSUME NEW p \in Procs, Snapshot(p) PROVE Places'
  BY <1>1, <1>5, PlacesSnapshot
<1>6. ASSUME NEW t \in Tokens, Begin(t) \/ Deliver(t) \/ FinishRun(t) PROVE Places'
  <2>1. PICK to \in {"run", "deliver", "persist", "unused"} : pc' = [pc EXCEPT ![t] = to]
    BY <1>6 DEF Begin, Deliver, FinishRun, Go
  <2>2. ~Saving(t) /\ persistMu' = persistMu /\ snap' = snap
    BY <1>6 DEF Begin, Deliver, FinishRun, Go, Saving, diskVars
  <2> QED BY <1>1, <2>1, <2>2, PlacesMove DEF RunPC
<1>7. ASSUME NEW t \in Tokens, RunSaved(t) PROVE Places'
  <2>1. pc' = [pc EXCEPT ![t] = "unused"] /\ Save(t) /\ pc \in [Procs -> STRING \cup {pc[q] : q \in Procs}]
    BY <1>1, <1>7 DEF RunSaved, Go, Places
  <2> QED BY <1>1, <2>1, PlacesSave DEF RunPC
<1>8. ASSUME NEW c \in Clients, NEW to \in {"persist", "update"}, pc' = [pc EXCEPT ![c] = to],
             pc[c] \in {"idle", "update"}, UNCHANGED diskVars
      PROVE  Places'
  <2>1. ~Saving(c) /\ persistMu' = persistMu /\ snap' = snap
    BY <1>8 DEF Saving, diskVars
  <2> QED BY <1>1, <1>8, <2>1, PlacesMove DEF ClientPC
<1>9. ASSUME NEW c \in Clients, NEW j, NEW sched, Add(c, j, sched) PROVE Places'
  BY <1>8, <1>9 DEF Add, Calls, Go
<1>10. ASSUME NEW c \in Clients, NEW D, Remove(c, D) PROVE Places'
  BY <1>8, <1>10 DEF Remove, Calls, Go
<1>11. ASSUME NEW c \in Clients, NEW j, NEW patch, UpdateReads(c, j, patch) \/ UpdateWrites(c)
       PROVE  Places'
  BY <1>8, <1>11 DEF UpdateReads, UpdateWrites, Calls, Go
<1>12. ASSUME NEW c \in Clients, ClientSaved(c) PROVE Places'
  <2>1. pc' = [pc EXCEPT ![c] = "idle"] /\ Save(c)
    BY <1>12 DEF ClientSaved, Go
  <2> QED BY <1>1, <2>1, PlacesSave DEF ClientPC, Places
<1>13. ASSUME NEW c \in Clients, NEW j, RunNow(c, j) PROVE Places'
  <2>1. PICK t : t = (CHOOSE u \in Unused : TRUE)
    OBVIOUS
  <2>2. /\ t \in Tokens /\ pc[t] = "unused" /\ pc[c] = "idle"
        /\ pc' = [pc EXCEPT ![c] = "persistRun", ![t] = "marked"]
        /\ persistMu' = persistMu /\ snap' = snap
    BY <1>13, <2>1 DEF RunNow, Calls, Unused, diskVars
  <2>3. /\ pc' = [q \in Procs |-> IF q = t THEN "marked" ELSE IF q = c THEN "persistRun" ELSE pc[q]]
        /\ t # c
    BY <1>1, <2>2 DEF Places
  <2> QED BY <1>1, <2>2, <2>3 DEF Places, Saving, Procs, ClientPC, RunPC
<1>14. ASSUME NEW c \in Clients, NEW j, RunNowRefused(c, j) PROVE Places'
  BY <1>1, <1>14 DEF RunNowRefused, Places, Saving, diskVars, procVars
<1>15. ASSUME NEW c \in Clients, RunNowSaved(c) PROVE Places'
  <2>1. Save(c) /\ Waits(c) /\ call[c] \in Tokens /\ call[c] # c
    BY <1>1, <1>15 DEF RunNowSaved, Waits, Executions
  <2>2. CASE pc' = [pc EXCEPT ![c] = "idle", ![call[c]] = "begin"]
    <3>1. /\ pc' = [q \in Procs |-> pc'[q]] /\ pc'[c] = "idle"
          /\ \A q \in Procs : q # c => pc'[q] = pc[q] \/ (q \in Tokens /\ pc'[q] = "begin")
      BY <1>1, <2>1, <2>2 DEF Places
    <3> QED BY <1>1, <2>1, <3>1, PlacesSave DEF ClientPC
  <2>3. CASE pc' = [pc EXCEPT ![c] = "rollback"]
    <3>1. /\ pc' = [q \in Procs |-> pc'[q]] /\ pc'[c] = "rollback"
          /\ \A q \in Procs : q # c => pc'[q] = pc[q]
      BY <1>1, <2>3 DEF Places
    <3> QED BY <1>1, <2>1, <3>1, PlacesSave DEF ClientPC
  <2> QED BY <1>15, <2>2, <2>3 DEF RunNowSaved
<1>16. ASSUME NEW c \in Clients, RunNowRollback(c) PROVE Places'
  <2>1. /\ pc[c] = "rollback" /\ call[c] \in Tokens /\ pc[call[c]] = "marked"
        /\ pc' = [pc EXCEPT ![c] = "idle", ![call[c]] = "unused"]
        /\ persistMu' = persistMu /\ snap' = snap
    BY <1>1, <1>16 DEF RunNowRollback, Executions, Waits, diskVars
  <2>2. /\ pc' = [q \in Procs |-> IF q = call[c] THEN "unused" ELSE IF q = c THEN "idle" ELSE pc[q]]
        /\ call[c] # c
    BY <1>1, <2>1 DEF Places
  <2> QED BY <1>1, <2>1, <2>2 DEF Places, Saving, Procs, ClientPC, RunPC
<1>17. CASE CloseStops \/ CloseCancels \/ CloseWaited
  <2>1. PICK to \in {"cancel", "wait", "persist"} : pc' = [pc EXCEPT ![Closer] = to]
    BY <1>17 DEF CloseStops, CloseCancels, CloseWaited, Go
  <2>2. ~Saving(Closer) /\ persistMu' = persistMu /\ snap' = snap
    BY <1>17 DEF CloseStops, CloseCancels, CloseWaited, Go, Saving, diskVars
  <2> QED BY <1>1, <2>1, <2>2, PlacesMove DEF ClosePC
<1>18. CASE CloseSaved
  <2>1. pc' = [pc EXCEPT ![Closer] = "closed"] /\ Save(Closer)
    BY <1>18 DEF CloseSaved, Go
  <2> QED BY <1>1, <2>1, PlacesSave DEF ClosePC, Places
<1>19. CASE Restart
  <2>1. /\ pc' = FirstPC /\ persistMu' = None /\ DOMAIN snap' = Procs
    BY <1>19 DEF Restart
  <2> QED BY <2>1 DEF FirstPC, Places, Saving, Procs, LoopPC, ClosePC, ClientPC, RunPC
<1>20. CASE Tick
  BY <1>1, <1>20 DEF Tick, Places, Saving, diskVars, procVars
<1> QED BY <1>2, <1>3, <1>4, <1>5, <1>6, <1>7, <1>8, <1>9, <1>10, <1>11, <1>12, <1>13, <1>14, <1>15,
           <1>16, <1>17, <1>18, <1>19, <1>20, Steps
--------------------------------------------------------------------------------
(* Every step keeps what is known of the executions.                       *)

LEMMA CopiesSound ==
  ASSUME CopiesAgree, used \subseteq Jobs
  PROVE  /\ \A j \in DOMAIN jobs : j \in used /\ j \in Jobs /\ Sound(jobs[j])
         /\ \A j \in DOMAIN file : j \in used /\ j \in Jobs /\ Sound(file[j])
         /\ \A p \in Procs : \A j \in DOMAIN snap[p] : j \in used /\ j \in Jobs /\ Sound(snap[p][j])
         /\ \A c \in Clients : pc[c] = "update" /\ call[c].job \in Jobs =>
              call[c].job \in used /\ Sound(call[c].seen) /\ Sound(call[c].next)
<1>1. /\ \A j \in DOMAIN jobs : jobs[j] \in CopiesOf(j)
      /\ \A j \in DOMAIN file : file[j] \in CopiesOf(j)
      /\ \A p \in Procs : \A j \in DOMAIN snap[p] : snap[p][j] \in CopiesOf(j)
  BY DEF CopiesOf
<1>2. \A c \in Clients : pc[c] = "update" =>
        call[c].seen \in CopiesOf(call[c].job) /\ call[c].next \in CopiesOf(call[c].job)
  BY DEF CopiesOf
<1>3. Known \subseteq used /\ \A j \in Jobs : \A k \in CopiesOf(j) : j \in used /\ Sound(k)
  BY DEF CopiesAgree
<1>4. /\ \A j \in DOMAIN jobs : j \in used
      /\ \A j \in DOMAIN file : j \in used
      /\ \A p \in Procs : \A j \in DOMAIN snap[p] : j \in used
  BY <1>3 DEF Known
<1> QED BY <1>1, <1>2, <1>3, <1>4

\* Nothing begins or ends, and no client begins to wait.
LEMMA ExecutionsStay ==
  ASSUME Executions, exec' = exec, used \subseteq used',
         call' \in [Clients -> {None} \cup Tokens \cup Draft],
         \A t \in Tokens : pc'[t] = pc[t] \/ (pc[t] \notin Ran /\ pc'[t] \notin Ran),
         pc[Loop] \in {"persist", "save"} => pc'[Loop] \in {"persist", "save"}
           \/ \A t \in Tokens : ~(pc[t] = "marked" /\ exec[t].scheduled),
         \A c \in Clients : \/ call'[c] = call[c] /\ (Waits(c)' => Waits(c))
                                 /\ (pc'[c] = "update" => pc[c] = "update")
                            \/ ~Waits(c)' /\ (pc'[c] = "update" => call'[c] \in Draft)
  PROVE  Executions'
<1>1. \A t \in Tokens : /\ InFlight(t)' <=> InFlight(t)
                        /\ pc'[t] \in Ran => pc'[t] = pc[t]
  BY DEF InFlight, Ran
<1>2. \A t \in Tokens : /\ exec'[t] \in IF InFlight(t)' THEN ExecType ELSE {None}
                        /\ InFlight(t)' => exec'[t].job \in used'
                        /\ InFlight(t)' /\ exec'[t].scheduled => exec'[t].slot \in Nat
                        /\ pc'[t] \in {"run", "deliver"} => exec'[t].began \in Nat
                        /\ pc'[t] = "marked" /\ exec'[t].scheduled => pc'[Loop] \in {"persist", "save"}
  BY <1>1 DEF Executions, Ran
<1>3. \A c \in Clients : Waits(c)' => /\ call'[c] \in Tokens /\ pc'[call'[c]] = "marked"
                                      /\ ~exec'[call'[c]].scheduled
                                      /\ call'[c] = call[c] /\ Waits(c)
  BY DEF Executions, Ran
<1>4. \A c, d \in Clients : Waits(c)' /\ Waits(d)' /\ call'[d] = call'[c] => c = d
  BY <1>3 DEF Executions
<1>5. \A c \in Clients : pc'[c] = "update" => call'[c] \in Draft
  BY DEF Executions
<1>6. exec' \in [Tokens -> ExecType \cup {None}]
  BY DEF Executions
<1> QED BY <1>2, <1>3, <1>4, <1>5, <1>6 DEF Executions

\* The clients do not wait for t, but for one that may begin to.
ClientsFollow(t) ==
  \A c \in Clients : \/ call'[c] = call[c] /\ (Waits(c)' => Waits(c) /\ call[c] # t)
                          /\ (pc'[c] = "update" => pc[c] = "update")
                     \/ ~Waits(c)' /\ pc'[c] # "update"
                     \/ call'[c] = t /\ pc'[t] = "marked" /\ pc[t] # "marked" /\ pc'[c] # "update"
                          /\ \A d \in Clients \ {c} : call'[d] = call[d] /\ pc'[d] = pc[d]

\* One execution moves on, ends, or is registered; its record is all that changes.
LEMMA ExecutionsMove ==
  ASSUME Executions, Places, used' = used, call' \in [Clients -> {None} \cup Tokens \cup Draft],
         NEW t \in Tokens, NEW x \in ExecType \cup {None}, exec' = [exec EXCEPT ![t] = x],
         pc'[t] \in Ran => x \in ExecType, pc'[t] \notin Ran => x = None,
         pc'[t] \in Ran => x.job \in used /\ (x.scheduled => x.slot \in Nat),
         pc'[t] \in {"run", "deliver"} => x.began \in Nat,
         pc'[t] = "marked" => ~x.scheduled,
         \A u \in Tokens \ {t} : pc'[u] = pc[u],
         pc'[Loop] = pc[Loop],
         ClientsFollow(t)
  PROVE  Executions'
<1>1. /\ exec' = [u \in Tokens |-> IF u = t THEN x ELSE exec[u]]
      /\ \A u \in Tokens : InFlight(u)' <=> IF u = t THEN pc'[t] \in Ran ELSE InFlight(u)
  BY DEF Executions, InFlight, Ran
<1>2. \A u \in Tokens : /\ exec'[u] \in IF InFlight(u)' THEN ExecType ELSE {None}
                        /\ InFlight(u)' => exec'[u].job \in used'
                        /\ InFlight(u)' /\ exec'[u].scheduled => exec'[u].slot \in Nat
                        /\ pc'[u] \in {"run", "deliver"} => exec'[u].began \in Nat
                        /\ pc'[u] = "marked" /\ exec'[u].scheduled => pc'[Loop] \in {"persist", "save"}
  BY <1>1 DEF Executions, Ran, InFlight
<1>3. \A c \in Clients : Waits(c)' => /\ call'[c] \in Tokens /\ pc'[call'[c]] = "marked"
                                      /\ ~exec'[call'[c]].scheduled
                                      /\ \/ call'[c] = call[c] /\ Waits(c) /\ call[c] # t
                                         \/ /\ call'[c] = t /\ pc[t] # "marked"
                                            /\ \A d \in Clients \ {c} : call'[d] = call[d] /\ pc'[d] = pc[d]
  BY <1>1 DEF Executions, Ran, ClientsFollow
<1>4. \A c, d \in Clients : Waits(c)' /\ Waits(d)' /\ call'[d] = call'[c] => c = d
  <2>1. \A c \in Clients : Waits(c) => pc[call[c]] = "marked"
    BY DEF Executions
  <2>2. \A c, d \in Clients : Waits(c) /\ Waits(d) /\ call[d] = call[c] => c = d
    BY DEF Executions
  <2> QED BY <1>3, <2>1, <2>2 DEF Waits
<1>5. \A c \in Clients : pc'[c] = "update" => call'[c] \in Draft
  BY DEF Executions, ClientsFollow
<1> QED BY <1>1, <1>2, <1>3, <1>4, <1>5 DEF Executions
LEMMA MarkType ==
  ASSUME NEW j \in Jobs, NEW scheduled \in BOOLEAN, NEW slot \in Times,
         NEW x, x = Mark(j, scheduled, slot)
  PROVE  /\ x \in ExecType /\ x.job = j /\ x.scheduled = scheduled /\ x.slot = slot
         /\ x.late = (~scheduled /\ pc[Closer] # "open")
BY DEF Mark, ExecType, Times

\* TriggerDue, as what becomes of the executions.
Triggered(token) ==
  /\ token \in [StartNow -> Unused]
  /\ \A j, k \in StartNow : token[j] = token[k] => j = k
  /\ running' = [j \in DOMAIN running \cup StartNow |->
                   IF j \in StartNow THEN token[j] ELSE running[j]]
  /\ \A j \in StartNow :
       /\ j \in Jobs /\ j \in used /\ jobs[j].next \in Nat /\ token[j] \in Tokens
       /\ pc[token[j]] = "unused" /\ pc'[token[j]] = "marked"
       /\ exec'[token[j]] \in ExecType /\ exec'[token[j]].job = j
       /\ exec'[token[j]].scheduled /\ exec'[token[j]].slot = jobs[j].next
  /\ \A t \in Tokens : \/ exec'[t] = exec[t] /\ pc'[t] = pc[t] /\ \A j \in StartNow : token[j] # t
                       \/ \E j \in StartNow : token[j] = t
  /\ pc'[Loop] \in {"select", "persist"}
  /\ pc'[Loop] = "select" => jobs' = jobs /\ StartNow = {}
  /\ \A p \in Procs \ (Tokens \cup {Loop}) : pc'[p] = pc[p]

LEMMA TriggerDueTriggers ==
  ASSUME TypeInv, TriggerDue
  PROVE  /\ \E token \in [StartNow -> Unused] : Triggered(token)
         /\ exec' = [t \in Tokens |-> exec'[t]]
<1>1. Places /\ Executions /\ used \subseteq Jobs /\ CopiesAgree /\ Known \subseteq Jobs
  BY DEF TypeInv, Values, CopiesAgree
<1>2. PICK token \in [StartNow -> Unused] :
           /\ \A j, k \in StartNow : token[j] = token[k] => j = k
           /\ running' = [j \in DOMAIN running \cup StartNow |->
                            IF j \in StartNow THEN token[j] ELSE running[j]]
           /\ exec' = [t \in Tokens |-> exec'[t]]
           /\ \A j \in StartNow : /\ exec'[token[j]] = Mark(j, TRUE, jobs[j].next)
                                  /\ pc'[token[j]] = "marked"
           /\ \A t \in Tokens : (\A j \in StartNow : token[j] # t) =>
                                  exec'[t] = exec[t] /\ pc'[t] = pc[t]
           /\ pc'[Loop] \in {"select", "persist"}
           /\ (pc'[Loop] = "select" => jobs' = jobs /\ StartNow = {})
           /\ \A p \in Procs \ (Tokens \cup {Loop}) : pc'[p] = pc[p]
  BY <1>1, TriggerTokens
<1>3. \A j \in StartNow : /\ j \in Jobs /\ j \in used /\ jobs[j].next \in Nat
                          /\ token[j] \in Tokens /\ pc[token[j]] = "unused"
  BY <1>1, CopiesSound DEF StartNow, IsDue, Unused, Sound, JobType, Times
<1>4. ASSUME NEW j \in StartNow
      PROVE  /\ exec'[token[j]] \in ExecType /\ exec'[token[j]].job = j
             /\ exec'[token[j]].scheduled /\ exec'[token[j]].slot = jobs[j].next
  <2>1. exec'[token[j]] = Mark(j, TRUE, jobs[j].next) /\ j \in Jobs /\ jobs[j].next \in Times
    BY <1>2, <1>3 DEF Times
  <2> QED BY <2>1 DEF Mark, ExecType, Times
<1>5. Triggered(token)
  BY <1>2, <1>3, <1>4 DEF Triggered
<1> QED BY <1>2, <1>5

LEMMA ExecutionsTrigger ==
  ASSUME TypeInv, TriggerDue
  PROVE  Executions'
<1>1. Places /\ Executions
  BY DEF TypeInv
<1>2. PICK token \in [StartNow -> Unused] : Triggered(token)
  BY TriggerDueTriggers
<1>3. /\ pc[Loop] \in {"trigger", "select"} /\ call' = call /\ used' = used
      /\ exec' = [t \in Tokens |-> exec'[t]]
  BY TriggerDueTriggers DEF TriggerDue
<1>4. ASSUME NEW t \in Tokens
      PROVE  /\ exec'[t] \in IF InFlight(t)' THEN ExecType ELSE {None}
             /\ InFlight(t)' => exec'[t].job \in used'
             /\ InFlight(t)' /\ exec'[t].scheduled => exec'[t].slot \in Nat
             /\ pc'[t] \in {"run", "deliver"} => exec'[t].began \in Nat
             /\ pc'[t] = "marked" /\ exec'[t].scheduled => pc'[Loop] \in {"persist", "save"}
  <2>1. CASE \E j \in StartNow : token[j] = t
    <3>1. PICK j \in StartNow : token[j] = t
      BY <2>1
    <3>2. /\ pc'[t] = "marked" /\ InFlight(t)' /\ exec'[t] \in ExecType /\ exec'[t].job \in used'
          /\ exec'[t].slot \in Nat /\ pc'[Loop] = "persist"
      BY <1>2, <1>3, <3>1 DEF InFlight, Triggered
    <3> QED BY <3>2
  <2>2. CASE exec'[t] = exec[t] /\ pc'[t] = pc[t]
    <3>1. InFlight(t)' <=> InFlight(t)
      BY <2>2 DEF InFlight
    <3>2. ~(pc[t] = "marked" /\ exec[t].scheduled)
      BY <1>1, <1>3 DEF Executions
    <3> QED BY <1>1, <1>3, <2>2, <3>1, <3>2 DEF Executions
  <2> QED BY <1>2, <2>1, <2>2 DEF Triggered
<1>5. \A c \in Clients : pc'[c] = pc[c] /\ (Waits(c)' <=> Waits(c))
  BY <1>2, ProcAssumption DEF Triggered, Procs, Waits
<1>6. ASSUME NEW c \in Clients, Waits(c)'
      PROVE  /\ call'[c] \in Tokens /\ pc'[call'[c]] = "marked" /\ ~exec'[call'[c]].scheduled
             /\ \A d \in Clients : Waits(d)' /\ call'[d] = call'[c] => c = d
  <2>1. /\ call[c] \in Tokens /\ pc[call[c]] = "marked" /\ ~exec[call[c]].scheduled
        /\ \A d \in Clients : Waits(d) /\ call[d] = call[c] => c = d
    BY <1>1, <1>5, <1>6 DEF Executions
  <2>2. exec'[call[c]] = exec[call[c]] /\ pc'[call[c]] = pc[call[c]]
    BY <1>2, <2>1 DEF Triggered
  <2> QED BY <1>3, <1>5, <2>1, <2>2
<1>7. call' \in [Clients -> {None} \cup Tokens \cup Draft]
      /\ \A c \in Clients : pc'[c] = "update" => call'[c] \in Draft
  BY <1>1, <1>3, <1>5 DEF Executions
<1>8. exec' \in [Tokens -> ExecType \cup {None}]
  BY <1>3, <1>4
<1> QED BY <1>4, <1>6, <1>7, <1>8 DEF Executions
\* One goroutine moves on, and no execution.
LEMMA ExecutionsRest ==
  ASSUME Places, Executions, NEW p \in Procs, NEW to, pc' = [pc EXCEPT ![p] = to],
         exec' = exec, used \subseteq used',
         p \in Tokens => pc[p] \notin Ran /\ to \notin Ran,
         p = Loop => pc[p] \notin {"persist", "save"} \/ to \in {"persist", "save"},
         call' \in [Clients -> {None} \cup Tokens \cup Draft],
         \A c \in Clients : c # p => call'[c] = call[c],
         p \in Clients => \/ /\ call'[p] = call[p]
                             /\ to \in {"persistRun", "saveRun", "rollback"} => Waits(p)
                             /\ to = "update" => pc[p] = "update"
                          \/ /\ to \notin {"persistRun", "saveRun", "rollback"}
                             /\ to = "update" => call'[p] \in Draft
  PROVE  Executions'
<1>1. pc' = [q \in Procs |-> IF q = p THEN to ELSE pc[q]]
  BY DEF Places
<1>2. Loop \in Procs /\ Clients \subseteq Procs /\ Tokens \subseteq Procs
  BY DEF Procs
<1>3. \A t \in Tokens : pc'[t] = pc[t] \/ (pc[t] \notin Ran /\ pc'[t] \notin Ran)
  BY <1>1, <1>2
<1>4. pc[Loop] \in {"persist", "save"} => pc'[Loop] \in {"persist", "save"}
  BY <1>1, <1>2
<1>5. \A c \in Clients : \/ call'[c] = call[c] /\ (Waits(c)' => Waits(c))
                                 /\ (pc'[c] = "update" => pc[c] = "update")
                         \/ ~Waits(c)' /\ (pc'[c] = "update" => call'[c] \in Draft)
  BY <1>1, <1>2 DEF Waits
<1> QED BY <1>3, <1>4, <1>5, ExecutionsStay

LEMMA ExecutionsStep ==
  ASSUME TypeInv, Next
  PROVE  Executions'
<1>1. /\ Places /\ Executions /\ Registrations /\ CopiesAgree /\ Values
      /\ pc \in [Procs -> LoopPC \cup ClosePC \cup ClientPC \cup RunPC]
      /\ call \in [Clients -> {None} \cup Tokens \cup Draft]
      /\ Loop \in Procs /\ Closer \in Procs /\ Clients \subseteq Procs /\ Tokens \subseteq Procs
  BY DEF TypeInv, Executions, Places, Procs
<1> USE ProcAssumption
<1>2. CASE TriggerDue
  BY <1>2, ExecutionsTrigger
<1>3. CASE LoopSaved
  <2>1. /\ exec' = exec /\ call' = call /\ used' = used
        /\ \A t \in Tokens : pc'[t] = IF pc[t] = "marked" /\ exec[t].scheduled THEN "begin" ELSE pc[t]
        /\ \A c \in Clients : pc'[c] = pc[c]
    BY <1>1, <1>3 DEF LoopSaved, Save
  <2>2. \A t \in Tokens : InFlight(t)' <=> InFlight(t)
    BY <2>1 DEF InFlight
  <2>3. \A t \in Tokens : /\ exec'[t] \in IF InFlight(t)' THEN ExecType ELSE {None}
                          /\ InFlight(t)' => exec'[t].job \in used'
                          /\ InFlight(t)' /\ exec'[t].scheduled => exec'[t].slot \in Nat
                          /\ pc'[t] \in {"run", "deliver"} => exec'[t].began \in Nat
                          /\ pc'[t] = "marked" /\ exec'[t].scheduled => pc'[Loop] \in {"persist", "save"}
    BY <1>1, <2>1, <2>2 DEF Executions
  <2>4. \A c \in Clients : Waits(c)' => /\ call'[c] \in Tokens /\ pc'[call'[c]] = "marked"
                                        /\ ~exec'[call'[c]].scheduled
                                        /\ \A d \in Clients : Waits(d)' /\ call'[d] = call'[c] => c = d
    BY <1>1, <2>1 DEF Executions, Waits
  <2> QED BY <1>1, <2>1, <2>3, <2>4 DEF Executions
<1>4. CASE LoopExits
  BY <1>1, <1>4, ExecutionsRest DEF LoopExits, Go, histVars
<1>5. ASSUME NEW p \in Procs, Snapshot(p) PROVE Executions'
  <2>1. PICK to \in {"save", "saveRun"} :
          /\ pc' = [pc EXCEPT ![p] = to] /\ exec' = exec /\ call' = call /\ used' = used
          /\ pc[p] = IF to = "save" THEN "persist" ELSE "persistRun"
    BY <1>1, <1>5 DEF Snapshot, histVars
  <2>2. (p \in Tokens \/ p = Loop) => to = "save" /\ pc[p] \notin Ran
    BY <1>1, <2>1 DEF Places, LoopPC, RunPC, Ran
  <2> QED BY <1>1, <2>1, <2>2, ExecutionsRest DEF Ran, Waits
<1>6. ASSUME NEW t \in Tokens, NEW to, pc' = [pc EXCEPT ![t] = to], pc[t] \in {"begin", "run", "deliver"},
             call' = call, used' = used, NEW x \in ExecType \cup {None}, exec' = [exec EXCEPT ![t] = x],
             \/ to \notin Ran /\ x = None
             \/ /\ to \in {"run", "deliver"} /\ x \in ExecType /\ x.began \in Nat
                /\ x.job = exec[t].job /\ x.scheduled = exec[t].scheduled /\ x.slot = exec[t].slot
      PROVE  Executions'
  <2>1. exec[t].job \in used /\ (exec[t].scheduled => exec[t].slot \in Nat)
    BY <1>1, <1>6 DEF Executions, InFlight
  <2>2. /\ pc'[t] = to /\ \A p \in Procs : p # t => pc'[p] = pc[p]
    BY <1>1, <1>6
  <2>3. /\ \A u \in Tokens \ {t} : pc'[u] = pc[u]
        /\ pc'[Loop] = pc[Loop]
    BY <1>1, <2>2
  <2>4. ClientsFollow(t)
    <3>1. \A c \in Clients : Waits(c) => pc[call[c]] = "marked"
      BY <1>1 DEF Executions
    <3> QED BY <1>1, <1>6, <2>2, <3>1 DEF Waits, ClientsFollow
  <2>5. to # "marked"
    BY <1>6 DEF Ran
  <2> QED BY <1>1, <1>6, <2>1, <2>2, <2>3, <2>4, <2>5, ExecutionsMove DEF Ran
<1>6a. ASSUME NEW t \in Tokens, Begin(t) PROVE Executions'
  <2>1. pc[t] = "begin" /\ pc' = [pc EXCEPT ![t] = "run"] /\ call' = call /\ used' = used
    BY <1>6a DEF Begin, Go
  <2>2. exec[t] \in ExecType /\ now \in Nat
    BY <1>1, <2>1 DEF Executions, InFlight, Values
  <2> DEFINE x == [exec[t] EXCEPT !.began = now]
  <2>3. /\ x \in ExecType /\ x.job = exec[t].job /\ x.scheduled = exec[t].scheduled
        /\ x.slot = exec[t].slot /\ x.began \in Nat
    BY <2>2 DEF ExecType, Times
  <2>4. exec' = [exec EXCEPT ![t] = x]
    BY <1>6a DEF Begin
  <2> HIDE DEF x
  <2> QED BY <1>6, <2>1, <2>3, <2>4
<1>6b. ASSUME NEW t \in Tokens, Deliver(t) PROVE Executions'
  <2>1. pc[t] = "run" /\ pc' = [pc EXCEPT ![t] = "deliver"] /\ call' = call /\ used' = used /\ exec' = exec
    BY <1>6b DEF Deliver, Go, histVars
  <2>2. exec[t] \in ExecType /\ exec[t].began \in Nat /\ exec' = [exec EXCEPT ![t] = exec[t]]
    BY <1>1, <2>1 DEF Executions, InFlight
  <2> QED BY <1>6, <2>1, <2>2
<1>6c. ASSUME NEW t \in Tokens, FinishRun(t) PROVE Executions'
  <2>1. pc[t] \in {"run", "deliver"} /\ call' = call /\ used' = used /\ exec' = [exec EXCEPT ![t] = None]
    BY <1>6c DEF FinishRun, Free
  <2>2. PICK to \in {"persist", "unused"} : pc' = [pc EXCEPT ![t] = to]
    BY <1>6c DEF FinishRun
  <2>3. to \notin Ran
    BY <2>2 DEF Ran
  <2> QED BY <1>6, <2>1, <2>2, <2>3
<1>7. ASSUME NEW t \in Tokens, RunSaved(t) PROVE Executions'
  <2>1. pc[t] = "save" /\ pc' = [pc EXCEPT ![t] = "unused"] /\ exec' = exec /\ call' = call /\ used' = used
    BY <1>7 DEF RunSaved, Go, Save
  <2> QED BY <1>1, <2>1, ExecutionsRest DEF Ran
<1>8. ASSUME NEW c \in Clients, NEW j, NEW sched, Add(c, j, sched) PROVE Executions'
  <2>1. pc' = [pc EXCEPT ![c] = "persist"] /\ exec' = exec /\ call' = call /\ used \subseteq used'
    BY <1>8 DEF Add, Calls, Go
  <2> QED BY <1>1, <2>1, ExecutionsRest DEF Procs
<1>9. ASSUME NEW c \in Clients, NEW D, Remove(c, D) PROVE Executions'
  <2>1. pc' = [pc EXCEPT ![c] = "persist"] /\ exec' = exec /\ call' = call /\ used' = used
    BY <1>9 DEF Remove, Calls, Go
  <2> QED BY <1>1, <2>1, ExecutionsRest DEF Procs
<1>10. ASSUME NEW c \in Clients, NEW j \in DOMAIN jobs, NEW patch \in {"keep", "enable", "disable"},
              UpdateReads(c, j, patch)
       PROVE  Executions'
  <2>1. j \in Jobs /\ jobs[j] \in JobType /\ now \in Nat
    BY <1>1, CopiesSound DEF Values, Sound
  <2>2. call'[c] \in Draft /\ call' = [call EXCEPT ![c] = call'[c]]
    <3>1. PICK next : /\ next = Normalized([jobs[j] EXCEPT !.enabled = CASE patch = "enable"  -> TRUE
                                                          [] patch = "disable" -> FALSE
                                                          [] OTHER             -> @], now)
                      /\ call' = [call EXCEPT ![c] = [job |-> j, seen |-> jobs[j], next |-> next]]
      BY <1>10 DEF UpdateReads
    <3>2. next \in JobType
      BY <2>1, <3>1, PatchSound DEF Sound
    <3> QED BY <1>1, <2>1, <3>1, <3>2 DEF Draft
  <2>3. /\ pc' = [pc EXCEPT ![c] = "update"] /\ exec' = exec /\ used' = used
        /\ call' \in [Clients -> {None} \cup Tokens \cup Draft]
        /\ \A d \in Clients : d # c => call'[d] = call[d]
    BY <1>1, <1>10, <2>2 DEF UpdateReads, Calls, Go, histVars
  <2> QED BY <1>1, <2>2, <2>3, ExecutionsRest
<1>11. ASSUME NEW c \in Clients, UpdateWrites(c) PROVE Executions'
  <2>1. /\ pc' = [pc EXCEPT ![c] = "persist"] /\ exec' = exec /\ call' = [call EXCEPT ![c] = None]
        /\ used' = used
    BY <1>11 DEF UpdateWrites, Go
  <2> QED BY <1>1, <2>1, ExecutionsRest
<1>12. ASSUME NEW c \in Clients, ClientSaved(c) PROVE Executions'
  <2>1. pc' = [pc EXCEPT ![c] = "idle"] /\ exec' = exec /\ call' = call /\ used' = used
    BY <1>12 DEF ClientSaved, Go, Save
  <2> QED BY <1>1, <2>1, ExecutionsRest
<1>13. ASSUME NEW c \in Clients, NEW j, RunNowRefused(c, j) PROVE Executions'
  <2>1. pc' = pc /\ exec' = exec /\ call' = call /\ used' = used
    BY <1>13 DEF RunNowRefused, procVars, histVars
  <2> QED BY <1>1, <2>1, ExecutionsStay DEF Waits
<1>14. ASSUME NEW c \in Clients, NEW j \in DOMAIN jobs, RunNow(c, j) PROVE Executions'
  <2>1. j \in Jobs /\ j \in used
    BY <1>1, CopiesSound DEF Values
  <2>2. PICK t \in Tokens : pc[t] = "unused" /\ t = (CHOOSE u \in Unused : TRUE)
    BY <1>14 DEF RunNow, Unused
  <2>3. /\ pc' = [pc EXCEPT ![c] = "persistRun", ![t] = "marked"] /\ used' = used
        /\ exec' = [exec EXCEPT ![t] = Mark(j, FALSE, None)] /\ call' = [call EXCEPT ![c] = t]
    BY <1>14, <2>2 DEF RunNow, histVars
  <2> DEFINE x == Mark(j, FALSE, None)
  <2>4. x \in ExecType /\ x.job = j /\ ~x.scheduled /\ exec' = [exec EXCEPT ![t] = x]
    BY <2>1, <2>3 DEF Mark, ExecType, Times
  <2> HIDE DEF x
  <2>5. /\ pc'[t] = "marked" /\ pc'[c] = "persistRun" /\ c # t
        /\ \A p \in Procs : p # t /\ p # c => pc'[p] = pc[p]
    BY <1>1, <2>3
  <2>6. call'[c] = t /\ \A d \in Clients : d # c => call'[d] = call[d]
    BY <1>1, <2>3
  <2>7. \A d \in Clients : Waits(d) => call[d] # t
    BY <1>1, <2>2 DEF Executions
  <2>8. /\ \A u \in Tokens \ {t} : pc'[u] = pc[u]
        /\ pc'[Loop] = pc[Loop]
        /\ \A d \in Clients : d # c => pc'[d] = pc[d]
    BY <1>1, <2>5
  <2>9. ClientsFollow(t)
    BY <2>2, <2>5, <2>6, <2>7, <2>8 DEF Waits, ClientsFollow
  <2>10. call' \in [Clients -> {None} \cup Tokens \cup Draft] /\ "marked" \in Ran
    BY <1>1, <2>3 DEF Ran
  <2> QED BY <1>1, <2>1, <2>3, <2>4, <2>5, <2>8, <2>9, <2>10, ExecutionsMove DEF Ran
<1>15. ASSUME NEW c \in Clients, RunNowSaved(c) PROVE Executions'
  <2>1. /\ Waits(c) /\ pc[c] = "saveRun" /\ exec' = exec /\ used' = used
        /\ call[c] \in Tokens /\ pc[call[c]] = "marked"
        /\ \A d \in Clients : Waits(d) /\ call[d] = call[c] => c = d
    BY <1>1, <1>15 DEF RunNowSaved, Save, Waits, Executions
  <2>2. CASE pc' = [pc EXCEPT ![c] = "idle", ![call[c]] = "begin"] /\ call' = [call EXCEPT ![c] = None]
    <3>1. PICK t \in Tokens : t = call[c]
      BY <2>1
    <3>2. /\ pc'[t] = "begin" /\ pc'[c] = "idle" /\ c # t
          /\ \A p \in Procs : p # t /\ p # c => pc'[p] = pc[p]
      BY <1>1, <2>2, <3>1
    <3>3. /\ exec[t] \in ExecType /\ exec[t].job \in used /\ (exec[t].scheduled => exec[t].slot \in Nat)
          /\ exec' = [exec EXCEPT ![t] = exec[t]]
      BY <1>1, <2>1, <3>1 DEF Executions, InFlight
    <3>4. /\ \A u \in Tokens \ {t} : pc'[u] = pc[u]
          /\ pc'[Loop] = pc[Loop]
          /\ \A d \in Clients : d # c => pc'[d] = pc[d]
      BY <1>1, <3>2
    <3>5. ClientsFollow(t)
      BY <1>1, <2>1, <2>2, <3>1, <3>2, <3>4 DEF Waits, ClientsFollow
    <3>6. call' \in [Clients -> {None} \cup Tokens \cup Draft] /\ "begin" \in Ran
      BY <1>1, <2>2 DEF Ran
    <3> QED BY <1>1, <2>1, <3>2, <3>3, <3>4, <3>5, <3>6, ExecutionsMove DEF Ran
  <2>3. CASE pc' = [pc EXCEPT ![c] = "rollback"] /\ call' = call
    BY <1>1, <2>1, <2>3, ExecutionsRest
  <2> QED BY <1>15, <2>2, <2>3 DEF RunNowSaved
<1>16. ASSUME NEW c \in Clients, RunNowRollback(c) PROVE Executions'
  <2>1. /\ Waits(c) /\ used' = used
        /\ call[c] \in Tokens /\ pc[call[c]] = "marked"
        /\ \A d \in Clients : Waits(d) /\ call[d] = call[c] => c = d
    BY <1>1, <1>16 DEF RunNowRollback, Waits, Executions
  <2>2. PICK t \in Tokens : t = call[c]
    BY <2>1
  <2>3. /\ pc' = [pc EXCEPT ![c] = "idle", ![t] = "unused"] /\ call' = [call EXCEPT ![c] = None]
        /\ exec' = [exec EXCEPT ![t] = None]
    BY <1>16, <2>2 DEF RunNowRollback, Free
  <2>4. /\ pc'[t] = "unused" /\ pc'[c] = "idle" /\ c # t
        /\ \A p \in Procs : p # t /\ p # c => pc'[p] = pc[p]
    BY <1>1, <2>3
  <2>5. /\ \A u \in Tokens \ {t} : pc'[u] = pc[u]
        /\ pc'[Loop] = pc[Loop]
        /\ \A d \in Clients : d # c => pc'[d] = pc[d]
    BY <1>1, <2>4
  <2>6. ClientsFollow(t)
    BY <1>1, <2>1, <2>2, <2>3, <2>4, <2>5 DEF Waits, ClientsFollow
  <2>7. call' \in [Clients -> {None} \cup Tokens \cup Draft] /\ "unused" \notin Ran
    BY <1>1, <2>3 DEF Ran
  <2> QED BY <1>1, <2>1, <2>3, <2>4, <2>5, <2>6, <2>7, ExecutionsMove DEF Ran
<1>17. CASE CloseStops \/ CloseCancels \/ CloseWaited
  <2>1. PICK to \in {"cancel", "wait", "persist"} :
          pc' = [pc EXCEPT ![Closer] = to] /\ exec' = exec /\ call' = call /\ used' = used
    <3>1. CASE CloseStops
      BY <3>1 DEF CloseStops, Go
    <3>2. CASE CloseCancels
      BY <3>2 DEF CloseCancels, Go, histVars
    <3>3. CASE CloseWaited
      BY <3>3 DEF CloseWaited, Go, histVars
    <3> QED BY <1>17, <3>1, <3>2, <3>3
  <2> QED BY <1>1, <2>1, ExecutionsRest
<1>18. CASE CloseSaved
  <2>1. pc' = [pc EXCEPT ![Closer] = "closed"] /\ exec' = exec /\ call' = call /\ used' = used
    BY <1>18 DEF CloseSaved, Go, Save
  <2> QED BY <1>1, <2>1, ExecutionsRest
<1>19. CASE Restart
  <2>1. /\ pc' = FirstPC /\ exec' = [t \in Tokens |-> None] /\ call' = [c \in Clients |-> None]
        /\ used' = used
    BY <1>19 DEF Restart
  <2>2. /\ \A t \in Tokens : pc'[t] = "unused"
        /\ \A c \in Clients : pc'[c] = "idle"
    BY <1>1, <2>1 DEF FirstPC
  <2> QED BY <2>1, <2>2 DEF Executions, InFlight, Waits
<1>20. CASE Tick
  <2>1. pc' = pc /\ exec' = exec /\ call' = call /\ used' = used
    BY <1>20 DEF Tick, procVars, histVars
  <2> QED BY <1>1, <2>1, ExecutionsStay DEF Waits
<1> QED BY <1>2, <1>3, <1>4, <1>5, <1>6a, <1>6b, <1>6c, <1>7, <1>8, <1>9, <1>10, <1>11, <1>12, <1>13, <1>14, <1>15,
           <1>16, <1>17, <1>18, <1>19, <1>20, Steps
--------------------------------------------------------------------------------
(* The steps that leave executions and registrations as they are.          *)

Still ==
  /\ running' = running /\ canceled' = canceled /\ suppressed' = suppressed /\ stopping' = stopping
  /\ withdrawn' = withdrawn /\ rolledBack' = rolledBack
  /\ DOMAIN jobs \subseteq DOMAIN jobs'
  /\ \A t \in Tokens : /\ InFlight(t)' <=> InFlight(t)
                       /\ exec'[t].job = exec[t].job /\ exec'[t].scheduled = exec[t].scheduled
                       /\ exec'[t].slot = exec[t].slot

Disturbs ==
  \/ TriggerDue
  \/ \E t \in Tokens : FinishRun(t)
  \/ \E c \in Clients : \/ \E D \in SUBSET DOMAIN jobs : Remove(c, D)
                        \/ UpdateWrites(c)
                        \/ \E j \in DOMAIN jobs : RunNow(c, j)
                        \/ RunNowRollback(c)
  \/ CloseStops \/ CloseCancels \/ Restart

LEMMA StillOrNot ==
  ASSUME TypeInv, Next
  PROVE  Still \/ Disturbs
<1>1. /\ Places /\ Executions /\ pc \in [Procs -> LoopPC \cup ClosePC \cup ClientPC \cup RunPC]
      /\ exec \in [Tokens -> ExecType \cup {None}]
      /\ Loop \in Procs /\ Closer \in Procs /\ Clients \subseteq Procs /\ Tokens \subseteq Procs
  BY DEF TypeInv, Executions, Places, Procs
<1> USE ProcAssumption
<1>2. ASSUME UNCHANGED <<svcVars, exec, withdrawn, rolledBack>>, \A t \in Tokens : InFlight(t)' <=> InFlight(t)
      PROVE  Still
  BY <1>2 DEF Still, svcVars
<1>3. ASSUME NEW p \in Procs, NEW to, pc' = [pc EXCEPT ![p] = to], p \in Tokens => (pc[p] \in Ran <=> to \in Ran)
      PROVE  \A t \in Tokens : InFlight(t)' <=> InFlight(t)
  BY <1>1, <1>3 DEF InFlight, Ran
<1>4. CASE LoopSaved
  <2>1. \A t \in Tokens : InFlight(t)' <=> InFlight(t)
    BY <1>1, <1>4 DEF LoopSaved, InFlight
  <2> QED BY <1>2, <1>4, <2>1 DEF LoopSaved, Save, svcVars
<1>5. CASE LoopExits
  BY <1>1, <1>2, <1>3, <1>5 DEF LoopExits, Go, svcVars, histVars
<1>6. ASSUME NEW p \in Procs, Snapshot(p) PROVE Still
  <2>1. PICK to \in {"save", "saveRun"} : pc' = [pc EXCEPT ![p] = to] /\ pc[p] \notin Ran /\ to \notin Ran
    BY <1>1, <1>6 DEF Snapshot, Ran
  <2> QED BY <1>2, <1>3, <1>6, <2>1 DEF Snapshot, svcVars, histVars
<1>7. ASSUME NEW t \in Tokens, Begin(t) PROVE Still
  <2>1. pc' = [pc EXCEPT ![t] = "run"] /\ pc[t] \in Ran /\ "run" \in Ran
    BY <1>7 DEF Begin, Go, Ran
  <2>2. exec[t] \in ExecType
    BY <1>1, <1>7 DEF Executions, InFlight, Begin, Go
  <2>3. exec' = [exec EXCEPT ![t] = [exec[t] EXCEPT !.began = now]]
    BY <1>7 DEF Begin
  <2>4. \A u \in Tokens : /\ exec'[u].job = exec[u].job /\ exec'[u].scheduled = exec[u].scheduled
                          /\ exec'[u].slot = exec[u].slot
    BY <1>1, <2>2, <2>3 DEF ExecType
  <2>5. \A u \in Tokens : InFlight(u)' <=> InFlight(u)
    BY <1>1, <1>3, <2>1
  <2>6. UNCHANGED <<svcVars, withdrawn, rolledBack>>
    BY <1>7 DEF Begin
  <2> QED BY <2>4, <2>5, <2>6 DEF svcVars, Still
<1>8. ASSUME NEW t \in Tokens, Deliver(t) PROVE Still
  <2>1. pc' = [pc EXCEPT ![t] = "deliver"] /\ pc[t] \in Ran /\ "deliver" \in Ran
    BY <1>8 DEF Deliver, Go, Ran
  <2> QED BY <1>1, <1>2, <1>3, <1>8, <2>1 DEF Deliver, svcVars, histVars
<1>9. ASSUME NEW t \in Tokens, RunSaved(t) PROVE Still
  <2>1. pc' = [pc EXCEPT ![t] = "unused"] /\ pc[t] \notin Ran /\ "unused" \notin Ran
    BY <1>9 DEF RunSaved, Go, Ran
  <2> QED BY <1>1, <1>2, <1>3, <1>9, <2>1 DEF RunSaved, Save, svcVars
<1>10. ASSUME NEW c \in Clients, NEW to, pc' = [pc EXCEPT ![c] = to] PROVE \A t \in Tokens : InFlight(t)' <=> InFlight(t)
  BY <1>1, <1>3, <1>10
<1>11. ASSUME NEW c \in Clients, NEW j, NEW sched, Add(c, j, sched) PROVE Still
  <2>1. \A t \in Tokens : InFlight(t)' <=> InFlight(t)
    BY <1>10, <1>11 DEF Add, Go
  <2>2. DOMAIN jobs \subseteq DOMAIN jobs'
    BY <1>11 DEF Add, With
  <2> QED BY <1>11, <2>1, <2>2 DEF Add, Still
<1>12. ASSUME NEW c \in Clients, NEW j, NEW patch, UpdateReads(c, j, patch) PROVE Still
  BY <1>2, <1>10, <1>12 DEF UpdateReads, Go, svcVars, histVars
<1>13. ASSUME NEW c \in Clients, ClientSaved(c) PROVE Still
  BY <1>2, <1>10, <1>13 DEF ClientSaved, Save, Go, svcVars
<1>14. ASSUME NEW c \in Clients, NEW j, RunNowRefused(c, j) PROVE Still
  BY <1>14 DEF RunNowRefused, Still, procVars, histVars, InFlight
<1>15. ASSUME NEW c \in Clients, RunNowSaved(c) PROVE Still
  <2>1. call[c] \in Tokens /\ pc[call[c]] = "marked"
    BY <1>1, <1>15 DEF RunNowSaved, Executions, Waits
  <2>2. \A t \in Tokens : InFlight(t)' <=> InFlight(t)
    BY <1>1, <1>15, <2>1 DEF RunNowSaved, InFlight
  <2> QED BY <1>2, <1>15, <2>2 DEF RunNowSaved, Save, svcVars
<1>16. CASE CloseWaited
  BY <1>1, <1>2, <1>3, <1>16 DEF CloseWaited, Go, svcVars, histVars
<1>17. CASE CloseSaved
  BY <1>1, <1>2, <1>3, <1>17 DEF CloseSaved, Save, Go, svcVars
<1>18. CASE Tick
  BY <1>2, <1>18 DEF Tick, InFlight, procVars, svcVars, histVars
<1> QED BY <1>4, <1>5, <1>6, <1>7, <1>8, <1>9, <1>11, <1>12, <1>13, <1>14, <1>15, <1>16, <1>17, <1>18,
           Steps DEF Disturbs
--------------------------------------------------------------------------------
(* Every step keeps the other values, and the registrations.               *)

LEMMA RunsOfJobs ==
  ASSUME Registrations, NEW D
  PROVE  /\ Registered(D) \subseteq Tokens /\ InFlightOf(D) \subseteq Tokens
         /\ \A j \in DOMAIN running : j \in D => running[j] \in Registered(D)
BY DEF Registrations, Registered, InFlightOf

LEMMA SavedValues ==
  ASSUME Values, NEW p, Save(p), Written(p) \/ NotWritten, UNCHANGED <<svcVars, withdrawn>>
  PROVE  Values'
<1>1. events' \in 0..MaxEvents
  BY BoundAssumption DEF Written, NotWritten, Event, Values
<1>2. unsaved' \in BOOLEAN
  BY DEF Written, NotWritten
<1> QED BY <1>1, <1>2 DEF Values, Save, svcVars

LEMMA ValuesStep ==
  ASSUME TypeInv, Next
  PROVE  Values'
<1>1. Values /\ Executions /\ Registrations
  BY DEF TypeInv
<1>2. ASSUME UNCHANGED <<svcVars, boundVars, histVars>> PROVE Values'
  BY <1>1, <1>2 DEF Values, svcVars, boundVars, histVars
<1>3. ASSUME Event PROVE events' \in 0..MaxEvents
  BY <1>1, <1>3, BoundAssumption DEF Event, Values
<1>4. ASSUME canceled' \cup suppressed' \cup withdrawn' \subseteq Tokens, stopping' \in BOOLEAN, now' = now,
             events' \in 0..MaxEvents, used \subseteq used', used' \subseteq Jobs,
             unsaved' = unsaved, rolledBack' \in BOOLEAN, tainted' = tainted, patched' = patched,
             begun' = begun, slots' = slots
      PROVE  Values'
  BY <1>1, <1>4 DEF Values
<1>5. /\ events \in 0..MaxEvents /\ stopping \in BOOLEAN /\ rolledBack \in BOOLEAN /\ used \subseteq Jobs
      /\ canceled \subseteq Tokens /\ suppressed \subseteq Tokens /\ withdrawn \subseteq Tokens
  BY <1>1 DEF Values
<1>6. CASE TriggerDue
  <2>1. canceled' \cup suppressed' \cup withdrawn' \subseteq Tokens
    BY <1>1, <1>5, <1>6, RunsOfJobs DEF TriggerDue, ReplacedRuns
  <2> QED BY <1>4, <1>5, <1>6, <2>1 DEF TriggerDue, boundVars
<1>7. CASE LoopSaved
  BY <1>1, <1>7, SavedValues DEF LoopSaved
<1>8. CASE LoopExits
  BY <1>2, <1>8 DEF LoopExits
<1>9. ASSUME NEW p, Snapshot(p) PROVE Values'
  BY <1>2, <1>9 DEF Snapshot
<1>10. ASSUME NEW t \in Tokens, Begin(t) PROVE Values'
  <2>1. exec[t].job \in used /\ (exec[t].scheduled => exec[t].slot \in Nat)
    BY <1>1, <1>10 DEF Begin, Go, Executions, InFlight
  <2>2. begun' \in [Jobs -> Nat] /\ \A j \in Jobs : j # exec[t].job => begun'[j] = begun[j]
    <3>1. begun \in [Jobs -> Nat]
      BY <1>1 DEF Values
    <3>2. \/ begun' = [begun EXCEPT ![exec[t].job] = @ + 1]
          \/ begun' = [begun EXCEPT ![exec[t].job] = @]
      BY <1>10 DEF Begin
    <3> QED BY <3>1, <3>2
  <2>3. slots' \in [Jobs -> SUBSET Nat] /\ \A j \in Jobs : j # exec[t].job => slots'[j] = slots[j]
    BY <1>1, <1>10, <2>1 DEF Begin, Values
  <2>4. UNCHANGED <<svcVars, boundVars, used, patched, withdrawn, unsaved, rolledBack, tainted>>
    BY <1>10 DEF Begin
  <2> QED BY <1>1, <2>1, <2>2, <2>3, <2>4 DEF Values, svcVars, boundVars
<1>11. ASSUME NEW t, Deliver(t) PROVE Values'
  BY <1>2, <1>11 DEF Deliver
<1>12. ASSUME NEW t \in Tokens, FinishRun(t) PROVE Values'
  BY <1>4, <1>5, <1>12 DEF FinishRun, Free, boundVars
<1>13. ASSUME NEW t, RunSaved(t) PROVE Values'
  BY <1>1, <1>13, SavedValues DEF RunSaved
<1>14. ASSUME NEW c, NEW j \in Jobs, NEW sched, Add(c, j, sched) PROVE Values'
  BY <1>3, <1>4, <1>5, <1>14 DEF Add, Calls
<1>15. ASSUME NEW c, NEW D, Remove(c, D) PROVE Values'
  <2>1. canceled' \cup suppressed' \cup withdrawn' \subseteq Tokens
    BY <1>1, <1>5, <1>15, RunsOfJobs DEF Remove
  <2> QED BY <1>3, <1>4, <1>5, <1>15, <2>1 DEF Remove, Calls
<1>16. ASSUME NEW c, NEW j, NEW patch, UpdateReads(c, j, patch) PROVE Values'
  <2>1. events' \in 0..MaxEvents /\ now' = now
    BY <1>3, <1>16 DEF UpdateReads, Calls
  <2> QED BY <1>4, <1>5, <1>16, <2>1 DEF UpdateReads, svcVars, histVars
<1>17. ASSUME NEW c, UpdateWrites(c) PROVE Values'
  <2>1. suppressed' \cup withdrawn' \subseteq Tokens
    BY <1>1, <1>5, <1>17, RunsOfJobs DEF UpdateWrites
  <2>2. patched' \in [Jobs -> {"never", "clean", "overtaken"}] /\ slots' \in [Jobs -> SUBSET Nat]
        /\ \A j \in Jobs : slots'[j] \in {slots[j], {}}
    BY <1>1, <1>17 DEF UpdateWrites, Values
  <2> QED BY <1>1, <1>17, <2>1, <2>2 DEF UpdateWrites, Values, boundVars
<1>18. ASSUME NEW c, ClientSaved(c) PROVE Values'
  BY <1>1, <1>18, SavedValues DEF ClientSaved
<1>19. ASSUME NEW c, NEW j, RunNow(c, j) \/ RunNowRefused(c, j) PROVE Values'
  <2>1. UNCHANGED <<canceled, suppressed, stopping, histVars, now>> /\ Event
    BY <1>19 DEF RunNow, RunNowRefused, Calls
  <2> QED BY <1>3, <1>4, <1>5, <2>1 DEF histVars
<1>20. ASSUME NEW c, RunNowSaved(c) PROVE Values'
  BY <1>1, <1>20, SavedValues DEF RunNowSaved
<1>21. ASSUME NEW c, RunNowRollback(c) PROVE Values'
  BY <1>4, <1>5, <1>21 DEF RunNowRollback, Free, boundVars
<1>22. CASE CloseStops
  <2>1. canceled' \cup suppressed' \cup withdrawn' \subseteq Tokens
    BY <1>1, <1>5, <1>22, RunsOfJobs DEF CloseStops, StopAllRuns
  <2> QED BY <1>4, <1>5, <1>22, <2>1 DEF CloseStops, boundVars
<1>23. CASE CloseCancels
  BY <1>4, <1>5, <1>23 DEF CloseCancels, boundVars, histVars
<1>24. CASE CloseWaited
  BY <1>2, <1>24 DEF CloseWaited
<1>25. CASE CloseSaved
  BY <1>1, <1>25, SavedValues DEF CloseSaved
<1>26. CASE Restart
  <2>1. UNCHANGED <<now, used, patched, begun>> /\ events' \in 0..MaxEvents
    BY <1>3, <1>26 DEF Restart
  <2>2. /\ canceled' = {} /\ suppressed' = {} /\ withdrawn' = {} /\ stopping' = FALSE
        /\ unsaved' = FALSE /\ rolledBack' = FALSE /\ tainted' = (tainted \/ unsaved)
        /\ slots' = [j \in Jobs |-> {}]
    BY <1>26 DEF Restart
  <2> QED BY <1>1, <2>1, <2>2 DEF Values
<1>27. CASE Tick
  BY <1>1, <1>27, BoundAssumption DEF Tick, Values, svcVars, histVars
<1> QED BY <1>6, <1>7, <1>8, <1>9, <1>10, <1>11, <1>12, <1>13, <1>14, <1>15, <1>16, <1>17, <1>18, <1>19,
           <1>20, <1>21, <1>22, <1>23, <1>24, <1>25, <1>26, <1>27, Steps
\* What TriggerDue, FinishRun and RunNowRollback do to an execution that is not theirs.
LEMMA OthersStay ==
  ASSUME TypeInv
  PROVE  /\ TriggerDue => \A t \in Tokens : InFlight(t) => exec'[t] = exec[t] /\ pc'[t] = pc[t]
         /\ \A t \in Tokens : FinishRun(t) =>
              \A u \in Tokens \ {t} : exec'[u] = exec[u] /\ pc'[u] = pc[u]
         /\ \A c \in Clients : RunNowRollback(c) =>
              /\ call[c] \in Tokens /\ pc[call[c]] = "marked" /\ pc'[call[c]] = "unused"
              /\ \A u \in Tokens \ {call[c]} : exec'[u] = exec[u] /\ pc'[u] = pc[u]
         /\ \A c \in Clients : \A j \in DOMAIN jobs : RunNow(c, j) =>
              \E t \in Tokens : /\ t = (CHOOSE u \in Unused : TRUE) /\ pc[t] = "unused" /\ pc'[t] = "marked"
                                /\ exec'[t] \in ExecType /\ exec'[t].job = j /\ ~exec'[t].scheduled
                                /\ \A u \in Tokens \ {t} : exec'[u] = exec[u] /\ pc'[u] = pc[u]
<1>1. /\ Places /\ Executions /\ pc \in [Procs -> LoopPC \cup ClosePC \cup ClientPC \cup RunPC]
      /\ exec \in [Tokens -> ExecType \cup {None}] /\ CopiesAgree /\ used \subseteq Jobs
      /\ Loop \in Procs /\ Closer \in Procs /\ Clients \subseteq Procs /\ Tokens \subseteq Procs
  BY DEF TypeInv, Executions, Places, Procs, Values
<1>2. ASSUME TriggerDue PROVE \A t \in Tokens : InFlight(t) => exec'[t] = exec[t] /\ pc'[t] = pc[t]
  <2>1. PICK token \in [StartNow -> Unused] : Triggered(token)
    BY <1>2, TriggerDueTriggers
  <2> QED BY <2>1 DEF Triggered, InFlight
<1>3. ASSUME NEW t \in Tokens, FinishRun(t), NEW u \in Tokens \ {t}
      PROVE  exec'[u] = exec[u] /\ pc'[u] = pc[u]
  <2>1. exec' = [exec EXCEPT ![t] = None] /\ \E to : pc' = [pc EXCEPT ![t] = to]
    BY <1>3 DEF FinishRun, Free
  <2> QED BY <1>1, <1>3, <2>1
<1>4. ASSUME NEW c \in Clients, RunNowRollback(c)
      PROVE  /\ call[c] \in Tokens /\ pc[call[c]] = "marked" /\ pc'[call[c]] = "unused"
             /\ \A u \in Tokens \ {call[c]} : exec'[u] = exec[u] /\ pc'[u] = pc[u]
  <2>1. call[c] \in Tokens /\ pc[call[c]] = "marked"
    BY <1>1, <1>4 DEF RunNowRollback, Executions, Waits
  <2>2. exec' = [exec EXCEPT ![call[c]] = None] /\ pc' = [pc EXCEPT ![c] = "idle", ![call[c]] = "unused"]
    BY <1>4 DEF RunNowRollback, Free
  <2> QED BY <1>1, <2>1, <2>2, ProcAssumption
<1>5. ASSUME NEW c \in Clients, NEW j \in DOMAIN jobs, RunNow(c, j)
      PROVE  \E t \in Tokens : /\ t = (CHOOSE u \in Unused : TRUE) /\ pc[t] = "unused" /\ pc'[t] = "marked"
                               /\ exec'[t] \in ExecType /\ exec'[t].job = j /\ ~exec'[t].scheduled
                               /\ \A u \in Tokens \ {t} : exec'[u] = exec[u] /\ pc'[u] = pc[u]
  <2>1. PICK t \in Tokens : t = (CHOOSE u \in Unused : TRUE) /\ pc[t] = "unused"
    BY <1>5 DEF RunNow, Unused
  <2>2. exec' = [exec EXCEPT ![t] = Mark(j, FALSE, None)]
        /\ pc' = [pc EXCEPT ![c] = "persistRun", ![t] = "marked"]
    BY <1>5, <2>1 DEF RunNow
  <2>3. j \in Jobs
    BY <1>1, CopiesSound
  <2>4. Mark(j, FALSE, None) \in ExecType /\ Mark(j, FALSE, None).job = j /\ ~Mark(j, FALSE, None).scheduled
    BY <2>3 DEF Mark, ExecType, Times
  <2>5. exec'[t] = Mark(j, FALSE, None) /\ pc'[t] = "marked"
        /\ \A u \in Tokens \ {t} : exec'[u] = exec[u] /\ pc'[u] = pc[u]
    BY <1>1, <2>2, ProcAssumption
  <2> QED BY <2>1, <2>4, <2>5
<1> QED BY <1>2, <1>3, <1>4, <1>5

LEMMA RegistrationsStep ==
  ASSUME TypeInv, Next
  PROVE  Registrations'
<1>1. Registrations /\ Executions
  BY DEF TypeInv
<1>2. ASSUME DOMAIN running' \subseteq DOMAIN running,
             \A j \in DOMAIN running' :
               /\ running'[j] = running[j]
               /\ InFlight(running[j])' /\ exec'[running[j]].job = exec[running[j]].job
      PROVE  Registrations'
  BY <1>1, <1>2 DEF Registrations, InFlight
<1>3. CASE Still
  BY <1>1, <1>2, <1>3 DEF Still, Registrations
<1>4. CASE TriggerDue
  <2>1. PICK token \in [StartNow -> Unused] : Triggered(token)
    BY <1>4, TriggerDueTriggers
  <2>2. \A t \in Tokens : InFlight(t) => exec'[t] = exec[t] /\ InFlight(t)'
    BY <1>4, OthersStay DEF InFlight
  <2> QED BY <1>1, <2>1, <2>2 DEF Registrations, Triggered, InFlight
<1>5. ASSUME NEW t \in Tokens, FinishRun(t) PROVE Registrations'
  <2>1. running' = IF IsRegistered(t) \/ exec[t].job \notin DOMAIN jobs
                   THEN Without(running, {exec[t].job}) ELSE running
    BY <1>5 DEF FinishRun, Deregister
  <2>2. /\ DOMAIN running' \subseteq DOMAIN running
        /\ \A j \in DOMAIN running' : running'[j] = running[j] /\ running[j] # t
    BY <1>1, <2>1 DEF Without, IsRegistered, Registrations
  <2> QED BY <1>1, <1>2, <1>5, <2>2, OthersStay DEF Registrations, InFlight
<1>6. ASSUME NEW c \in Clients, RunNowRollback(c) PROVE Registrations'
  <2>1. running' = Without(running, {exec[call[c]].job})
    BY <1>6 DEF RunNowRollback
  <2>2. /\ DOMAIN running' \subseteq DOMAIN running
        /\ \A j \in DOMAIN running' : running'[j] = running[j] /\ running[j] # call[c]
    BY <1>1, <2>1 DEF Without, Registrations
  <2> QED BY <1>1, <1>2, <1>6, <2>2, OthersStay DEF Registrations, InFlight
<1>7. ASSUME NEW c \in Clients, NEW j \in DOMAIN jobs, RunNow(c, j) PROVE Registrations'
  <2>1. PICK t \in Tokens : /\ t = (CHOOSE u \in Unused : TRUE) /\ pc[t] = "unused" /\ pc'[t] = "marked"
                            /\ exec'[t] \in ExecType /\ exec'[t].job = j
                            /\ \A u \in Tokens \ {t} : exec'[u] = exec[u] /\ pc'[u] = pc[u]
    BY <1>7, OthersStay
  <2>2. running' = [k \in DOMAIN running \cup {j} |-> IF k = j THEN t ELSE running[k]]
    BY <1>7, <2>1 DEF RunNow, With
  <2>3. j \in Jobs
    BY CopiesSound DEF TypeInv, Values
  <2> QED BY <1>1, <2>1, <2>2, <2>3 DEF Registrations, InFlight
<1>8. ASSUME NEW c \in Clients, NEW to, pc' = [pc EXCEPT ![c] = to], UNCHANGED <<exec, running>>
      PROVE  Registrations'
  <2>1. \A t \in Tokens : pc'[t] = pc[t]
    BY <1>8, ProcAssumption DEF TypeInv, Places, Procs
  <2> QED BY <1>1, <1>8, <2>1 DEF Registrations, InFlight
<1>9. ASSUME NEW c \in Clients, NEW D, Remove(c, D) \/ UpdateWrites(c) PROVE Registrations'
  BY <1>8, <1>9 DEF Remove, UpdateWrites, Go
<1>10. CASE CloseStops \/ CloseCancels
  <2>1. \A t \in Tokens : pc'[t] = pc[t]
    BY <1>10, ProcAssumption DEF CloseStops, CloseCancels, Go, TypeInv, Places, Procs
  <2> QED BY <1>1, <1>10, <2>1 DEF CloseStops, CloseCancels, Registrations, InFlight
<1>11. CASE Restart
  BY <1>11 DEF Restart, NoJobs, Registrations
<1> QED BY <1>3, <1>4, <1>5, <1>6, <1>7, <1>9, <1>10, <1>11, StillOrNot DEF Disturbs
--------------------------------------------------------------------------------
(* An execution that nobody told to stop is the registered one of its job. *)

\* A step that changes no registration, and tells nobody but withdrawn executions.
LEMMA AloneKept ==
  ASSUME Registrations, Alone, running' = running, canceled \subseteq canceled', stopping => stopping',
         rolledBack' = rolledBack, \A j \in DOMAIN running : j \in DOMAIN jobs \ DOMAIN jobs' => running[j] \in canceled',
         \A t \in Tokens : /\ InFlight(t)' <=> InFlight(t)
                           /\ exec'[t].job = exec[t].job /\ exec'[t].scheduled = exec[t].scheduled
  PROVE  Alone'
<1>1. \A t \in Tokens : /\ CtxDone(t) => CtxDone(t)'
                        /\ IsRegistered(t)' <=> IsRegistered(t)
  BY DEF CtxDone, IsRegistered
<1> QED BY <1>1 DEF Alone

\* The token t is forgotten, and with it at most the registration of its job.
LEMMA AloneFreed ==
  ASSUME Registrations, Alone, NEW t \in Tokens, ~InFlight(t)', canceled' = canceled \ {t},
         stopping' = stopping, \A u \in Tokens \ {t} : exec'[u] = exec[u] /\ pc'[u] = pc[u],
         DOMAIN jobs' = DOMAIN jobs,
         \/ running' = running /\ ~IsRegistered(t)
         \/ /\ running' = Without(running, {exec[t].job})
            /\ rolledBack' \/ IsRegistered(t) \/ exec[t].job \notin DOMAIN jobs,
         rolledBack => rolledBack', InFlight(t)
  PROVE  Alone'
<1>1. \A u \in Tokens : InFlight(u)' => u # t /\ InFlight(u) /\ exec'[u] = exec[u]
  BY DEF InFlight
<1>2. \A j \in DOMAIN running' : j \in DOMAIN running /\ running'[j] = running[j] /\ running[j] # t
  BY DEF Without, IsRegistered, Registrations
<1>3. \A j \in DOMAIN running' : j \notin DOMAIN jobs' => running'[j] \in canceled'
  BY <1>2 DEF Alone
<1>4. ASSUME ~rolledBack', NEW u \in Tokens, InFlight(u)'
      PROVE  CtxDone(u)' \/ IsRegistered(u)'
  <2>1. CASE CtxDone(u)
    BY <1>1, <1>4, <2>1 DEF CtxDone
  <2>2. CASE ~CtxDone(u)
    <3>1. IsRegistered(u) /\ u \notin canceled
      BY <1>1, <1>4, <2>2 DEF Alone, CtxDone
    <3>2. exec[u].job \in DOMAIN running'
      BY <1>1, <1>4, <3>1 DEF Alone, IsRegistered, Without
    <3> QED BY <1>1, <1>2, <1>4, <3>1, <3>2 DEF IsRegistered
  <2> QED BY <2>1, <2>2
<1> QED BY <1>3, <1>4 DEF Alone

LEMMA AloneStep ==
  ASSUME TypeInv, Alone, Next
  PROVE  Alone'
<1>1. Registrations /\ Executions
  BY DEF TypeInv
<1>2. CASE Still
  BY <1>1, <1>2, AloneKept DEF Still
<1>3. CASE TriggerDue
  <2>1. PICK token \in [StartNow -> Unused] : Triggered(token)
    BY <1>3, TriggerDueTriggers
  <2>2. /\ DOMAIN jobs' = DOMAIN jobs /\ rolledBack' = rolledBack /\ stopping' = stopping
        /\ canceled' = canceled \cup ReplacedRuns
    BY <1>3 DEF TriggerDue
  <2>3. \A j \in DOMAIN running : j \in StartNow => running[j] \in canceled'
    BY <1>1, <2>2, RunsOfJobs DEF ReplacedRuns
  <2>4. \A t \in Tokens : \/ InFlight(t) /\ exec'[t] = exec[t] /\ pc'[t] = pc[t]
                          \/ ~InFlight(t)'
                          \/ \E j \in StartNow : token[j] = t
    BY <2>1 DEF Triggered, InFlight
  <2>5. ASSUME ~rolledBack, NEW t \in Tokens, InFlight(t)' PROVE CtxDone(t)' \/ IsRegistered(t)'
    <3>1. CASE \E j \in StartNow : token[j] = t
      BY <2>1, <3>1 DEF Triggered, IsRegistered
    <3>2. CASE InFlight(t) /\ exec'[t] = exec[t]
      <4>1. CtxDone(t) \/ IsRegistered(t)
        BY <2>5, <3>2 DEF Alone
      <4>2. CASE CtxDone(t)
        BY <2>2, <3>2, <4>2 DEF CtxDone
      <4>3. CASE IsRegistered(t) /\ exec[t].job \in StartNow
        BY <2>3, <4>3 DEF IsRegistered, CtxDone
      <4>4. CASE IsRegistered(t) /\ exec[t].job \notin StartNow
        BY <2>1, <3>2, <4>4 DEF IsRegistered, Triggered
      <4> QED BY <4>1, <4>2, <4>3, <4>4
    <3> QED BY <2>4, <2>5, <3>1, <3>2
  <2>6. \A j \in DOMAIN running' : j \notin DOMAIN jobs' => running'[j] \in canceled'
    <3>1. \A j \in StartNow : j \in DOMAIN jobs
      BY DEF StartNow
    <3> QED BY <2>1, <2>2, <3>1 DEF Triggered, Alone
  <2> QED BY <2>2, <2>5, <2>6 DEF Alone
<1>4. ASSUME NEW t \in Tokens, FinishRun(t) PROVE Alone'
  <2>1. /\ pc[t] \in {"run", "deliver"} /\ canceled' = canceled \ {t} /\ stopping' = stopping
        /\ rolledBack' = rolledBack /\ DOMAIN jobs' = DOMAIN jobs
        /\ running' = IF IsRegistered(t) \/ exec[t].job \notin DOMAIN jobs
                      THEN Without(running, {exec[t].job}) ELSE running
    BY <1>4 DEF FinishRun, Free, Deregister
  <2>2. InFlight(t) /\ ~InFlight(t)'
    <3>1. \E to \in {"persist", "unused"} : pc' = [pc EXCEPT ![t] = to]
      BY <1>4 DEF FinishRun
    <3>2. pc'[t] \in {"persist", "unused"}
      BY <3>1 DEF TypeInv, Places, Procs
    <3> QED BY <2>1, <3>2 DEF InFlight
  <2> QED BY <1>1, <1>4, <2>1, <2>2, OthersStay, AloneFreed
<1>5. ASSUME NEW c \in Clients, RunNowRollback(c) PROVE Alone'
  <2>1. PICK t \in Tokens : /\ t = call[c] /\ pc[t] = "marked" /\ pc'[t] = "unused"
                            /\ \A u \in Tokens \ {t} : exec'[u] = exec[u] /\ pc'[u] = pc[u]
    BY <1>5, OthersStay
  <2>2. /\ canceled' = canceled \ {t} /\ stopping' = stopping /\ rolledBack'
        /\ running' = Without(running, {exec[t].job}) /\ DOMAIN jobs' = DOMAIN jobs
    BY <1>5, <2>1 DEF RunNowRollback, Free
  <2> QED BY <1>1, <2>1, <2>2, AloneFreed DEF InFlight
<1>6. ASSUME NEW c \in Clients, NEW j \in DOMAIN jobs, RunNow(c, j) PROVE Alone'
  <2>1. PICK t \in Tokens : /\ t = (CHOOSE u \in Unused : TRUE) /\ pc[t] = "unused" /\ pc'[t] = "marked"
                            /\ exec'[t] \in ExecType /\ exec'[t].job = j
                            /\ \A u \in Tokens \ {t} : exec'[u] = exec[u] /\ pc'[u] = pc[u]
    BY <1>6, OthersStay
  <2>2. /\ running' = [k \in DOMAIN running \cup {j} |-> IF k = j THEN t ELSE running[k]]
        /\ j \notin DOMAIN running /\ DOMAIN jobs' = DOMAIN jobs
        /\ canceled' = canceled /\ stopping' = stopping /\ rolledBack' = rolledBack
    BY <1>6, <2>1 DEF RunNow, With, histVars
  <2>3. \A k \in DOMAIN running' : k \notin DOMAIN jobs' => running'[k] \in canceled'
    BY <2>2 DEF Alone
  <2>4. \A u \in Tokens : InFlight(u)' => u = t \/ (InFlight(u) /\ exec'[u] = exec[u])
    <3>1. \A u \in Tokens \ {t} : exec'[u] = exec[u] /\ pc'[u] = pc[u]
      BY <2>1
    <3> QED BY <3>1 DEF InFlight
  <2>5. IsRegistered(t)'
    BY <2>1, <2>2 DEF IsRegistered
  <2>6. \A u \in Tokens : InFlight(u) /\ exec'[u] = exec[u] =>
          (CtxDone(u) => CtxDone(u)') /\ (IsRegistered(u) => IsRegistered(u)')
    BY <2>2 DEF CtxDone, IsRegistered
  <2> QED BY <2>2, <2>3, <2>4, <2>5, <2>6 DEF Alone
<1>7. ASSUME NEW p \in Procs \ Tokens, NEW to, pc' = [pc EXCEPT ![p] = to], exec' = exec,
             running' = running, canceled \subseteq canceled', stopping => stopping', rolledBack' = rolledBack,
             \A j \in DOMAIN running : j \in DOMAIN jobs \ DOMAIN jobs' => running[j] \in canceled'
      PROVE  Alone'
  <2>1. \A t \in Tokens : pc'[t] = pc[t]
    BY <1>7 DEF TypeInv, Places, Procs
  <2> QED BY <1>1, <1>7, <2>1, AloneKept DEF InFlight
<1>8. Clients \subseteq Procs \ Tokens /\ Closer \in Procs \ Tokens
  BY ProcAssumption DEF Procs
<1>9. ASSUME NEW c \in Clients, NEW D, Remove(c, D) PROVE Alone'
  <2>1. \A j \in DOMAIN running : j \in DOMAIN jobs \ DOMAIN jobs' => running[j] \in canceled'
    BY <1>1, <1>9, RunsOfJobs DEF Remove, Without
  <2> QED BY <1>7, <1>8, <1>9, <2>1 DEF Remove, Go
<1>10. ASSUME NEW c \in Clients, UpdateWrites(c) PROVE Alone'
  <2>1. DOMAIN jobs \subseteq DOMAIN jobs'
    BY <1>10 DEF UpdateWrites, With
  <2> QED BY <1>7, <1>8, <1>10, <2>1 DEF UpdateWrites, Go
<1>11. CASE CloseStops
  BY <1>7, <1>8, <1>11 DEF CloseStops, StopAllRuns, Go
<1>12. CASE CloseCancels
  BY <1>7, <1>8, <1>12 DEF CloseCancels, Go, histVars
<1>13. CASE Restart
  <2>1. running' = NoJobs /\ pc' = FirstPC
    BY <1>13 DEF Restart
  <2>2. \A t \in Tokens : pc'[t] = "unused"
    BY <2>1, ProcAssumption DEF FirstPC, Procs
  <2> QED BY <2>1, <2>2 DEF Alone, InFlight, NoJobs
<1> QED BY <1>2, <1>3, <1>4, <1>5, <1>6, <1>9, <1>10, <1>11, <1>12, <1>13, StillOrNot DEF Disturbs
--------------------------------------------------------------------------------
(* A withdrawn execution is told so, or has lost its registration.         *)

\* A step that changes no registration, and tells every execution it withdraws.
LEMMA WithdrawnKept ==
  ASSUME Registrations, Withdrawn, withdrawn \subseteq Tokens, NEW D, running' = running, UNCHANGED exec, suppressed \subseteq suppressed',
         Registered(D) \subseteq suppressed', withdrawn' = withdrawn \cup InFlightOf(D),
         \A t \in Tokens : pc'[t] = pc[t]
  PROVE  Withdrawn'
<1>1. \A t \in Tokens : /\ IsRegistered(t)' <=> IsRegistered(t)
                        /\ InFlight(t)' <=> InFlight(t)
  BY DEF IsRegistered, InFlight
<1>2. \A t \in InFlightOf(D) : IsRegistered(t) => t \in suppressed'
  BY DEF InFlightOf, IsRegistered, Registered
<1>3. \A t \in InFlightOf(D) : t \in Tokens /\ InFlight(t)
  BY DEF InFlightOf
<1>4. \A t \in withdrawn : InFlight(t)' /\ (IsRegistered(t)' <=> IsRegistered(t))
  BY DEF Withdrawn, IsRegistered, InFlight
<1> QED BY <1>1, <1>2, <1>3, <1>4 DEF Withdrawn

\* The token t is forgotten, and with it at most the registration of its job.
LEMMA WithdrawnFreed ==
  ASSUME Withdrawn, withdrawn \subseteq Tokens, NEW t \in Tokens, suppressed' = suppressed \ {t},
         withdrawn' = withdrawn \ {t}, \A u \in Tokens \ {t} : exec'[u] = exec[u] /\ pc'[u] = pc[u],
         running' = running \/ \E D : running' = Without(running, D)
  PROVE  Withdrawn'
<1>1. \A u \in withdrawn' : u \in Tokens \ {t} /\ u \in withdrawn
  OBVIOUS
<1>2. \A u \in withdrawn' : exec'[u] = exec[u] /\ InFlight(u)'
  <2>1. \A u \in withdrawn' : exec'[u] = exec[u] /\ pc'[u] = pc[u]
    BY <1>1
  <2> QED BY <1>1, <2>1 DEF Withdrawn, InFlight
<1>3. \A u \in withdrawn' : IsRegistered(u)' => IsRegistered(u)
  <2>1. \A j \in DOMAIN running' : j \in DOMAIN running /\ running'[j] = running[j]
    BY DEF Without
  <2> QED BY <1>2, <2>1 DEF IsRegistered
<1> QED BY <1>1, <1>2, <1>3 DEF Withdrawn

LEMMA WithdrawnStep ==
  ASSUME TypeInv, Withdrawn, Next
  PROVE  Withdrawn'
<1>1. Registrations /\ Executions /\ withdrawn \subseteq Tokens
  BY DEF TypeInv, Values
<1>2. CASE Still
  BY <1>1, <1>2 DEF Still, Withdrawn, IsRegistered
<1>3. CASE TriggerDue
  <2>1. PICK token \in [StartNow -> Unused] : Triggered(token)
    BY <1>3, TriggerDueTriggers
  <2>2. /\ suppressed' = suppressed \cup ReplacedRuns
        /\ withdrawn' = withdrawn \cup InFlightOf(StartNow)
    BY <1>3 DEF TriggerDue
  <2>3. \A t \in withdrawn' : t \in Tokens /\ InFlight(t)
    BY <1>1, <2>2 DEF Withdrawn, InFlightOf
  <2>4. \A t \in withdrawn' : exec'[t] = exec[t] /\ pc'[t] = pc[t] /\ InFlight(t)'
    BY <1>3, <2>3, OthersStay DEF InFlight
  <2>5. ASSUME NEW t \in withdrawn', exec[t].job \in StartNow PROVE ~IsRegistered(t)'
    <3>1. running'[exec[t].job] = token[exec[t].job]
      BY <2>1, <2>5 DEF Triggered
    <3>2. pc[token[exec[t].job]] = "unused"
      BY <2>1, <2>5 DEF Triggered
    <3> QED BY <2>3, <2>4, <2>5, <3>1, <3>2 DEF IsRegistered, InFlight
  <2>6. ASSUME NEW t \in withdrawn', exec[t].job \notin StartNow
        PROVE  t \in suppressed' \/ ~IsRegistered(t)'
    <3>1. t \in withdrawn
      BY <2>2, <2>6 DEF InFlightOf
    <3>2. IsRegistered(t)' => IsRegistered(t)
      BY <2>1, <2>4, <2>6 DEF Triggered, IsRegistered
    <3> QED BY <2>2, <3>1, <3>2 DEF Withdrawn
  <2> QED BY <2>4, <2>5, <2>6 DEF Withdrawn
<1>4. ASSUME NEW t \in Tokens, FinishRun(t) PROVE Withdrawn'
  <2>1. /\ suppressed' = suppressed \ {t} /\ withdrawn' = withdrawn \ {t}
        /\ running' = running \/ \E D : running' = Without(running, D)
    BY <1>4 DEF FinishRun, Free, Deregister
  <2>2. \A u \in Tokens \ {t} : exec'[u] = exec[u] /\ pc'[u] = pc[u]
    BY <1>4, OthersStay
  <2> QED BY <1>1, <2>1, <2>2, WithdrawnFreed
<1>5. ASSUME NEW c \in Clients, RunNowRollback(c) PROVE Withdrawn'
  <2>1. PICK t \in Tokens : t = call[c] /\ \A u \in Tokens \ {t} : exec'[u] = exec[u] /\ pc'[u] = pc[u]
    BY <1>5, OthersStay
  <2>2. /\ suppressed' = suppressed \ {t} /\ withdrawn' = withdrawn \ {t}
        /\ \E D : running' = Without(running, D)
    BY <1>5, <2>1 DEF RunNowRollback, Free
  <2> QED BY <1>1, <2>1, <2>2, WithdrawnFreed
<1>6. ASSUME NEW c \in Clients, NEW j \in DOMAIN jobs, RunNow(c, j) PROVE Withdrawn'
  <2>1. PICK t \in Tokens : /\ t = (CHOOSE u \in Unused : TRUE) /\ pc[t] = "unused"
                            /\ \A u \in Tokens \ {t} : exec'[u] = exec[u] /\ pc'[u] = pc[u]
    BY <1>6, OthersStay
  <2>2. /\ running' = [k \in DOMAIN running \cup {j} |-> IF k = j THEN t ELSE running[k]]
        /\ suppressed' = suppressed /\ withdrawn' = withdrawn
    BY <1>6, <2>1 DEF RunNow, With, histVars
  <2>3. \A u \in withdrawn : u \in Tokens \ {t}
    BY <1>1, <2>1 DEF Withdrawn, InFlight
  <2>4. \A u \in withdrawn : exec'[u] = exec[u] /\ pc'[u] = pc[u]
    BY <2>1, <2>3
  <2>5. \A u \in withdrawn : InFlight(u)' /\ (IsRegistered(u)' => IsRegistered(u))
    BY <2>2, <2>3, <2>4 DEF Withdrawn, InFlight, IsRegistered
  <2> QED BY <2>2, <2>5 DEF Withdrawn
<1>7. ASSUME NEW p \in Procs \ Tokens, NEW to, pc' = [pc EXCEPT ![p] = to] PROVE \A t \in Tokens : pc'[t] = pc[t]
  BY <1>7 DEF TypeInv, Places, Procs
<1>8. Clients \subseteq Procs \ Tokens /\ Closer \in Procs \ Tokens
  BY ProcAssumption DEF Procs
<1>9. ASSUME NEW c \in Clients, NEW D, Remove(c, D) PROVE Withdrawn'
  <2>1. \A t \in Tokens : pc'[t] = pc[t]
    BY <1>7, <1>8, <1>9 DEF Remove, Go
  <2> QED BY <1>1, <1>9, <2>1, WithdrawnKept DEF Remove
<1>10. ASSUME NEW c \in Clients, UpdateWrites(c) PROVE Withdrawn'
  <2>1. \A t \in Tokens : pc'[t] = pc[t]
    BY <1>7, <1>8, <1>10 DEF UpdateWrites, Go
  <2> QED BY <1>1, <1>10, <2>1, WithdrawnKept DEF UpdateWrites
<1>11. CASE CloseStops
  <2>1. \A t \in Tokens : pc'[t] = pc[t]
    BY <1>7, <1>8, <1>11 DEF CloseStops, Go
  <2>2. Registered(Jobs) = Registered(DOMAIN running)
    BY <1>1 DEF Registered, Registrations
  <2> QED BY <1>1, <1>11, <2>1, <2>2, WithdrawnKept DEF CloseStops, StopAllRuns
<1>12. CASE CloseCancels
  <2>1. \A t \in Tokens : pc'[t] = pc[t]
    BY <1>7, <1>8, <1>12 DEF CloseCancels, Go
  <2>2. withdrawn' = withdrawn \cup InFlightOf({}) /\ Registered({}) = {}
    BY <1>12 DEF CloseCancels, histVars, InFlightOf, Registered
  <2> QED BY <1>1, <1>12, <2>1, <2>2, WithdrawnKept DEF CloseCancels
<1>13. CASE Restart
  BY <1>13 DEF Restart, Withdrawn
<1> QED BY <1>2, <1>3, <1>4, <1>5, <1>6, <1>9, <1>10, <1>11, <1>12, <1>13, StillOrNot DEF Disturbs
--------------------------------------------------------------------------------
(* Every copy of a job stems from one with the same schedule.              *)

\* What a step does to the file and to the copies being written.
LEMMA DiskStep ==
  ASSUME TypeInv, Next
  PROVE  /\ file' = file \/ \E p \in Procs : Saving(p) /\ file' = snap[p]
         /\ \A p \in Procs : snap'[p] \in {snap[p], NoJobs, jobs}
<1>1. DOMAIN snap = Procs /\ Loop \in Procs /\ Closer \in Procs /\ Clients \subseteq Procs /\ Tokens \subseteq Procs
  BY DEF TypeInv, Places, Procs
<1>2. ASSUME UNCHANGED diskVars
      PROVE  file' = file /\ \A p \in Procs : snap'[p] \in {snap[p], NoJobs, jobs}
  BY <1>2 DEF diskVars
<1>3. ASSUME NEW p \in Procs, Save(p), Written(p) \/ NotWritten
      PROVE  /\ file' = file \/ \E q \in Procs : Saving(q) /\ file' = snap[q]
             /\ \A q \in Procs : snap'[q] \in {snap[q], NoJobs, jobs}
  <2>1. snap' = [snap EXCEPT ![p] = NoJobs] /\ Saving(p)
    BY <1>3 DEF Save, Saving
  <2>2. file' = file \/ file' = snap[p]
    BY <1>3 DEF Written, NotWritten
  <2> QED BY <1>1, <2>1, <2>2
<1>4. ASSUME LoopSaved \/ CloseSaved \/ (\E t \in Tokens : RunSaved(t)) \/ \E c \in Clients : ClientSaved(c) \/ RunNowSaved(c)
      PROVE  \E p \in Procs : Save(p) /\ (Written(p) \/ NotWritten)
  BY <1>1, <1>4 DEF LoopSaved, CloseSaved, RunSaved, ClientSaved, RunNowSaved
<1>5. ASSUME NEW p \in Procs, Snapshot(p)
      PROVE  file' = file /\ \A q \in Procs : snap'[q] \in {snap[q], NoJobs, jobs}
  BY <1>1, <1>5 DEF Snapshot
<1>6. CASE Restart
  BY <1>6 DEF Restart
<1>7. ASSUME TriggerDue \/ LoopExits \/ CloseStops \/ CloseCancels \/ CloseWaited \/ Tick
      PROVE  UNCHANGED diskVars
  BY <1>7 DEF TriggerDue, LoopExits, CloseStops, CloseCancels, CloseWaited, Tick
<1>8. ASSUME NEW t \in Tokens, Begin(t) \/ Deliver(t) \/ FinishRun(t) PROVE UNCHANGED diskVars
  BY <1>8 DEF Begin, Deliver, FinishRun
<1>9. ASSUME NEW c \in Clients, NEW j, NEW x, NEW D,
             \/ Add(c, j, x) \/ Remove(c, D) \/ UpdateReads(c, j, x) \/ UpdateWrites(c)
             \/ RunNow(c, j) \/ RunNowRefused(c, j) \/ RunNowRollback(c)
      PROVE  UNCHANGED diskVars
  BY <1>9 DEF Add, Remove, UpdateReads, UpdateWrites, RunNow, RunNowRefused, RunNowRollback
<1> QED BY <1>2, <1>3, <1>4, <1>5, <1>6, <1>7, <1>8, <1>9, Steps

\* A draft comes from UpdateReads, and stays as it is.
LEMMA DraftStep ==
  ASSUME TypeInv, Next, NEW c \in Clients, pc'[c] = "update"
  PROVE  \/ pc[c] = "update" /\ call'[c] = call[c]
         \/ \E j \in DOMAIN jobs, patch \in {"keep", "enable", "disable"} : UpdateReads(c, j, patch)
<1>1. /\ pc \in [Procs -> LoopPC \cup ClosePC \cup ClientPC \cup RunPC] /\ Executions
      /\ call \in [Clients -> {None} \cup Tokens \cup Draft]
      /\ Loop \in Procs /\ Closer \in Procs /\ Clients \subseteq Procs /\ Tokens \subseteq Procs /\ c \in Procs
  BY DEF TypeInv, Executions, Places, Procs
<1> USE ProcAssumption
<1>2. ASSUME NEW p \in Procs, NEW to, pc' = [pc EXCEPT ![p] = to], to # "update", call' = call
      PROVE  pc[c] = "update" /\ call'[c] = call[c]
  BY <1>1, <1>2
<1>3. CASE TriggerDue
  <2>1. PICK token \in [StartNow -> Unused] : Triggered(token)
    BY <1>3, TriggerDueTriggers
  <2> QED BY <1>1, <1>3, <2>1 DEF Triggered, TriggerDue
<1>4. CASE LoopSaved
  BY <1>1, <1>4 DEF LoopSaved
<1>5. CASE LoopExits
  BY <1>1, <1>2, <1>5 DEF LoopExits, Go
<1>6. ASSUME NEW p \in Procs, Snapshot(p) PROVE pc[c] = "update" /\ call'[c] = call[c]
  BY <1>2, <1>6 DEF Snapshot
<1>7. ASSUME NEW t \in Tokens, Begin(t) \/ Deliver(t) \/ FinishRun(t) \/ RunSaved(t)
      PROVE  pc[c] = "update" /\ call'[c] = call[c]
  <2>1. call' = call /\ \E to \in {"run", "deliver", "persist", "unused"} : pc' = [pc EXCEPT ![t] = to]
    BY <1>7 DEF Begin, Deliver, FinishRun, RunSaved, Go
  <2> QED BY <1>1, <1>2, <2>1
<1>8. ASSUME NEW d \in Clients, NEW j, NEW x, NEW D, Add(d, j, x) \/ Remove(d, D) \/ ClientSaved(d)
      PROVE  pc[c] = "update" /\ call'[c] = call[c]
  <2>1. call' = call /\ \E to \in {"persist", "idle"} : pc' = [pc EXCEPT ![d] = to]
    BY <1>8 DEF Add, Remove, ClientSaved, Go
  <2> QED BY <1>1, <1>2, <2>1
<1>9. ASSUME NEW d \in Clients, pc'[d] # "update", \A p \in Procs \ (Tokens \cup {d}) : pc'[p] = pc[p],
             \A e \in Clients \ {d} : call'[e] = call[e]
      PROVE  pc[c] = "update" /\ call'[c] = call[c]
  BY <1>1, <1>9
<1>10. ASSUME NEW d \in Clients, NEW j, NEW patch, UpdateReads(d, j, patch), c # d
       PROVE  pc[c] = "update" /\ call'[c] = call[c]
  <2>1. pc' = [pc EXCEPT ![d] = "update"] /\ call' = [call EXCEPT ![d] = call'[d]]
    BY <1>1, <1>10 DEF UpdateReads, Go
  <2> QED BY <1>1, <1>10, <2>1
<1>11. ASSUME NEW d \in Clients, UpdateWrites(d) PROVE pc[c] = "update" /\ call'[c] = call[c]
  BY <1>1, <1>9, <1>11 DEF UpdateWrites, Go
<1>12. ASSUME NEW d \in Clients, NEW j, RunNow(d, j) PROVE pc[c] = "update" /\ call'[c] = call[c]
  <2>1. PICK t \in Tokens : t = (CHOOSE u \in Unused : TRUE)
    BY <1>12 DEF RunNow, Unused
  <2>2. pc' = [pc EXCEPT ![d] = "persistRun", ![t] = "marked"] /\ call' = [call EXCEPT ![d] = t]
    BY <1>12, <2>1 DEF RunNow
  <2> QED BY <1>1, <1>9, <2>2
<1>13. ASSUME NEW d \in Clients, NEW j, RunNowRefused(d, j) PROVE pc[c] = "update" /\ call'[c] = call[c]
  BY <1>13 DEF RunNowRefused, procVars
<1>14. ASSUME NEW d \in Clients, RunNowSaved(d) \/ RunNowRollback(d) PROVE pc[c] = "update" /\ call'[c] = call[c]
  <2>1. PICK t \in Tokens : t = call[d]
    BY <1>1, <1>14 DEF RunNowSaved, RunNowRollback, Executions, Waits
  <2>2. /\ \/ pc' = [pc EXCEPT ![d] = "idle", ![t] = "begin"] \/ pc' = [pc EXCEPT ![d] = "rollback"]
           \/ pc' = [pc EXCEPT ![d] = "idle", ![t] = "unused"]
        /\ call' = [call EXCEPT ![d] = None] \/ call' = call
    BY <1>14, <2>1 DEF RunNowSaved, RunNowRollback
  <2>3. pc'[d] # "update" /\ \A p \in Procs \ (Tokens \cup {d}) : pc'[p] = pc[p]
    BY <1>1, <2>2
  <2> QED BY <1>1, <1>9, <2>2, <2>3
<1>15. CASE CloseStops \/ CloseCancels \/ CloseWaited \/ CloseSaved
  <2>1. call' = call /\ \E to \in {"cancel", "wait", "persist", "closed"} : pc' = [pc EXCEPT ![Closer] = to]
    BY <1>15 DEF CloseStops, CloseCancels, CloseWaited, CloseSaved, Go
  <2> QED BY <1>1, <1>2, <2>1
<1>16. CASE Restart
  BY <1>1, <1>16 DEF Restart, FirstPC
<1>17. CASE Tick
  BY <1>17 DEF Tick, procVars
<1> QED BY <1>3, <1>4, <1>5, <1>6, <1>7, <1>8, <1>10, <1>11, <1>12, <1>13, <1>14, <1>15, <1>16, <1>17, Steps
Stem(j, k) == j \in used' /\ Sound(k) /\ \E l \in CopiesOf(j) : k.sched = l.sched

LEMMA OldCopies ==
  ASSUME TypeInv, used \subseteq used'
  PROVE  /\ \A j \in DOMAIN jobs : j \in Jobs /\ Sound(jobs[j]) /\ Stem(j, jobs[j])
         /\ \A j \in DOMAIN file : j \in Jobs /\ Sound(file[j]) /\ Stem(j, file[j])
         /\ \A p \in Procs : \A j \in DOMAIN snap[p] : j \in Jobs /\ Sound(snap[p][j]) /\ Stem(j, snap[p][j])
         /\ \A c \in Clients : pc[c] = "update" =>
              LET j == call[c].job IN j \in Jobs /\ Stem(j, call[c].seen) /\ Stem(j, call[c].next)
<1>1. CopiesAgree /\ used \subseteq Jobs
  BY DEF TypeInv, Values
<1>2. \A c \in Clients : pc[c] = "update" => call[c].job \in Jobs
  BY DEF TypeInv, Executions, Draft
<1>3. /\ \A j \in DOMAIN jobs : jobs[j] \in CopiesOf(j)
      /\ \A j \in DOMAIN file : file[j] \in CopiesOf(j)
      /\ \A p \in Procs : \A j \in DOMAIN snap[p] : snap[p][j] \in CopiesOf(j)
  BY DEF CopiesOf
<1>4. \A c \in Clients : pc[c] = "update" =>
        call[c].seen \in CopiesOf(call[c].job) /\ call[c].next \in CopiesOf(call[c].job)
  BY DEF CopiesOf
<1>5. \A j \in DOMAIN jobs : j \in Jobs /\ Sound(jobs[j]) /\ Stem(j, jobs[j])
  BY <1>1, <1>3, CopiesSound DEF Stem
<1>6. \A j \in DOMAIN file : j \in Jobs /\ Sound(file[j]) /\ Stem(j, file[j])
  BY <1>1, <1>3, CopiesSound DEF Stem
<1>7. \A p \in Procs : \A j \in DOMAIN snap[p] : j \in Jobs /\ Sound(snap[p][j]) /\ Stem(j, snap[p][j])
  BY <1>1, <1>3, CopiesSound DEF Stem
<1>8. \A c \in Clients : pc[c] = "update" =>
              LET j == call[c].job IN j \in Jobs /\ Stem(j, call[c].seen) /\ Stem(j, call[c].next)
  BY <1>1, <1>2, <1>4, CopiesSound DEF Stem
<1> QED BY <1>5, <1>6, <1>7, <1>8

LEMMA FromStems ==
  ASSUME CopiesAgree, used' \subseteq Jobs,
         \A j \in DOMAIN jobs' : Stem(j, jobs'[j]),
         \A j \in DOMAIN file' : Stem(j, file'[j]),
         \A p \in Procs : \A j \in DOMAIN snap'[p] : Stem(j, snap'[p][j]),
         \A c \in Clients : pc'[c] = "update" =>
           Stem(call'[c].job, call'[c].seen) /\ Stem(call'[c].job, call'[c].next)
  PROVE  /\ \A j \in Jobs : \A k \in CopiesOf(j)' : Stem(j, k)
         /\ CopiesAgree'
<1>1. ASSUME NEW j \in Jobs, NEW k \in CopiesOf(j)' PROVE Stem(j, k)
  <2>1. CASE k \in {m[j] : m \in {n \in {jobs', file'} \cup {snap'[p] : p \in Procs} : j \in DOMAIN n}}
    BY <2>1
  <2>2. CASE \E c \in Clients : pc'[c] = "update" /\ call'[c].job = j /\ k \in {call'[c].seen, call'[c].next}
    BY <2>2
  <2> QED BY <1>1, <2>1, <2>2 DEF CopiesOf
<1>2. Known' \subseteq used'
  BY DEF Known, Stem
<1>3. \A j \in Jobs : \A k, l \in CopiesOf(j)' : k.sched = l.sched
  <2>1. TAKE j \in Jobs
  <2>2. TAKE k, l \in CopiesOf(j)'
  <2>3. (\E m \in CopiesOf(j) : k.sched = m.sched) /\ \E m \in CopiesOf(j) : l.sched = m.sched
    BY <1>1 DEF Stem
  <2> QED BY <2>3 DEF CopiesAgree
<1>4. \A j \in Jobs : \A k \in CopiesOf(j)' : j \in used' /\ Sound(k)
  BY <1>1 DEF Stem
<1> QED BY <1>1, <1>2, <1>3, <1>4 DEF CopiesAgree

\* What a step makes of a job that it does not add.
LEMMA JobsStep ==
  ASSUME TypeInv, Next, ~\E c \in Clients, j \in Jobs, sched \in Schedules : Add(c, j, sched)
  PROVE  used' = used /\ \A j \in DOMAIN jobs' : Stem(j, jobs'[j])
<1>1. Executions /\ CopiesAgree /\ used \subseteq Jobs
  BY DEF TypeInv, Values
<1>2. ASSUME used' = used PROVE \A j \in DOMAIN jobs : j \in Jobs /\ Sound(jobs[j]) /\ Stem(j, jobs[j])
  BY <1>2, OldCopies
<1>3. ASSUME used' = used, NEW j \in DOMAIN jobs, NEW k, Sound(k), k.sched = jobs[j].sched PROVE Stem(j, k)
  BY <1>2, <1>3 DEF Stem
<1>4. ASSUME used' = used, jobs' = jobs PROVE used' = used /\ \A j \in DOMAIN jobs' : Stem(j, jobs'[j])
  BY <1>2, <1>4
<1>5. CASE TriggerDue
  <2>1. used' = used /\ jobs' = [j \in DOMAIN jobs |->
                IF j \in StartNow THEN Counted(jobs[j]) ELSE Retire(jobs[j], now)]
    BY <1>5 DEF TriggerDue
  <2>2. \A j \in DOMAIN jobs : Sound(jobs'[j]) /\ jobs'[j].sched = jobs[j].sched
    BY <1>2, <2>1, CountedSound, RetireSound DEF SameJob
  <2> QED BY <1>3, <2>1, <2>2
<1>6. ASSUME NEW t \in Tokens, FinishRun(t) PROVE used' = used /\ \A j \in DOMAIN jobs' : Stem(j, jobs'[j])
  <2>1. /\ used' = used
        /\ \/ jobs' = jobs
           \/ jobs' = [jobs EXCEPT ![exec[t].job] = Finished(jobs[exec[t].job], exec[t])]
    BY <1>6 DEF FinishRun
  <2>2. exec[t].began \in Nat /\ (exec[t].scheduled => exec[t].slot \in Nat)
    BY <1>1, <1>6 DEF FinishRun, Executions, InFlight
  <2>3. \A j \in DOMAIN jobs : Sound(Finished(jobs[j], exec[t])) /\ Finished(jobs[j], exec[t]).sched = jobs[j].sched
    BY <1>2, <2>1, <2>2, FinishedSound DEF SameJob
  <2>4. \A j \in DOMAIN jobs' : j \in DOMAIN jobs /\ jobs'[j] \in {jobs[j], Finished(jobs[j], exec[t])}
    BY <2>1
  <2> QED BY <1>2, <1>3, <2>1, <2>3, <2>4
<1>7. ASSUME NEW c \in Clients, NEW D, Remove(c, D) PROVE used' = used /\ \A j \in DOMAIN jobs' : Stem(j, jobs'[j])
  BY <1>2, <1>7 DEF Remove, Without
<1>8. ASSUME NEW c \in Clients, UpdateWrites(c) PROVE used' = used /\ \A j \in DOMAIN jobs' : Stem(j, jobs'[j])
  <2>1. used' = used /\ pc[c] = "update"
        /\ jobs' = [j \in DOMAIN jobs \cup {call[c].job} |-> IF j = call[c].job THEN call[c].next ELSE jobs[j]]
    BY <1>8 DEF UpdateWrites, Go, With
  <2>2. Stem(call[c].job, call[c].next)
    BY <2>1, OldCopies
  <2> QED BY <1>2, <2>1, <2>2
<1>9. ASSUME NEW c \in Clients, NEW j \in DOMAIN jobs, RunNow(c, j) \/ RunNowRefused(c, j)
      PROVE  used' = used /\ \A k \in DOMAIN jobs' : Stem(k, jobs'[k])
  <2>1. used' = used /\ (jobs' = [jobs EXCEPT ![j] = Counted(jobs[j])] \/ jobs' = [jobs EXCEPT ![j] = Off(jobs[j])])
    BY <1>9 DEF RunNow, RunNowRefused, histVars
  <2>2. /\ Sound(Counted(jobs[j])) /\ Counted(jobs[j]).sched = jobs[j].sched
        /\ Sound(Off(jobs[j])) /\ Off(jobs[j]).sched = jobs[j].sched
    BY <1>2, <2>1, CountedSound, OffSound DEF Sound, SameJob
  <2>3. \A k \in DOMAIN jobs' : k \in DOMAIN jobs /\ Sound(jobs'[k]) /\ jobs'[k].sched = jobs[k].sched
    BY <1>2, <2>1, <2>2
  <2> QED BY <1>3, <2>1, <2>3
<1>10. ASSUME NEW c \in Clients, RunNowRollback(c) PROVE used' = used /\ \A j \in DOMAIN jobs' : Stem(j, jobs'[j])
  <2>1. PICK i : used' = used /\ jobs' = [k \in DOMAIN jobs |->
                IF k = i /\ jobs[k].count > 0 THEN [jobs[k] EXCEPT !.count = @ - 1] ELSE jobs[k]]
    BY <1>10 DEF RunNowRollback
  <2>2. \A k \in DOMAIN jobs : jobs[k].count > 0 => [jobs[k] EXCEPT !.count = @ - 1] \in JobType
    BY <1>2, <2>1 DEF Sound, JobType
  <2>3. \A k \in DOMAIN jobs : jobs'[k].sched = jobs[k].sched /\ Sound(jobs'[k])
    BY <1>2, <2>1, <2>2 DEF Sound, JobType
  <2> QED BY <1>3, <2>1, <2>3
<1>11. CASE Restart
  <2>1. used' = used /\ jobs' = Loaded(file, now)
    BY <1>11 DEF Restart
  <2>2. \A j \in DOMAIN file : Sound(file[j]) /\ Stem(j, file[j])
    BY <2>1, OldCopies
  <2>3. jobs' = [j \in DOMAIN file |-> Resumed(file[j], now)]
    BY <2>1, <2>2, LoadedIsResumed
  <2>4. \A j \in DOMAIN file : Sound(Resumed(file[j], now)) /\ Resumed(file[j], now).sched = file[j].sched
    BY <2>2, ResumedSound DEF SameJob
  <2> QED BY <2>1, <2>2, <2>3, <2>4 DEF Stem
<1>12. CASE LoopSaved \/ LoopExits \/ CloseStops \/ CloseCancels \/ CloseWaited \/ CloseSaved \/ Tick
  <2>1. jobs' = jobs /\ used' = used
    BY <1>12 DEF LoopSaved, LoopExits, CloseStops, CloseCancels, CloseWaited, CloseSaved, Tick, Save, svcVars,
                 histVars
  <2> QED BY <1>4, <2>1
<1>13. ASSUME NEW p, Snapshot(p) PROVE used' = used /\ \A j \in DOMAIN jobs' : Stem(j, jobs'[j])
  BY <1>4, <1>13 DEF Snapshot, svcVars, histVars
<1>14. ASSUME NEW t, Begin(t) \/ Deliver(t) \/ RunSaved(t) PROVE used' = used /\ \A j \in DOMAIN jobs' : Stem(j, jobs'[j])
  BY <1>4, <1>14 DEF Begin, Deliver, RunSaved, Save, svcVars, histVars
<1>15. ASSUME NEW c, NEW j, NEW patch, UpdateReads(c, j, patch) \/ ClientSaved(c) \/ RunNowSaved(c)
       PROVE  used' = used /\ \A k \in DOMAIN jobs' : Stem(k, jobs'[k])
  BY <1>4, <1>15 DEF UpdateReads, ClientSaved, RunNowSaved, Save, svcVars, histVars
<1> QED BY <1>5, <1>6, <1>7, <1>8, <1>9, <1>10, <1>11, <1>12, <1>13, <1>14, <1>15, Steps
LEMMA AddCopies ==
  ASSUME TypeInv, NEW c \in Clients, NEW j \in Jobs, NEW sched \in Schedules, Add(c, j, sched)
  PROVE  /\ CopiesAgree'
         /\ \A i \in Jobs : \A k \in CopiesOf(i)' : IF i = j THEN k = NewJob(sched, now) ELSE k \in CopiesOf(i)
<1>1. /\ CopiesAgree /\ Places /\ now \in Nat
      /\ \A d \in Clients : pc[d] = "update" => call[d].job \in Jobs
  BY DEF TypeInv, Values, Executions, Draft
<1>2. /\ jobs' = [i \in DOMAIN jobs \cup {j} |-> IF i = j THEN NewJob(sched, now) ELSE jobs[i]]
      /\ file' = file /\ snap' = snap /\ call' = call /\ used' = used \cup {j} /\ j \notin used
      /\ pc' = [pc EXCEPT ![c] = "persist"]
  BY DEF Add, With, Go, diskVars
<1>3. \A d \in Clients : pc'[d] = "update" => pc[d] = "update"
  BY <1>1, <1>2 DEF Places, Procs
<1>4. CopiesOf(j) = {} /\ j \notin Known
  BY <1>1, <1>2 DEF CopiesAgree
<1>5. ASSUME NEW i \in Jobs, NEW k \in CopiesOf(i)' PROVE k \in CopiesOf(i) \/ (i = j /\ k = NewJob(sched, now))
  <2>1. CASE k \in {m[i] : m \in {n \in {jobs', file'} \cup {snap'[p] : p \in Procs} : i \in DOMAIN n}}
    <3>1. \/ i \in DOMAIN jobs' /\ k = jobs'[i]
          \/ i \in DOMAIN file /\ k = file[i]
          \/ \E p \in Procs : i \in DOMAIN snap[p] /\ k = snap[p][i]
      BY <1>2, <2>1
    <3>2. CASE i \in DOMAIN jobs' /\ k = jobs'[i]
      <4>1. \/ i = j /\ k = NewJob(sched, now)
            \/ i \in DOMAIN jobs /\ k = jobs[i]
        BY <1>2, <3>2
      <4> QED BY <4>1 DEF CopiesOf
    <3>3. CASE i \in DOMAIN file /\ k = file[i]
      BY <3>3 DEF CopiesOf
    <3>4. CASE \E p \in Procs : i \in DOMAIN snap[p] /\ k = snap[p][i]
      BY <3>4 DEF CopiesOf
    <3> QED BY <3>1, <3>2, <3>3, <3>4
  <2>2. CASE \E d \in Clients : pc'[d] = "update" /\ call'[d].job = i /\ k \in {call'[d].seen, call'[d].next}
    <3>1. \E d \in Clients : pc[d] = "update" /\ call[d].job = i /\ k \in {call[d].seen, call[d].next}
      BY <1>2, <1>3, <2>2
    <3> QED BY <3>1 DEF CopiesOf
  <2> QED BY <1>5, <2>1, <2>2 DEF CopiesOf
<1>6. \A i \in Jobs : \A k \in CopiesOf(i)' : IF i = j THEN k = NewJob(sched, now) ELSE k \in CopiesOf(i)
  BY <1>4, <1>5
<1>7. Sound(NewJob(sched, now))
  BY <1>1, NewJobSound
<1>8. \A i \in Jobs : \A k \in CopiesOf(i)' : i \in used' /\ Sound(k)
  BY <1>1, <1>2, <1>6, <1>7 DEF CopiesAgree
<1>9. \A i \in Jobs : \A k, l \in CopiesOf(i)' : k.sched = l.sched
  BY <1>1, <1>6 DEF CopiesAgree
<1>10. Known' \subseteq used'
  BY <1>1, <1>2 DEF Known, CopiesAgree
<1> QED BY <1>6, <1>8, <1>9, <1>10 DEF CopiesAgree

LEMMA CopiesStep ==
  ASSUME TypeInv, Next
  PROVE  /\ CopiesAgree'
         /\ \/ \E c \in Clients, j \in Jobs, sched \in Schedules : Add(c, j, sched)
            \/ \A j \in Jobs : \A k \in CopiesOf(j)' : Stem(j, k)
<1>1. CASE \E c \in Clients, j \in Jobs, sched \in Schedules : Add(c, j, sched)
  BY <1>1, AddCopies
<1>2. CASE ~\E c \in Clients, j \in Jobs, sched \in Schedules : Add(c, j, sched)
  <2>1. used' = used /\ (\A j \in DOMAIN jobs' : Stem(j, jobs'[j])) /\ used' \subseteq Jobs /\ CopiesAgree
    BY <1>2, JobsStep DEF TypeInv, Values
  <2>2. /\ \A j \in DOMAIN jobs : Stem(j, jobs[j])
        /\ \A j \in DOMAIN file : Stem(j, file[j])
        /\ \A p \in Procs : \A j \in DOMAIN snap[p] : Stem(j, snap[p][j])
    BY <2>1, OldCopies
  <2>3. \A j \in DOMAIN file' : Stem(j, file'[j])
    BY <2>2, DiskStep
  <2>4. \A p \in Procs : \A j \in DOMAIN snap'[p] : Stem(j, snap'[p][j])
    BY <2>2, DiskStep DEF NoJobs
  <2>5. ASSUME NEW c \in Clients, pc'[c] = "update"
        PROVE  Stem(call'[c].job, call'[c].seen) /\ Stem(call'[c].job, call'[c].next)
    <3>1. CASE pc[c] = "update" /\ call'[c] = call[c]
      BY <2>1, <3>1, OldCopies
    <3>2. CASE \E j \in DOMAIN jobs, patch \in {"keep", "enable", "disable"} : UpdateReads(c, j, patch)
      <4>1. PICK j \in DOMAIN jobs, patch \in {"keep", "enable", "disable"} : UpdateReads(c, j, patch)
        BY <3>2
      <4>2. jobs[j] \in JobType /\ now \in Nat /\ Stem(j, jobs[j])
        BY <2>1, <2>2, CopiesSound DEF TypeInv, Values, Sound
      <4>3. PICK next : /\ next = Normalized([jobs[j] EXCEPT !.enabled = CASE patch = "enable"  -> TRUE
                                                          [] patch = "disable" -> FALSE
                                                          [] OTHER             -> @], now)
                        /\ call' = [call EXCEPT ![c] = [job |-> j, seen |-> jobs[j], next |-> next]]
        BY <4>1 DEF UpdateReads
      <4>4. Sound(next) /\ next.sched = jobs[j].sched
        BY <4>2, <4>3, PatchSound DEF SameJob
      <4>5. call'[c] = [job |-> j, seen |-> jobs[j], next |-> next]
        BY <4>3 DEF TypeInv, Executions
      <4>6. Stem(j, next)
        BY <4>2, <4>4 DEF Stem
      <4> QED BY <4>2, <4>5, <4>6
    <3> QED BY <2>5, <3>1, <3>2, DraftStep
  <2> QED BY <2>1, <2>3, <2>4, <2>5, FromStems
<1> QED BY <1>1, <1>2

LEMMA TypeStep ==
  ASSUME TypeInv, Next
  PROVE  TypeInv'
BY PlacesStep, ExecutionsStep, ValuesStep, RegistrationsStep, CopiesStep DEF TypeInv
--------------------------------------------------------------------------------
(* Scheduled executions lie in the window of their job.                    *)

\* A scheduled execution in flight was there before, or TriggerDue has just registered it.
LEMMA Origin ==
  ASSUME TypeInv, Next, NEW t \in Tokens, InFlight(t)', exec'[t].scheduled
  PROVE  \/ /\ InFlight(t) /\ exec'[t].job = exec[t].job /\ exec[t].scheduled
            /\ exec'[t].slot = exec[t].slot
         \/ /\ TriggerDue /\ exec'[t].job \in StartNow
            /\ exec'[t].slot = jobs[exec'[t].job].next
<1>1. Places /\ Executions /\ pc \in [Procs -> LoopPC \cup ClosePC \cup ClientPC \cup RunPC]
  BY DEF TypeInv, Places
<1>2. CASE Still
  BY <1>2 DEF Still
<1>3. CASE TriggerDue
  BY <1>3, TriggerDueTriggers DEF Triggered, InFlight
<1>4. ASSUME NEW u \in Tokens, FinishRun(u)
      PROVE  InFlight(t) /\ exec'[t] = exec[t]
  <2>1. \E to \in {"persist", "unused"} : pc' = [pc EXCEPT ![u] = to]
    BY <1>4 DEF FinishRun
  <2>2. pc'[u] \in {"persist", "unused"}
    BY <1>1, <2>1 DEF Procs
  <2>3. t # u
    BY <2>2 DEF InFlight
  <2> QED BY <1>4, <2>3, OthersStay DEF InFlight
<1>5. ASSUME NEW c \in Clients, RunNowRollback(c)
      PROVE  InFlight(t) /\ exec'[t] = exec[t]
  <2>1. t # call[c]
    BY <1>5, OthersStay DEF InFlight
  <2> QED BY <1>5, <2>1, OthersStay DEF InFlight
<1>6. ASSUME NEW c \in Clients, NEW j \in DOMAIN jobs, RunNow(c, j)
      PROVE  InFlight(t) /\ exec'[t] = exec[t]
  <2>1. PICK u \in Tokens : ~exec'[u].scheduled /\ \A v \in Tokens \ {u} : exec'[v] = exec[v] /\ pc'[v] = pc[v]
    BY <1>6, OthersStay
  <2> QED BY <2>1 DEF InFlight
<1>7. ASSUME NEW p \in Procs \ Tokens, NEW to, pc' = [pc EXCEPT ![p] = to], exec' = exec
      PROVE  InFlight(t) /\ exec'[t] = exec[t]
  BY <1>1, <1>7 DEF Procs, InFlight
<1>8. Clients \subseteq Procs \ Tokens /\ Closer \in Procs \ Tokens
  BY ProcAssumption DEF Procs
<1>9. ASSUME NEW c \in Clients, NEW D, Remove(c, D) \/ UpdateWrites(c)
      PROVE  InFlight(t) /\ exec'[t] = exec[t]
  BY <1>7, <1>8, <1>9 DEF Remove, UpdateWrites, Go
<1>10. ASSUME CloseStops \/ CloseCancels
       PROVE  InFlight(t) /\ exec'[t] = exec[t]
  BY <1>7, <1>8, <1>10 DEF CloseStops, CloseCancels, Go
<1>11. ASSUME Restart PROVE FALSE
  <2>1. pc'[t] = "unused"
    BY <1>11, ProcAssumption DEF Restart, FirstPC, Procs
  <2> QED BY <2>1 DEF InFlight
<1> QED BY <1>2, <1>3, <1>4, <1>5, <1>6, <1>9, <1>10, <1>11, StillOrNot DEF Disturbs

LEMMA WindowStep ==
  ASSUME TypeInv, Window, Next
  PROVE  Window'
<1> SUFFICES ASSUME NEW t \in Tokens, InFlight(t)', exec'[t].scheduled,
                    NEW k \in CopiesOf(exec[t].job)', k.sched.endsAt # None
             PROVE  exec'[t].slot < k.sched.endsAt
  BY DEF Window
<1>1. Executions /\ CopiesAgree /\ used \subseteq Jobs
  BY DEF TypeInv, Values
<1> DEFINE j == exec'[t].job
<1>2. j \in used => \E l \in CopiesOf(j) : k.sched = l.sched
  <2> SUFFICES ASSUME j \in used PROVE \E l \in CopiesOf(j) : k.sched = l.sched
    OBVIOUS
  <2>1. CASE \A i \in Jobs : \A l \in CopiesOf(i)' : Stem(i, l)
    BY <1>1, <2>1 DEF Stem
  <2>2. CASE \E c \in Clients, i \in Jobs, sched \in Schedules : Add(c, i, sched)
    <3>1. PICK c \in Clients, i \in Jobs, sched \in Schedules : Add(c, i, sched)
      BY <2>2
    <3>2. i # j
      BY <3>1 DEF Add
    <3> QED BY <1>1, <3>1, <3>2, AddCopies
  <2> QED BY <2>1, <2>2, CopiesStep
<1>3. CASE InFlight(t) /\ exec'[t].job = exec[t].job /\ exec[t].scheduled /\ exec'[t].slot = exec[t].slot
  <2>1. PICK l \in CopiesOf(exec[t].job) : k.sched = l.sched
    BY <1>1, <1>2, <1>3 DEF Executions
  <2> QED BY <1>3, <2>1 DEF Window
<1>4. CASE j \in StartNow /\ exec'[t].slot = jobs[j].next
  <2>1. j \in DOMAIN jobs /\ jobs[j].next # None
    BY <1>4 DEF StartNow, IsDue
  <2>2. jobs[j] \in CopiesOf(j) /\ j \in used /\ j \in Jobs /\ Sound(jobs[j])
    BY <1>1, <2>1, CopiesSound DEF CopiesOf
  <2>3. k.sched = jobs[j].sched
    BY <1>1, <1>2, <2>2 DEF CopiesAgree
  <2> QED BY <1>4, <2>1, <2>2, <2>3 DEF Sound
<1> QED BY <1>3, <1>4, Origin
--------------------------------------------------------------------------------
(* What is on disk is as good as the jobs.                                 *)

LEMMA LoadedLater ==
  ASSUME NEW saved, \A j \in DOMAIN saved : Sound(saved[j]), NEW t \in Nat, NEW u \in Nat, t <= u
  PROVE  Loaded(Loaded(saved, t), u) = Loaded(saved, u)
<1>1. /\ Loaded(saved, t) = [j \in DOMAIN saved |-> Resumed(saved[j], t)]
      /\ Loaded(saved, u) = [j \in DOMAIN saved |-> Resumed(saved[j], u)]
  BY LoadedIsResumed
<1>2. \A j \in DOMAIN saved : Sound(Resumed(saved[j], t))
  BY ResumedSound
<1>3. Loaded(Loaded(saved, t), u) = [j \in DOMAIN saved |-> Resumed(Resumed(saved[j], t), u)]
  BY <1>1, <1>2, LoadedIsResumed
<1>4. \A j \in DOMAIN saved : Resumed(Resumed(saved[j], t), u) = Resumed(saved[j], u)
  BY ResumedLater
<1> QED BY <1>1, <1>3, <1>4

\* A step after which nobody has to copy the jobs keeps them, the file and the copies.
LEMMA DurableKept ==
  ASSUME Durable, UNCHANGED <<jobs, file, snap, persistMu, now>>,
         unsaved => unsaved', rolledBack => rolledBack',
         \A p \in Procs : Asks(p) => Asks(p)'
  PROVE  Durable'
BY DEF Durable

LEMMA DurableSaved ==
  ASSUME TypeInv, Durable, NEW p \in Procs, Save(p), Written(p) \/ NotWritten, jobs' = jobs,
         \A q \in Procs : Asks(q) => Asks(q)'
  PROVE  Durable'
<1>1. /\ p = persistMu /\ p # None /\ persistMu' = None /\ rolledBack' = rolledBack /\ now' = now
      /\ unsaved' \/ file' = snap[p]
  BY ProcAssumption DEF Save, TypeInv, Places, Saving, Written, NotWritten
<1> QED BY <1>1 DEF Durable

LEMMA DurableStep ==
  ASSUME TypeInv, Durable, Next
  PROVE  Durable'
<1>1. /\ Places /\ Executions /\ pc \in [Procs -> LoopPC \cup ClosePC \cup ClientPC \cup RunPC]
      /\ now \in Nat
      /\ \A j \in DOMAIN jobs : Sound(jobs[j])
      /\ \A j \in DOMAIN file : Sound(file[j])
      /\ \A p \in Procs : \A j \in DOMAIN snap[p] : Sound(snap[p][j])
      /\ Loop \in Procs /\ Closer \in Procs /\ Clients \subseteq Procs /\ Tokens \subseteq Procs
  BY CopiesSound DEF TypeInv, Places, Values, Procs
<1> USE ProcAssumption
<1>2. ASSUME NEW p \in Procs, pc'[p] \in {"persist", "persistRun"} PROVE Durable'
  BY <1>2 DEF Durable, Asks
<1>3. ASSUME NEW p \in Procs, NEW to, pc' = [pc EXCEPT ![p] = to], pc[p] \notin {"persist", "persistRun"}
      PROVE  \A q \in Procs : Asks(q) => Asks(q)'
  BY <1>1, <1>3 DEF Asks
<1>4. CASE TriggerDue
  <2>1. PICK token \in [StartNow -> Unused] : Triggered(token)
    BY <1>4, TriggerDueTriggers
  <2>2. CASE pc'[Loop] = "persist"
    BY <1>1, <1>2, <2>2
  <2>3. CASE pc'[Loop] = "select"
    <3>1. jobs' = jobs /\ \A p \in Procs \ {Loop} : pc'[p] = pc[p]
      BY <2>1, <2>3 DEF Triggered
    <3>2. pc[Loop] \in {"trigger", "select"}
      BY <1>4 DEF TriggerDue
    <3>3. \A p \in Procs : Asks(p) => Asks(p)'
      BY <3>1, <3>2 DEF Asks
    <3>4. UNCHANGED <<jobs, file, snap, persistMu, now>> /\ unsaved' = unsaved /\ rolledBack' = rolledBack
      BY <1>4, <3>1 DEF TriggerDue, diskVars, boundVars
    <3> QED BY <3>3, <3>4, DurableKept
  <2> QED BY <2>1, <2>2, <2>3 DEF Triggered
<1>5. CASE LoopSaved
  <2>1. \A q \in Procs : Asks(q) => Asks(q)'
    BY <1>1, <1>5 DEF LoopSaved, Asks, Save
  <2> QED BY <1>1, <1>5, <2>1, DurableSaved DEF LoopSaved, svcVars
<1>6. CASE LoopExits \/ CloseStops \/ CloseCancels
  <2>1. \A q \in Procs : Asks(q) => Asks(q)'
    BY <1>1, <1>3, <1>6 DEF LoopExits, CloseStops, CloseCancels, Go
  <2>2. UNCHANGED <<jobs, file, snap, persistMu, now>> /\ unsaved' = unsaved /\ rolledBack' = rolledBack
    BY <1>6 DEF LoopExits, CloseStops, CloseCancels, svcVars, diskVars, boundVars, histVars
  <2> QED BY <2>1, <2>2, DurableKept
<1>7. ASSUME NEW p \in Procs, Snapshot(p) PROVE Durable'
  <2>1. persistMu' = p /\ snap'[p] = jobs /\ jobs' = jobs /\ now' = now /\ p # None
    BY <1>1, <1>7 DEF Snapshot, Places, svcVars, boundVars
  <2> QED BY <2>1 DEF Durable
<1>8. ASSUME NEW t \in Tokens, Begin(t) \/ Deliver(t) PROVE Durable'
  <2>1. \A q \in Procs : Asks(q) => Asks(q)'
    BY <1>1, <1>3, <1>8 DEF Begin, Deliver, Go
  <2>2. UNCHANGED <<jobs, file, snap, persistMu, now>> /\ unsaved' = unsaved /\ rolledBack' = rolledBack
    BY <1>8 DEF Begin, Deliver, svcVars, diskVars, boundVars, histVars
  <2> QED BY <2>1, <2>2, DurableKept
<1>9. ASSUME NEW t \in Tokens, FinishRun(t) PROVE Durable'
  <2>1. CASE pc' = [pc EXCEPT ![t] = "persist"]
    BY <1>1, <1>2, <2>1
  <2>2. CASE pc' = [pc EXCEPT ![t] = "unused"] /\ UNCHANGED jobs
    <3>1. \A q \in Procs : Asks(q) => Asks(q)'
      BY <1>1, <1>3, <1>9, <2>2 DEF FinishRun
    <3>2. UNCHANGED <<jobs, file, snap, persistMu, now>> /\ unsaved' = unsaved /\ rolledBack' = rolledBack
      BY <1>9, <2>2 DEF FinishRun, diskVars, boundVars
    <3> QED BY <3>1, <3>2, DurableKept
  <2> QED BY <1>9, <2>1, <2>2 DEF FinishRun
<1>10. ASSUME NEW p \in Procs, NEW to \in {"unused", "idle", "closed"}, Save(p), Written(p) \/ NotWritten,
              Go(p, "save", to), UNCHANGED svcVars
       PROVE  Durable'
  <2>1. \A q \in Procs : Asks(q) => Asks(q)'
    BY <1>3, <1>10 DEF Go
  <2> QED BY <1>10, <2>1, DurableSaved DEF svcVars
<1>11. ASSUME NEW t \in Tokens, RunSaved(t) PROVE Durable'
  BY <1>1, <1>10, <1>11 DEF RunSaved
<1>12. ASSUME NEW c \in Clients, ClientSaved(c) PROVE Durable'
  BY <1>1, <1>10, <1>12 DEF ClientSaved
<1>13. CASE CloseSaved
  BY <1>1, <1>10, <1>13 DEF CloseSaved
<1>14. ASSUME NEW c \in Clients, NEW j, NEW x, NEW D, Add(c, j, x) \/ Remove(c, D) \/ UpdateWrites(c) PROVE Durable'
  <2>1. pc'[c] = "persist"
    BY <1>1, <1>14 DEF Add, Remove, UpdateWrites, Go
  <2> QED BY <1>1, <1>2, <2>1
<1>15. ASSUME NEW c \in Clients, NEW j, NEW patch, UpdateReads(c, j, patch) PROVE Durable'
  <2>1. \A q \in Procs : Asks(q) => Asks(q)'
    BY <1>1, <1>3, <1>15 DEF UpdateReads, Go
  <2>2. UNCHANGED <<jobs, file, snap, persistMu, now>> /\ unsaved' = unsaved /\ rolledBack' = rolledBack
    BY <1>15 DEF UpdateReads, Calls, svcVars, diskVars, histVars
  <2> QED BY <2>1, <2>2, DurableKept
<1>16. ASSUME NEW c \in Clients, NEW j, RunNow(c, j) PROVE Durable'
  <2>1. PICK t \in Tokens : pc' = [pc EXCEPT ![c] = "persistRun", ![t] = "marked"]
    BY <1>16 DEF RunNow, Unused
  <2>2. pc'[c] = "persistRun"
    BY <1>1, <2>1
  <2> QED BY <1>1, <1>2, <2>2
<1>17. ASSUME NEW c \in Clients, NEW j \in DOMAIN jobs, RunNowRefused(c, j) PROVE Durable'
  <2>1. /\ jobs' = [jobs EXCEPT ![j] = Off(jobs[j])] /\ pc' = pc /\ now' = now
        /\ UNCHANGED <<file, snap, persistMu, unsaved, rolledBack>> /\ Exhausted(jobs[j], now)
    BY <1>17 DEF RunNowRefused, Calls, diskVars, histVars, procVars
  <2>2. Sound(Off(jobs[j])) /\ Resumed(Off(jobs[j]), now) = Resumed(jobs[j], now)
    BY <1>1, <2>1, OffSound, ExhaustedOff DEF Sound
  <2>3. DOMAIN jobs' = DOMAIN jobs /\ \A k \in DOMAIN jobs : jobs'[k] = IF k = j THEN Off(jobs[j]) ELSE jobs[k]
    BY <2>1
  <2>4. \A k \in DOMAIN jobs' : Sound(jobs'[k])
    BY <1>1, <2>2, <2>3
  <2>5. \A k \in DOMAIN jobs : Resumed(jobs'[k], now) = Resumed(jobs[k], now)
    BY <2>2, <2>3
  <2>6. Loaded(jobs', now) = [k \in DOMAIN jobs |-> Resumed(jobs'[k], now)]
    BY <2>3, <2>4, LoadedIsResumed
  <2>7. Loaded(jobs, now) = [k \in DOMAIN jobs |-> Resumed(jobs[k], now)]
    BY <1>1, LoadedIsResumed
  <2>8. Loaded(jobs', now) = Loaded(jobs, now)
    BY <2>5, <2>6, <2>7
  <2> QED BY <2>1, <2>8 DEF Durable, Asks
<1>18. ASSUME NEW c \in Clients, RunNowSaved(c) PROVE Durable'
  <2>1. Save(c) /\ (Written(c) \/ NotWritten) /\ jobs' = jobs /\ pc[c] = "saveRun"
        /\ call[c] \in Tokens /\ pc[call[c]] = "marked"
    BY <1>1, <1>18 DEF RunNowSaved, svcVars, Executions, Waits
  <2>2. \A q \in Procs : Asks(q) => Asks(q)'
    BY <1>1, <1>18, <2>1 DEF RunNowSaved, Asks
  <2> QED BY <1>1, <2>1, <2>2, DurableSaved
<1>19. ASSUME NEW c \in Clients, RunNowRollback(c) PROVE Durable'
  BY <1>19 DEF RunNowRollback, Durable
<1>20. CASE CloseWaited
  <2>1. pc'[Closer] = "persist"
    BY <1>1, <1>20 DEF CloseWaited, Go
  <2> QED BY <1>1, <1>2, <2>1
<1>21. CASE Restart
  <2>1. jobs' = Loaded(file, now) /\ file' = file /\ persistMu' = None /\ now' = now
    BY <1>21 DEF Restart
  <2>2. Loaded(jobs', now') = Loaded(file', now')
    BY <1>1, <2>1, LoadedLater
  <2> QED BY <2>1, <2>2 DEF Durable
<1>22. CASE Tick
  <2>1. /\ now' = now + 1 /\ jobs' = jobs /\ file' = file /\ snap' = snap /\ persistMu' = persistMu
        /\ pc' = pc /\ unsaved' = unsaved /\ rolledBack' = rolledBack
    BY <1>22 DEF Tick, svcVars, diskVars, procVars, histVars
  <2>2. /\ Loaded(jobs, now + 1) = Loaded(Loaded(jobs, now), now + 1)
        /\ Loaded(file, now + 1) = Loaded(Loaded(file, now), now + 1)
        /\ \A p \in Procs : Loaded(snap[p], now + 1) = Loaded(Loaded(snap[p], now), now + 1)
    BY <1>1, LoadedLater
  <2>3. persistMu \in Procs \cup {None}
    BY <1>1 DEF Places
  <2> QED BY <2>1, <2>2, <2>3 DEF Durable, Asks
<1> QED BY <1>4, <1>5, <1>6, <1>7, <1>8, <1>9, <1>11, <1>12, <1>13, <1>14, <1>15, <1>16, <1>17, <1>18,
           <1>19, <1>20, <1>21, <1>22, Steps
--------------------------------------------------------------------------------
(* What is counted was counted before it began.                            *)

Fresh == {"marked", "begin"}

\* A step that counts nothing, and in which no execution enters or changes Fresh.
Shrinks ==
  /\ begun' = begun
  /\ \A t \in Tokens : pc'[t] \in Fresh => pc'[t] = pc[t] /\ exec'[t] = exec[t]

LEMMA ShrinksOrNot ==
  ASSUME TypeInv, Next
  PROVE  \/ Shrinks \/ TriggerDue \/ LoopSaved
         \/ \E t \in Tokens : Begin(t)
         \/ \E c \in Clients : RunNowSaved(c) \/ \E j \in DOMAIN jobs : RunNow(c, j)
<1>1. /\ Executions /\ pc \in [Procs -> LoopPC \cup ClosePC \cup ClientPC \cup RunPC]
      /\ exec \in [Tokens -> ExecType \cup {None}]
      /\ Loop \in Procs \ Tokens /\ Closer \in Procs \ Tokens /\ Clients \subseteq Procs \ Tokens
      /\ Tokens \subseteq Procs
  BY ProcAssumption DEF TypeInv, Executions, Places, Procs
<1>2. ASSUME NEW p \in Procs, NEW to, pc' = [pc EXCEPT ![p] = to], p \in Tokens => to \notin Fresh,
             \A t \in Tokens \ {p} : exec'[t] = exec[t], begun' = begun
      PROVE  Shrinks
  <2>1. \A t \in Tokens : pc'[t] = IF t = p THEN to ELSE pc[t]
    BY <1>1, <1>2
  <2> QED BY <1>2, <2>1 DEF Shrinks
<1>3. CASE LoopExits \/ CloseStops \/ CloseCancels \/ CloseWaited \/ CloseSaved
  <2>1. /\ \E p \in {Loop, Closer} : \E to : pc' = [pc EXCEPT ![p] = to]
        /\ exec' = exec /\ begun' = begun
    BY <1>3 DEF LoopExits, CloseStops, CloseCancels, CloseWaited, CloseSaved, Go, Save, histVars
  <2> QED BY <1>1, <1>2, <2>1
<1>4. ASSUME NEW p \in Procs, Snapshot(p) PROVE Shrinks
  <2>1. \E to \in {"save", "saveRun"} : pc' = [pc EXCEPT ![p] = to]
    BY <1>4 DEF Snapshot
  <2> QED BY <1>2, <1>4, <2>1 DEF Snapshot, histVars, Fresh
<1>5. ASSUME NEW t \in Tokens, Deliver(t) \/ FinishRun(t) \/ RunSaved(t) PROVE Shrinks
  <2>1. \E to \in {"deliver", "persist", "unused"} : pc' = [pc EXCEPT ![t] = to]
    BY <1>5 DEF Deliver, FinishRun, RunSaved, Go
  <2>2. begun' = begun /\ (exec' = exec \/ exec' = [exec EXCEPT ![t] = None])
    BY <1>5 DEF Deliver, FinishRun, RunSaved, Free, Save, histVars
  <2> QED BY <1>1, <1>2, <2>1, <2>2 DEF Fresh
<1>6. ASSUME NEW c \in Clients, NEW j, NEW x, NEW D,
             Add(c, j, x) \/ Remove(c, D) \/ UpdateReads(c, j, x) \/ UpdateWrites(c) \/ ClientSaved(c)
      PROVE  Shrinks
  <2>1. /\ \E to : pc' = [pc EXCEPT ![c] = to]
        /\ exec' = exec /\ begun' = begun
    BY <1>6 DEF Add, Remove, UpdateReads, UpdateWrites, ClientSaved, Go, Save, histVars
  <2> QED BY <1>1, <1>2, <2>1
<1>7. ASSUME NEW c, NEW j, RunNowRefused(c, j) PROVE Shrinks
  BY <1>7 DEF RunNowRefused, Shrinks, procVars, histVars
<1>8. ASSUME NEW c \in Clients, RunNowRollback(c) PROVE Shrinks
  <2>1. begun' = begun /\ pc'[call[c]] = "unused" /\ \A u \in Tokens \ {call[c]} : exec'[u] = exec[u] /\ pc'[u] = pc[u]
    BY <1>8, OthersStay DEF RunNowRollback
  <2> QED BY <2>1 DEF Shrinks, Fresh
<1>9. CASE Restart
  <2>1. begun' = begun /\ \A t \in Tokens : pc'[t] = "unused"
    BY <1>1, <1>9, ProcAssumption DEF Restart, FirstPC
  <2> QED BY <2>1 DEF Shrinks, Fresh
<1>10. CASE Tick
  BY <1>10 DEF Tick, Shrinks, procVars, histVars
<1> QED BY <1>3, <1>4, <1>5, <1>6, <1>7, <1>8, <1>9, <1>10, Steps

\* How the counters of j move: only TriggerDue has something new pending, only LoopSaved
\* releases it, only RunNow counts a run by hand, and what begins was pending.
CounterMoves(j) ==
  /\ begun'[j] + Cardinality(Pending(j)') <= begun[j] + Cardinality(Pending(j)) \/ TriggerDue
  /\ begun'[j] + Cardinality(Released(j)') <= begun[j] + Cardinality(Released(j)) \/ LoopSaved
  /\ \/ begun'[j] = begun[j]
     \/ /\ begun'[j] = begun[j] + 1 /\ Cardinality(Pending(j)) >= 1
        /\ j \in DOMAIN jobs /\ \E t \in Tokens : Begin(t)
  /\ \/ Cardinality(Tentative(j)') <= Cardinality(Tentative(j))
     \/ \E c \in Clients, i \in DOMAIN jobs : RunNow(c, i)

\* The counters are numbers, and what was released is pending.
CountersType(j) ==
  /\ IsFiniteSet(Pending(j)) /\ IsFiniteSet(Released(j)) /\ IsFiniteSet(Tentative(j))
  /\ Cardinality(Pending(j)) \in Nat /\ Cardinality(Released(j)) \in Nat
  /\ Cardinality(Tentative(j)) \in Nat
  /\ Cardinality(Released(j)) <= Cardinality(Pending(j))

LEMMA Counters ==
  ASSUME NEW j
  PROVE  CountersType(j) /\ CountersType(j)'
<1>1. ASSUME NEW P, NEW R, NEW T, P \subseteq Tokens, R \subseteq P, T \subseteq Tokens
      PROVE  /\ IsFiniteSet(P) /\ IsFiniteSet(R) /\ IsFiniteSet(T)
             /\ Cardinality(P) \in Nat /\ Cardinality(R) \in Nat /\ Cardinality(T) \in Nat
             /\ Cardinality(R) <= Cardinality(P)
  <2>1. IsFiniteSet(P) /\ IsFiniteSet(T)
    BY <1>1, BoundAssumption, FS_Subset
  <2> QED BY <1>1, <2>1, FS_Subset, FS_CardinalityType
<1>2. /\ Pending(j) \subseteq Tokens /\ Released(j) \subseteq Pending(j) /\ Tentative(j) \subseteq Tokens
      /\ Pending(j)' \subseteq Tokens /\ Released(j)' \subseteq Pending(j)' /\ Tentative(j)' \subseteq Tokens
  BY DEF Pending, Released, Tentative
<1>3. CountersType(j)
  BY <1>1, <1>2 DEF CountersType
<1>4. CountersType(j)'
  BY <1>1, <1>2 DEF CountersType
<1> QED BY <1>3, <1>4

LEMMA CountersMove ==
  ASSUME TypeInv, Next, NEW j \in Jobs
  PROVE  CounterMoves(j)
<1>1. /\ Executions /\ pc \in [Procs -> LoopPC \cup ClosePC \cup ClientPC \cup RunPC]
      /\ exec \in [Tokens -> ExecType \cup {None}] /\ begun \in [Jobs -> Nat]
      /\ Loop \in Procs \ Tokens /\ Closer \in Procs \ Tokens /\ Clients \subseteq Procs \ Tokens
      /\ Tokens \subseteq Procs
  BY ProcAssumption DEF TypeInv, Executions, Places, Procs, Values
<1>2. begun'[j] \in Nat
  BY TypeStep DEF TypeInv, Values
<1>3. /\ IsFiniteSet(Pending(j)) /\ IsFiniteSet(Released(j)) /\ IsFiniteSet(Tentative(j))
      /\ Cardinality(Pending(j)) \in Nat /\ Cardinality(Released(j)) \in Nat
      /\ Cardinality(Tentative(j)) \in Nat
  BY Counters DEF CountersType
<1>4. ASSUME NEW S, NEW T, IsFiniteSet(T), S \subseteq T
      PROVE  Cardinality(S) \in Nat /\ Cardinality(S) <= Cardinality(T)
  BY <1>4, FS_Subset, FS_CardinalityType
<1> DEFINE P == Pending(j)' \subseteq Pending(j)
           R == Released(j)' \subseteq Released(j)
           T == Tentative(j)' \subseteq Tentative(j)
<1>5. ASSUME begun'[j] = begun[j], P \/ TriggerDue, R \/ LoopSaved,
             T \/ \E c \in Clients, i \in DOMAIN jobs : RunNow(c, i)
      PROVE  CounterMoves(j)
  <2>1. (Cardinality(Pending(j)') <= Cardinality(Pending(j)) /\ Cardinality(Pending(j)') \in Nat) \/ TriggerDue
    BY <1>3, <1>4, <1>5
  <2>2. (Cardinality(Released(j)') <= Cardinality(Released(j)) /\ Cardinality(Released(j)') \in Nat) \/ LoopSaved
    BY <1>3, <1>4, <1>5
  <2>3. Cardinality(Tentative(j)') <= Cardinality(Tentative(j))
          \/ \E c \in Clients, i \in DOMAIN jobs : RunNow(c, i)
    BY <1>3, <1>4, <1>5
  <2> QED BY <1>1, <1>2, <1>3, <1>5, <2>1, <2>2, <2>3 DEF CounterMoves
<1>6. CASE Shrinks
  <2>1. P /\ R /\ T /\ begun'[j] = begun[j]
    BY <1>6 DEF Shrinks, Fresh, Pending, Released, Tentative
  <2> QED BY <1>5, <2>1
<1>7. CASE TriggerDue
  <2>1. R /\ T
    BY <1>7, TriggerDueTriggers DEF Triggered, Released, Tentative
  <2>2. begun'[j] = begun[j]
    BY <1>7 DEF TriggerDue
  <2> QED BY <1>5, <1>7, <2>1, <2>2
<1>8. CASE LoopSaved
  <2>1. exec' = exec /\ begun' = begun
    BY <1>8 DEF LoopSaved, Save
  <2>2. \A t \in Tokens : pc'[t] = IF pc[t] = "marked" /\ exec[t].scheduled THEN "begin" ELSE pc[t]
    BY <1>1, <1>8 DEF LoopSaved
  <2>3. P /\ T
    BY <2>1, <2>2 DEF Pending, Tentative
  <2> QED BY <1>5, <1>8, <2>1, <2>3
<1>9. ASSUME NEW t \in Tokens, Begin(t) PROVE CounterMoves(j)
  <2>1. /\ pc[t] = "begin" /\ pc' = [pc EXCEPT ![t] = "run"] /\ exec[t] \in ExecType
        /\ exec' = [exec EXCEPT ![t] = [exec[t] EXCEPT !.began = now]]
    BY <1>1, <1>9 DEF Begin, Go, Executions, InFlight
  <2>2. \A u \in Tokens \ {t} : pc'[u] = pc[u] /\ exec'[u] = exec[u]
    BY <1>1, <2>1
  <2>3. pc'[t] = "run"
    BY <1>1, <2>1
  <2>4. P /\ R /\ T
    BY <2>2, <2>3 DEF Pending, Released, Tentative
  <2>5. CASE begun'[j] = begun[j]
    BY <1>5, <2>4, <2>5
  <2>6. CASE begun'[j] # begun[j]
    <3>1. /\ exec[t].job = j /\ exec[t].scheduled /\ j \in DOMAIN jobs /\ begun'[j] = begun[j] + 1
      BY <1>1, <1>9, <2>6 DEF Begin
    <3>2. t \in Pending(j) /\ t \in Released(j) /\ t \notin Pending(j)' /\ t \notin Released(j)'
      BY <2>1, <2>3, <3>1 DEF Pending, Released
    <3>3. Pending(j)' \subseteq Pending(j) \ {t} /\ Released(j)' \subseteq Released(j) \ {t}
      BY <2>4, <3>2
    <3>4. /\ IsFiniteSet(Pending(j) \ {t}) /\ Cardinality(Pending(j) \ {t}) = Cardinality(Pending(j)) - 1
          /\ IsFiniteSet(Released(j) \ {t}) /\ Cardinality(Released(j) \ {t}) = Cardinality(Released(j)) - 1
      BY <1>3, <3>2, FS_RemoveElement
    <3>5. /\ Cardinality(Pending(j)') \in Nat /\ Cardinality(Pending(j)') <= Cardinality(Pending(j)) - 1
          /\ Cardinality(Released(j)') \in Nat /\ Cardinality(Released(j)') <= Cardinality(Released(j)) - 1
          /\ Cardinality(Tentative(j)') <= Cardinality(Tentative(j))
      BY <1>3, <1>4, <2>4, <3>3, <3>4
    <3> QED BY <1>1, <1>2, <1>3, <1>9, <3>1, <3>5 DEF CounterMoves
  <2> QED BY <2>5, <2>6
<1>10. ASSUME NEW c \in Clients, NEW i \in DOMAIN jobs, RunNow(c, i) PROVE CounterMoves(j)
  <2>1. P /\ R
    BY <1>10, OthersStay DEF Pending, Released
  <2>2. begun'[j] = begun[j]
    BY <1>10 DEF RunNow, histVars
  <2> QED BY <1>5, <1>10, <2>1, <2>2
<1>11. ASSUME NEW c \in Clients, RunNowSaved(c) PROVE CounterMoves(j)
  <2>1. call[c] \in Tokens /\ pc[call[c]] = "marked" /\ ~exec[call[c]].scheduled
    BY <1>1, <1>11 DEF RunNowSaved, Executions, Waits
  <2>2. /\ exec' = exec /\ begun' = begun
        /\ \A t \in Tokens : pc'[t] = pc[t] \/ (t = call[c] /\ pc'[t] = "begin")
    BY <1>1, <1>11 DEF RunNowSaved, Save
  <2>3. P /\ R /\ T
    BY <2>1, <2>2 DEF Pending, Released, Tentative
  <2> QED BY <1>5, <2>2, <2>3
<1> QED BY <1>6, <1>7, <1>8, <1>9, <1>10, <1>11, ShrinksOrNot
\* What a step does to the file, and to what is known of it.
LEMMA FileStep ==
  ASSUME TypeInv, Next
  PROVE  /\ \/ \E p \in Procs : Save(p) /\ Saving(p) /\ file' = snap[p] /\ begun' = begun /\ tainted' = tainted
                                /\ (LoopSaved => p = Loop)
            \/ file' = file /\ (~unsaved' => ~unsaved) /\ (LoopSaved => unsaved') /\ tainted' = tainted
            \/ Restart
         /\ \A j \in Jobs : patched'[j] # "overtaken" => patched[j] # "overtaken"
         /\ persistMu' = persistMu => UNCHANGED diskVars \/ Restart \/ \E p \in Procs : Snapshot(p)
         /\ persistMu' \in {persistMu, None} \/ \E p \in Procs : Snapshot(p)
         /\ LoopSaved => persistMu' = None
<1>1. /\ Loop \in Procs /\ Closer \in Procs /\ Clients \subseteq Procs /\ Tokens \subseteq Procs
      /\ patched \in [Jobs -> {"never", "clean", "overtaken"}] /\ pc \in [Procs -> LoopPC \cup ClosePC \cup ClientPC \cup RunPC]
      /\ \A p \in Procs : p = persistMu <=> Saving(p)
  BY DEF TypeInv, Places, Procs, Values
<1> USE ProcAssumption
<1>2. LoopSaved => Saving(Loop) /\ Save(Loop)
  BY DEF LoopSaved, Save, Saving
<1>3. ASSUME NEW p \in Procs, Save(p), Written(p) \/ NotWritten
      PROVE  /\ \/ Saving(p) /\ file' = snap[p] /\ begun' = begun /\ tainted' = tainted /\ (LoopSaved => p = Loop)
                \/ file' = file /\ (~unsaved' => ~unsaved) /\ (LoopSaved => unsaved') /\ tainted' = tainted
             /\ patched' = patched /\ persistMu' = None /\ persistMu = p /\ p # None
  BY <1>1, <1>2, <1>3 DEF Save, Saving, Written, NotWritten
<1>4. CASE \E p \in Procs : Save(p) /\ (Written(p) \/ NotWritten)
  BY <1>1, <1>3, <1>4
<1>5. LoopSaved \/ CloseSaved \/ (\E t \in Tokens : RunSaved(t)) \/ (\E c \in Clients : ClientSaved(c) \/ RunNowSaved(c))
        => \E p \in Procs : Save(p) /\ (Written(p) \/ NotWritten)
  BY <1>1 DEF LoopSaved, CloseSaved, RunSaved, ClientSaved, RunNowSaved
<1>6. ASSUME UNCHANGED <<diskVars, unsaved, tainted>>, \A j \in Jobs : patched'[j] # "overtaken" => patched[j] # "overtaken"
      PROVE  /\ file' = file /\ (~unsaved' => ~unsaved) /\ tainted' = tainted
             /\ \A j \in Jobs : patched'[j] # "overtaken" => patched[j] # "overtaken"
             /\ UNCHANGED diskVars /\ persistMu' = persistMu
             /\ ~LoopSaved
  <2>1. LoopSaved => persistMu = Loop /\ persistMu' = None
    BY <1>1, <1>2 DEF Save
  <2> QED BY <1>1, <1>6, <2>1 DEF diskVars
<1>7. ASSUME TriggerDue \/ LoopExits \/ CloseStops \/ CloseCancels \/ CloseWaited \/ Tick
      PROVE  UNCHANGED <<diskVars, unsaved, tainted, patched>>
  BY <1>7 DEF TriggerDue, LoopExits, CloseStops, CloseCancels, CloseWaited, Tick, histVars
<1>8. ASSUME NEW t \in Tokens, Begin(t) \/ Deliver(t) \/ FinishRun(t)
      PROVE  UNCHANGED <<diskVars, unsaved, tainted, patched>>
  BY <1>8 DEF Begin, Deliver, FinishRun, histVars
<1>9. ASSUME NEW c \in Clients, NEW j, NEW x, NEW D,
             \/ Add(c, j, x) \/ Remove(c, D) \/ UpdateReads(c, j, x)
             \/ RunNow(c, j) \/ RunNowRefused(c, j) \/ RunNowRollback(c)
      PROVE  UNCHANGED <<diskVars, unsaved, tainted, patched>>
  BY <1>9 DEF Add, Remove, UpdateReads, RunNow, RunNowRefused, RunNowRollback, histVars
<1>10. ASSUME NEW c \in Clients, UpdateWrites(c)
       PROVE  /\ UNCHANGED <<diskVars, unsaved, tainted>>
              /\ \A j \in Jobs : patched'[j] # "overtaken" => patched[j] # "overtaken"
  BY <1>1, <1>10 DEF UpdateWrites
<1>11. ASSUME NEW p \in Procs, Snapshot(p)
       PROVE  file' = file /\ unsaved' = unsaved /\ tainted' = tainted /\ patched' = patched /\ ~LoopSaved
  <2>1. LoopSaved => persistMu = Loop
    BY <1>1, <1>2
  <2> QED BY <1>1, <1>11, <2>1 DEF Snapshot, histVars
<1>12. CASE Restart
  <2>1. persistMu' = None /\ patched' = patched
    BY <1>12 DEF Restart
  <2> QED BY <1>12, <2>1
<1> QED BY <1>4, <1>5, <1>6, <1>7, <1>8, <1>9, <1>10, <1>11, <1>12, Steps
\* What the other steps make of the count of a job.
LEMMA JobCount ==
  ASSUME TypeInv, Counts, Next, ~TriggerDue, ~\E c \in Clients, i \in DOMAIN jobs : RunNow(c, i),
         NEW j \in DOMAIN jobs'
  PROVE  \/ j \in DOMAIN jobs /\ SameJob(jobs[j], jobs'[j])
         \/ \E c \in Clients, sched \in Schedules : Add(c, j, sched) /\ jobs'[j].count = 0
         \/ patched'[j] = "overtaken"
         \/ /\ j \in DOMAIN jobs /\ jobs'[j].sched = jobs[j].sched
            /\ jobs[j].count > 0 => jobs'[j].count = jobs[j].count - 1
            /\ \E c \in Clients : RunNowRollback(c) /\ j = exec[call[c]].job
         \/ Restart /\ j \in DOMAIN file /\ SameJob(file[j], jobs'[j])
<1>1. /\ Executions /\ CopiesAgree /\ patched \in [Jobs -> {"never", "clean", "overtaken"}] /\ now \in Nat
      /\ \A i \in DOMAIN jobs : i \in Jobs /\ Sound(jobs[i])
      /\ \A i \in DOMAIN file : Sound(file[i])
  BY CopiesSound DEF TypeInv, Values
<1>2. ASSUME jobs' = jobs PROVE j \in DOMAIN jobs /\ SameJob(jobs[j], jobs'[j])
  BY <1>2 DEF SameJob
<1>3. ASSUME LoopSaved \/ LoopExits \/ CloseStops \/ CloseCancels \/ CloseWaited \/ CloseSaved \/ Tick
      PROVE  jobs' = jobs
  BY <1>3 DEF LoopSaved, LoopExits, CloseStops, CloseCancels, CloseWaited, CloseSaved, Tick, svcVars
<1>4. ASSUME NEW p, Snapshot(p) \/ Begin(p) \/ Deliver(p) \/ RunSaved(p) \/ ClientSaved(p) \/ RunNowSaved(p)
      PROVE  jobs' = jobs
  BY <1>4 DEF Snapshot, Begin, Deliver, RunSaved, ClientSaved, RunNowSaved, svcVars
<1>5. ASSUME NEW c, NEW i, NEW patch, UpdateReads(c, i, patch) PROVE jobs' = jobs
  BY <1>5 DEF UpdateReads, svcVars
<1>6. ASSUME NEW t \in Tokens, FinishRun(t) PROVE j \in DOMAIN jobs /\ SameJob(jobs[j], jobs'[j])
  <2>1. \/ jobs' = jobs
        \/ jobs' = [jobs EXCEPT ![exec[t].job] = Finished(jobs[exec[t].job], exec[t])]
    BY <1>6 DEF FinishRun
  <2>2. exec[t].began \in Nat /\ (exec[t].scheduled => exec[t].slot \in Nat)
    BY <1>1, <1>6 DEF FinishRun, Executions, InFlight
  <2>3. \A i \in DOMAIN jobs : SameJob(jobs[i], Finished(jobs[i], exec[t]))
    BY <1>1, <2>2, FinishedSound
  <2>4. j \in DOMAIN jobs /\ jobs'[j] \in {jobs[j], Finished(jobs[j], exec[t])}
    BY <2>1
  <2> QED BY <2>3, <2>4 DEF SameJob
<1>7. ASSUME NEW c \in Clients, NEW D, Remove(c, D) PROVE j \in DOMAIN jobs /\ SameJob(jobs[j], jobs'[j])
  BY <1>7 DEF Remove, Without, SameJob
<1>8. ASSUME NEW c \in Clients, UpdateWrites(c)
      PROVE  (j \in DOMAIN jobs /\ SameJob(jobs[j], jobs'[j])) \/ patched'[j] = "overtaken"
  <2>1. /\ pc[c] = "update" /\ call[c].job \in Jobs
        /\ jobs' = [i \in DOMAIN jobs \cup {call[c].job} |-> IF i = call[c].job THEN call[c].next ELSE jobs[i]]
    BY <1>1, <1>8 DEF UpdateWrites, Go, With, Executions, Draft
  <2>2. CASE j # call[c].job
    BY <2>1, <2>2 DEF SameJob
  <2>3. CASE j = call[c].job /\ j \in DOMAIN jobs /\ jobs[j] = call[c].seen
    <3>1. call[c].next.count = call[c].seen.count
      BY <2>1 DEF Counts
    <3>2. call[c].next \in CopiesOf(j) /\ call[c].seen \in CopiesOf(j)
      BY <2>1, <2>3 DEF CopiesOf
    <3>3. call[c].next.sched = call[c].seen.sched
      BY <1>1, <2>1, <2>3, <3>2 DEF CopiesAgree
    <3> QED BY <2>1, <2>3, <3>1, <3>3 DEF SameJob
  <2>4. CASE j = call[c].job /\ ~(j \in DOMAIN jobs /\ jobs[j] = call[c].seen)
    BY <1>1, <1>8, <2>1, <2>4 DEF UpdateWrites
  <2> QED BY <2>2, <2>3, <2>4
<1>9. ASSUME NEW c \in Clients, NEW i \in DOMAIN jobs, RunNowRefused(c, i)
      PROVE  j \in DOMAIN jobs /\ SameJob(jobs[j], jobs'[j])
  <2>1. jobs' = [jobs EXCEPT ![i] = Off(jobs[i])] /\ SameJob(jobs[i], Off(jobs[i]))
    BY <1>1, <1>9, OffSound DEF RunNowRefused, Sound
  <2> QED BY <2>1 DEF SameJob
<1>10. ASSUME NEW c \in Clients, RunNowRollback(c)
       PROVE  /\ j \in DOMAIN jobs /\ jobs'[j].sched = jobs[j].sched
              /\ IF j = exec[call[c]].job THEN jobs[j].count > 0 => jobs'[j].count = jobs[j].count - 1
                                          ELSE jobs'[j].count = jobs[j].count
  <2>1. PICK i : i = exec[call[c]].job /\ jobs' = [k \in DOMAIN jobs |->
                IF k = i /\ jobs[k].count > 0 THEN [jobs[k] EXCEPT !.count = @ - 1] ELSE jobs[k]]
    BY <1>10 DEF RunNowRollback
  <2>2. \A k \in DOMAIN jobs : jobs[k] \in [sched : Schedules, enabled : BOOLEAN, next : Times, count : Nat]
    BY <1>1 DEF Sound, JobType
  <2> QED BY <2>1, <2>2
<1>11. ASSUME NEW c \in Clients, NEW i \in Jobs, NEW sched \in Schedules, Add(c, i, sched)
       PROVE  (j \in DOMAIN jobs /\ SameJob(jobs[j], jobs'[j])) \/ (j = i /\ jobs'[j].count = 0)
  <2>1. jobs' = [k \in DOMAIN jobs \cup {i} |-> IF k = i THEN NewJob(sched, now) ELSE jobs[k]]
    BY <1>11 DEF Add, With
  <2> QED BY <1>1, <2>1, NewJobSound DEF SameJob
<1>12. CASE Restart
  <2>1. jobs' = [i \in DOMAIN file |-> Resumed(file[i], now)]
    BY <1>1, <1>12, LoadedIsResumed DEF Restart
  <2> QED BY <1>1, <1>12, <2>1, ResumedSound
<1> QED BY <1>2, <1>3, <1>4, <1>5, <1>6, <1>7, <1>8, <1>9, <1>10, <1>11, <1>12, Steps DEF SameJob
\* What the counters of the jobs themselves bound.
InJobs(j) ==
  /\ begun[j] + Cardinality(Pending(j)) <= jobs[j].sched.maxRuns
  /\ begun[j] + Cardinality(Pending(j)) + Cardinality(Tentative(j)) <= jobs[j].count

\* The numbers that the bounds are about.
LEMMA CountTypes ==
  ASSUME TypeInv
  PROVE  /\ \A j \in Jobs : begun[j] \in Nat
         /\ \A j \in DOMAIN jobs : j \in Jobs /\ Sound(jobs[j]) /\ jobs[j].count \in Nat /\ jobs[j].sched.maxRuns \in Nat
         /\ \A j \in DOMAIN file : j \in Jobs /\ Sound(file[j]) /\ file[j].count \in Nat /\ file[j].sched.maxRuns \in Nat
         /\ \A p \in Procs : \A j \in DOMAIN snap[p] :
              j \in Jobs /\ Sound(snap[p][j]) /\ snap[p][j].count \in Nat /\ snap[p][j].sched.maxRuns \in Nat
<1>1. \A k : Sound(k) => k.count \in Nat /\ k.sched.maxRuns \in Nat
  BY ScheduleAssumption DEF Sound, JobType
<1>2. \A j \in Jobs : begun[j] \in Nat
  BY DEF TypeInv, Values
<1> QED BY <1>1, <1>2, CopiesSound DEF TypeInv, Values

\* A job that the step leaves limited was limited, unless the process ends.
LEMMA LimitedBefore ==
  ASSUME TypeInv, Next, NEW j \in Jobs, patched'[j] # "overtaken", ~tainted'
  PROVE  patched[j] # "overtaken" /\ ~tainted /\ (Restart => ~unsaved)
<1>1. CASE Restart
  BY <1>1, FileStep DEF Restart
<1>2. CASE ~Restart
  BY <1>2, FileStep
<1> QED BY <1>1, <1>2

LEMMA CountsTrigger ==
  ASSUME TypeInv, Counts, TriggerDue, NEW j \in DOMAIN jobs', Limited(jobs[j], j)'
  PROVE  InJobs(j)'
<1>1. PICK token \in [StartNow -> Unused] : Triggered(token)
  BY TriggerDueTriggers
<1>2. /\ jobs' = [i \in DOMAIN jobs |-> IF i \in StartNow THEN Counted(jobs[i]) ELSE Retire(jobs[i], now)]
      /\ begun' = begun /\ patched' = patched /\ tainted' = tainted
  BY DEF TriggerDue
<1>3. /\ j \in DOMAIN jobs /\ j \in Jobs /\ Sound(jobs[j])
      /\ begun[j] \in Nat /\ jobs[j].count \in Nat /\ jobs[j].sched.maxRuns \in Nat
  BY <1>2, CountTypes
<1>4. /\ IsFiniteSet(Pending(j)) /\ IsFiniteSet(Tentative(j))
      /\ Cardinality(Pending(j)) \in Nat /\ Cardinality(Tentative(j)) \in Nat
      /\ Cardinality(Pending(j)') \in Nat /\ Cardinality(Tentative(j)') \in Nat
  BY Counters DEF CountersType
<1>5. Tentative(j)' \subseteq Tentative(j)
  BY <1>1 DEF Triggered, Tentative
<1>6. Cardinality(Tentative(j)') <= Cardinality(Tentative(j))
  BY <1>4, <1>5, FS_Subset
<1>7. CASE j \in StartNow
  <2>1. jobs'[j] = Counted(jobs[j])
    BY <1>2, <1>3, <1>7
  <2>2. jobs'[j].sched = jobs[j].sched /\ (jobs[j].sched.maxRuns > 0 => jobs'[j].count = jobs[j].count + 1)
    BY <1>3, <2>1, CountedSound
  <2>3. Limited(jobs[j], j) /\ jobs[j].sched.maxRuns > 0 /\ jobs'[j].count = jobs[j].count + 1
    BY <1>2, <2>2 DEF Limited
  <2>4. InJobs(j)
    BY <1>3, <2>3 DEF Counts, InJobs
  <2>5. jobs[j].count < jobs[j].sched.maxRuns
    BY <1>3, <1>7, <2>3 DEF StartNow, IsDue, Exhausted, LimitReached
  <2>6. token[j] \notin Pending(j) /\ Pending(j)' \subseteq Pending(j) \cup {token[j]}
    BY <1>1, <1>7 DEF Triggered, Pending
  <2>7. IsFiniteSet(Pending(j) \cup {token[j]}) /\ Cardinality(Pending(j) \cup {token[j]}) = Cardinality(Pending(j)) + 1
    BY <1>4, <2>6, FS_AddElement
  <2>8. Cardinality(Pending(j)') <= Cardinality(Pending(j)) + 1
    BY <2>6, <2>7, FS_Subset
  <2> QED BY <1>2, <1>3, <1>4, <1>6, <2>2, <2>3, <2>4, <2>5, <2>8 DEF InJobs
<1>8. CASE j \notin StartNow
  <2>1. jobs'[j] = Retire(jobs[j], now)
    BY <1>2, <1>3, <1>8
  <2>2. SameJob(jobs[j], jobs'[j])
    BY <1>3, <2>1, RetireSound
  <2>3. InJobs(j)
    BY <1>2, <1>3, <2>2 DEF Counts, InJobs, Limited, SameJob
  <2>4. Pending(j)' \subseteq Pending(j)
    BY <1>1, <1>8 DEF Triggered, Pending
  <2>5. Cardinality(Pending(j)') <= Cardinality(Pending(j))
    BY <1>4, <2>4, FS_Subset
  <2> QED BY <1>2, <1>3, <1>4, <1>6, <2>2, <2>3, <2>5 DEF InJobs, SameJob
<1> QED BY <1>7, <1>8
LEMMA CountsRunNow ==
  ASSUME TypeInv, Counts, Next, NEW c \in Clients, NEW i \in DOMAIN jobs, RunNow(c, i),
         NEW j \in DOMAIN jobs', Limited(jobs[j], j)'
  PROVE  InJobs(j)'
<1>1. PICK t \in Tokens : /\ exec'[t].job = i /\ pc[t] = "unused"
                          /\ \A u \in Tokens \ {t} : exec'[u] = exec[u] /\ pc'[u] = pc[u]
  BY OthersStay
<1>2. /\ jobs' = [jobs EXCEPT ![i] = Counted(jobs[i])] /\ begun' = begun
      /\ patched' = patched /\ tainted' = tainted
  BY DEF RunNow, histVars
<1>3. /\ j \in DOMAIN jobs /\ j \in Jobs /\ Sound(jobs[j])
      /\ begun[j] \in Nat /\ jobs[j].count \in Nat /\ jobs[j].sched.maxRuns \in Nat
  BY <1>2, CountTypes
<1>4. /\ IsFiniteSet(Pending(j)) /\ IsFiniteSet(Tentative(j))
      /\ Cardinality(Pending(j)) \in Nat /\ Cardinality(Tentative(j)) \in Nat
      /\ Cardinality(Pending(j)') \in Nat /\ Cardinality(Tentative(j)') \in Nat
  BY Counters DEF CountersType
<1>5. ~TriggerDue
  <2>1. events \in Int
    BY BoundAssumption DEF TypeInv, Values
  <2> QED BY <2>1 DEF TriggerDue, RunNow, Calls, Event, boundVars
<1>6. begun'[j] + Cardinality(Pending(j)') <= begun[j] + Cardinality(Pending(j))
  BY <1>3, <1>5, CountersMove DEF CounterMoves
<1>7. CASE j = i
  <2>1. jobs'[j] = Counted(jobs[j])
    BY <1>2, <1>3, <1>7
  <2>2. jobs'[j].sched = jobs[j].sched /\ (jobs[j].sched.maxRuns > 0 => jobs'[j].count = jobs[j].count + 1)
    BY <1>3, <2>1, CountedSound
  <2>3. Limited(jobs[j], j) /\ jobs'[j].count = jobs[j].count + 1
    BY <1>2, <2>2 DEF Limited
  <2>4. InJobs(j)
    BY <1>3, <2>3 DEF Counts, InJobs
  <2>5. t \notin Tentative(j) /\ Tentative(j)' \subseteq Tentative(j) \cup {t}
    BY <1>1 DEF Tentative
  <2>6. IsFiniteSet(Tentative(j) \cup {t}) /\ Cardinality(Tentative(j) \cup {t}) = Cardinality(Tentative(j)) + 1
    BY <1>4, <2>5, FS_AddElement
  <2>7. Cardinality(Tentative(j)') <= Cardinality(Tentative(j)) + 1
    BY <2>5, <2>6, FS_Subset
  <2> QED BY <1>2, <1>3, <1>4, <1>6, <2>2, <2>3, <2>4, <2>7 DEF InJobs
<1>8. CASE j # i
  <2>1. jobs'[j] = jobs[j]
    BY <1>2, <1>3, <1>8
  <2>2. InJobs(j)
    BY <1>2, <1>3, <2>1 DEF Counts, InJobs, Limited
  <2>3. Tentative(j)' \subseteq Tentative(j)
    BY <1>1, <1>8 DEF Tentative
  <2>4. Cardinality(Tentative(j)') <= Cardinality(Tentative(j))
    BY <1>4, <2>3, FS_Subset
  <2> QED BY <1>2, <1>3, <1>4, <1>6, <2>1, <2>2, <2>4 DEF InJobs
<1> QED BY <1>7, <1>8

\* Nothing executes a job that was never added.
LEMMA NothingUnused ==
  ASSUME TypeInv, NEW j \in Jobs \ used
  PROVE  begun[j] = 0 /\ Pending(j) = {} /\ Released(j) = {} /\ Tentative(j) = {}
BY DEF TypeInv, Executions, Values, Pending, Released, Tentative, InFlight

LEMMA CountsJobs ==
  ASSUME TypeInv, Counts, Next, NEW j \in DOMAIN jobs', Limited(jobs[j], j)'
  PROVE  InJobs(j)'
<1>1. /\ j \in Jobs /\ jobs'[j].count \in Nat /\ jobs'[j].sched.maxRuns \in Nat
      /\ \A i \in Jobs : begun[i] \in Nat /\ begun'[i] \in Nat
  <2>1. CopiesAgree' /\ used' \subseteq Jobs /\ begun \in [Jobs -> Nat] /\ begun' \in [Jobs -> Nat]
    BY TypeStep DEF TypeInv, Values
  <2>2. j \in used' /\ jobs'[j] \in CopiesOf(j)'
    BY <2>1 DEF CopiesAgree, Known, CopiesOf
  <2>3. Sound(jobs'[j])
    BY <2>1, <2>2 DEF CopiesAgree
  <2> QED BY <2>1, <2>2, <2>3, ScheduleAssumption DEF Sound, JobType
<1>2. /\ IsFiniteSet(Pending(j)) /\ IsFiniteSet(Tentative(j))
      /\ Cardinality(Pending(j)) \in Nat /\ Cardinality(Released(j)) \in Nat /\ Cardinality(Tentative(j)) \in Nat
      /\ Cardinality(Pending(j)') \in Nat /\ Cardinality(Released(j)') \in Nat /\ Cardinality(Tentative(j)') \in Nat
  BY Counters DEF CountersType
<1>3. CASE TriggerDue
  BY <1>3, CountsTrigger
<1>4. CASE \E c \in Clients, i \in DOMAIN jobs : RunNow(c, i)
  BY <1>4, CountsRunNow
<1>5. CASE ~TriggerDue /\ ~\E c \in Clients, i \in DOMAIN jobs : RunNow(c, i)
  <2>1. /\ begun'[j] + Cardinality(Pending(j)') <= begun[j] + Cardinality(Pending(j))
        /\ Cardinality(Tentative(j)') <= Cardinality(Tentative(j))
    BY <1>1, <1>5, CountersMove DEF CounterMoves
  <2>2. patched[j] # "overtaken" /\ ~tainted /\ (Restart => ~unsaved) /\ jobs'[j].sched.maxRuns > 0
    BY <1>1, LimitedBefore DEF Limited
  <2>3. ASSUME j \in DOMAIN jobs, SameJob(jobs[j], jobs'[j]) PROVE InJobs(j)'
    <3>1. Limited(jobs[j], j)
      BY <2>2, <2>3 DEF Limited, SameJob
    <3>2. InJobs(j)
      BY <2>3, <3>1 DEF Counts, InJobs
    <3> QED BY <1>1, <1>2, <2>1, <2>3, <3>2 DEF InJobs, SameJob
  <2>4. ASSUME NEW c \in Clients, NEW sched \in Schedules, Add(c, j, sched), jobs'[j].count = 0 PROVE InJobs(j)'
    <3>1. j \notin used
      BY <2>4 DEF Add
    <3>2. begun[j] = 0 /\ Cardinality(Pending(j)) = 0 /\ Cardinality(Tentative(j)) = 0
      BY <1>1, <3>1, NothingUnused, FS_EmptySet
    <3>3. begun'[j] = 0 /\ Cardinality(Pending(j)') = 0 /\ Cardinality(Tentative(j)') = 0
      BY <1>1, <1>2, <2>1, <3>2
    <3> QED BY <1>1, <2>4, <3>3 DEF InJobs
  <2>5. ASSUME j \in DOMAIN jobs, jobs'[j].sched = jobs[j].sched,
               jobs[j].count > 0 => jobs'[j].count = jobs[j].count - 1,
               NEW c \in Clients, RunNowRollback(c), j = exec[call[c]].job
        PROVE  InJobs(j)'
    <3>1. InJobs(j) /\ jobs[j].count \in Nat
      BY <2>2, <2>5, CountTypes DEF Counts, InJobs, Limited
    <3>2. /\ call[c] \in Tokens /\ pc[call[c]] = "marked" /\ pc'[call[c]] = "unused"
          /\ \A u \in Tokens \ {call[c]} : exec'[u] = exec[u] /\ pc'[u] = pc[u]
          /\ ~exec[call[c]].scheduled
      BY <2>5, OthersStay DEF TypeInv, Executions, Waits, RunNowRollback
    <3>3. call[c] \in Tentative(j) /\ Tentative(j)' \subseteq Tentative(j) \ {call[c]}
      BY <2>5, <3>2 DEF Tentative
    <3>4. IsFiniteSet(Tentative(j) \ {call[c]}) /\ Cardinality(Tentative(j) \ {call[c]}) = Cardinality(Tentative(j)) - 1
      BY <1>2, <3>3, FS_RemoveElement
    <3>5. Cardinality(Tentative(j)') <= Cardinality(Tentative(j)) - 1
      BY <3>3, <3>4, FS_Subset
    <3>6. begun[j] \in Nat /\ begun'[j] \in Nat /\ Cardinality(Tentative(j)) >= 1
      BY <1>1, <1>2, <3>5
    <3>7. jobs[j].count > 0 /\ jobs'[j].count = jobs[j].count - 1
      BY <1>2, <2>5, <3>1, <3>6 DEF InJobs
    <3> QED BY <1>1, <1>2, <2>1, <2>5, <3>1, <3>5, <3>6, <3>7 DEF InJobs
  <2>6. ASSUME Restart, j \in DOMAIN file, SameJob(file[j], jobs'[j]) PROVE InJobs(j)'
    <3>1. /\ begun[j] <= file[j].sched.maxRuns /\ begun[j] + Cardinality(Released(j)) <= file[j].count
          /\ file[j].count \in Nat
      BY <2>2, <2>6, CountTypes DEF Counts, Limited, SameJob
    <3>2. begun' = begun /\ \A t \in Tokens : pc'[t] = "unused"
      BY <2>6, ProcAssumption DEF Restart, FirstPC, Procs
    <3>3. Pending(j)' = {} /\ Tentative(j)' = {}
      BY <3>2 DEF Pending, Tentative
    <3>4. Cardinality(Pending(j)') = 0 /\ Cardinality(Tentative(j)') = 0
      BY <3>3, FS_EmptySet
    <3> QED BY <1>1, <1>2, <2>6, <3>1, <3>2, <3>4 DEF InJobs, SameJob
  <2> QED BY <1>5, <2>2, <2>3, <2>4, <2>5, <2>6, JobCount DEF Limited
<1> QED BY <1>3, <1>4, <1>5
\* What begins keeps below the bound that a copy of its job knows.
LEMMA BegunBound ==
  ASSUME TypeInv, Counts, Next, NEW j \in Jobs, NEW k \in CopiesOf(j), Limited(k, j),
         begun[j] <= k.sched.maxRuns
  PROVE  begun'[j] <= k.sched.maxRuns
<1>1. CASE begun'[j] = begun[j]
  BY <1>1
<1>2. CASE begun'[j] # begun[j]
  <2>1. begun'[j] = begun[j] + 1 /\ Cardinality(Pending(j)) >= 1 /\ j \in DOMAIN jobs
    BY <1>2, CountersMove DEF CounterMoves
  <2>2. jobs[j] \in CopiesOf(j)
    BY <2>1 DEF CopiesOf
  <2>3. jobs[j].sched = k.sched
    BY <2>2 DEF TypeInv, CopiesAgree
  <2>4. InJobs(j)
    BY <2>1, <2>3 DEF Counts, InJobs, Limited
  <2>5. begun[j] \in Nat /\ jobs[j].sched.maxRuns \in Nat /\ Cardinality(Pending(j)) \in Nat
    BY <2>1, CountTypes, Counters DEF CountersType
  <2> QED BY <2>1, <2>3, <2>4, <2>5 DEF InJobs
<1> QED BY <1>1, <1>2

LEMMA CountsSnap ==
  ASSUME TypeInv, Counts, Next, NEW p \in Procs, Saving(p)', NEW j \in DOMAIN snap'[p], Limited(snap[p][j], j)'
  PROVE  /\ begun'[j] <= snap'[p][j].sched.maxRuns
         /\ begun'[j] + Cardinality(IF p = Loop THEN Pending(j)' ELSE Released(j)') <= snap'[p][j].count
<1>1. /\ j \in Jobs /\ p = persistMu' /\ p # None /\ p \in DOMAIN snap
      /\ begun[j] \in Nat /\ begun'[j] \in Nat
      /\ \A q \in Procs : q = persistMu <=> Saving(q)
  <2>1. CopiesAgree' /\ used' \subseteq Jobs /\ begun \in [Jobs -> Nat] /\ begun' \in [Jobs -> Nat] /\ Places'
    BY TypeStep DEF TypeInv, Values
  <2>2. j \in used'
    BY <2>1 DEF CopiesAgree, Known
  <2>3. p = persistMu' /\ p # None
    BY <2>1, ProcAssumption DEF Places
  <2> QED BY <2>1, <2>2, <2>3 DEF TypeInv, Places
<1>2. /\ Cardinality(Pending(j)) \in Nat /\ Cardinality(Released(j)) \in Nat
      /\ Cardinality(Pending(j)') \in Nat /\ Cardinality(Released(j)') \in Nat
      /\ Cardinality(Released(j)') <= Cardinality(Pending(j)')
  BY Counters DEF CountersType
<1>3. CASE \E q \in Procs : Snapshot(q)
  <2>1. snap'[p] = jobs' /\ begun' = begun
    BY <1>1, <1>3, ProcAssumption DEF Snapshot, svcVars, histVars
  <2>2. InJobs(j)'
    BY <2>1, CountsJobs DEF Limited
  <2>3. /\ begun'[j] + Cardinality(Pending(j)') <= snap'[p][j].sched.maxRuns
        /\ begun'[j] + Cardinality(Pending(j)') + Cardinality(Tentative(j)') <= snap'[p][j].count
    BY <2>1, <2>2 DEF InJobs
  <2>4. j \in DOMAIN jobs /\ jobs' = jobs
    BY <1>3, <2>1 DEF Snapshot, svcVars
  <2>5. snap'[p][j].count \in Nat /\ snap'[p][j].sched.maxRuns \in Nat /\ Cardinality(Tentative(j)') \in Nat
    BY <2>1, <2>4, CountTypes, Counters DEF CountersType
  <2> QED BY <1>1, <1>2, <2>3, <2>5
<1>4. CASE ~\E q \in Procs : Snapshot(q)
  <2>1. ~Restart /\ ~LoopSaved /\ persistMu' = persistMu /\ UNCHANGED diskVars
    BY <1>1, <1>4, FileStep DEF Restart
  <2>2. Saving(p) /\ snap'[p] = snap[p]
    BY <1>1, <2>1 DEF diskVars
  <2>3. Limited(snap[p][j], j)
    BY <1>1, <2>2, LimitedBefore DEF Limited
  <2>4. /\ begun[j] <= snap[p][j].sched.maxRuns
        /\ begun[j] + Cardinality(IF p = Loop THEN Pending(j) ELSE Released(j)) <= snap[p][j].count
    BY <2>2, <2>3 DEF Counts
  <2>5. snap[p][j].count \in Nat
    BY <2>2, CountTypes
  <2>6. p = Loop => ~TriggerDue
    BY <2>2 DEF Saving, TriggerDue
  <2>7. /\ p = Loop => begun'[j] + Cardinality(Pending(j)') <= begun[j] + Cardinality(Pending(j))
        /\ begun'[j] + Cardinality(Released(j)') <= begun[j] + Cardinality(Released(j))
    BY <1>1, <2>1, <2>6, CountersMove DEF CounterMoves
  <2>8. snap[p][j] \in CopiesOf(j)
    BY <2>2 DEF CopiesOf
  <2>9. begun'[j] <= snap[p][j].sched.maxRuns
    BY <1>1, <2>3, <2>4, <2>8, BegunBound
  <2> QED BY <1>1, <1>2, <2>2, <2>4, <2>5, <2>7, <2>9
<1> QED BY <1>3, <1>4

LEMMA CountsFile ==
  ASSUME TypeInv, Counts, Next, NEW j \in DOMAIN file', Limited(file[j], j)'
  PROVE  /\ begun'[j] <= file'[j].sched.maxRuns
         /\ ~unsaved' => begun'[j] + Cardinality(Released(j)') <= file'[j].count
<1>1. /\ j \in Jobs /\ begun[j] \in Nat /\ begun'[j] \in Nat
      /\ patched[j] # "overtaken" /\ ~tainted /\ (Restart => ~unsaved) /\ file'[j].sched.maxRuns > 0
  <2>1. CopiesAgree' /\ used' \subseteq Jobs /\ begun \in [Jobs -> Nat] /\ begun' \in [Jobs -> Nat]
    BY TypeStep DEF TypeInv, Values
  <2>2. j \in Jobs
    BY <2>1 DEF CopiesAgree, Known
  <2> QED BY <2>1, <2>2, LimitedBefore DEF Limited
<1>2. /\ Cardinality(Pending(j)) \in Nat /\ Cardinality(Released(j)) \in Nat
      /\ Cardinality(Pending(j)') \in Nat /\ Cardinality(Released(j)') \in Nat
      /\ Cardinality(Released(j)) <= Cardinality(Pending(j))
      /\ Cardinality(Released(j)') <= Cardinality(Pending(j)')
  BY Counters DEF CountersType
<1>3. ASSUME NEW p \in Procs, Saving(p), file' = snap[p], begun' = begun, LoopSaved => p = Loop
      PROVE  begun'[j] <= file'[j].sched.maxRuns /\ begun'[j] + Cardinality(Released(j)') <= file'[j].count
  <2>1. Limited(snap[p][j], j) /\ j \in DOMAIN snap[p]
    BY <1>1, <1>3 DEF Limited
  <2>2. /\ begun[j] <= file'[j].sched.maxRuns
        /\ begun[j] + Cardinality(IF p = Loop THEN Pending(j) ELSE Released(j)) <= file'[j].count
    BY <1>3, <2>1 DEF Counts
  <2>3. file'[j].count \in Nat
    BY <1>3, <2>1, CountTypes
  <2>4. LoopSaved => ~TriggerDue
    BY DEF LoopSaved, Save, TriggerDue
  <2>5. /\ LoopSaved => begun'[j] + Cardinality(Pending(j)') <= begun[j] + Cardinality(Pending(j))
        /\ ~LoopSaved => begun'[j] + Cardinality(Released(j)') <= begun[j] + Cardinality(Released(j))
    BY <1>1, <2>4, CountersMove DEF CounterMoves
  <2> QED BY <1>1, <1>2, <1>3, <2>2, <2>3, <2>5
<1>4. ASSUME file' = file
      PROVE  /\ j \in DOMAIN file /\ file'[j].count \in Nat
             /\ begun'[j] <= file'[j].sched.maxRuns
             /\ ~unsaved => begun[j] + Cardinality(Released(j)) <= file'[j].count
  <2>1. Limited(file[j], j) /\ j \in DOMAIN file
    BY <1>1, <1>4 DEF Limited
  <2>2. file[j] \in CopiesOf(j)
    BY <2>1 DEF CopiesOf
  <2> QED BY <1>1, <1>4, <2>1, <2>2, BegunBound, CountTypes DEF Counts
<1>5. ASSUME file' = file, ~unsaved' => ~unsaved, LoopSaved => unsaved'
      PROVE  ~unsaved' => begun'[j] + Cardinality(Released(j)') <= file'[j].count
  <2>1. ~LoopSaved => begun'[j] + Cardinality(Released(j)') <= begun[j] + Cardinality(Released(j))
    BY <1>1, CountersMove DEF CounterMoves
  <2> QED BY <1>1, <1>2, <1>4, <1>5, <2>1
<1>6. ASSUME Restart
      PROVE  file' = file /\ begun'[j] + Cardinality(Released(j)') <= file'[j].count
  <2>1. file' = file /\ begun' = begun /\ \A t \in Tokens : pc'[t] = "unused"
    BY <1>6, ProcAssumption DEF Restart, FirstPC, Procs
  <2>2. Released(j)' = {}
    BY <2>1 DEF Released
  <2>3. Cardinality(Released(j)') = 0
    BY <2>2, FS_EmptySet
  <2> QED BY <1>1, <1>2, <1>4, <1>6, <2>1, <2>3
<1> QED BY <1>3, <1>4, <1>5, <1>6, FileStep

LEMMA CountsStep ==
  ASSUME TypeInv, Counts, Next
  PROVE  Counts'
<1>1. ASSUME NEW c \in Clients, pc'[c] = "update" PROVE call'[c].next.count = call'[c].seen.count
  <2>1. CASE pc[c] = "update" /\ call'[c] = call[c]
    BY <2>1 DEF Counts
  <2>2. ASSUME NEW j \in DOMAIN jobs, NEW patch, UpdateReads(c, j, patch)
        PROVE  call'[c].next.count = call'[c].seen.count
    <3>1. c \in DOMAIN call /\ jobs[j] \in JobType /\ now \in Nat
      BY CountTypes DEF TypeInv, Executions, Values, Sound
    <3> DEFINE k == Normalized([jobs[j] EXCEPT !.enabled = CASE patch = "enable"  -> TRUE
                                                              [] patch = "disable" -> FALSE
                                                              [] OTHER             -> @], now)
    <3>2. k.count = jobs[j].count
      BY <3>1, PatchSound DEF SameJob
    <3>3. call' = [call EXCEPT ![c] = [job |-> j, seen |-> jobs[j], next |-> k]]
      BY <2>2 DEF UpdateReads
    <3> HIDE DEF k
    <3> QED BY <3>1, <3>2, <3>3
  <2> QED BY <1>1, <2>1, <2>2, DraftStep
<1>2. \A j \in DOMAIN jobs' : Limited(jobs[j], j)' =>
        /\ begun'[j] + Cardinality(Pending(j)') <= jobs'[j].sched.maxRuns
        /\ begun'[j] + Cardinality(Pending(j)') + Cardinality(Tentative(j)') <= jobs'[j].count
  BY CountsJobs DEF InJobs
<1>3. \A j \in DOMAIN file' : Limited(file[j], j)' =>
        /\ begun'[j] <= file'[j].sched.maxRuns
        /\ ~unsaved' => begun'[j] + Cardinality(Released(j)') <= file'[j].count
  BY CountsFile
<1>4. \A p \in Procs : \A j \in DOMAIN snap'[p] : Saving(p)' /\ Limited(snap[p][j], j)' =>
        /\ begun'[j] <= snap'[p][j].sched.maxRuns
        /\ begun'[j] + Cardinality(IF p = Loop THEN Pending(j)' ELSE Released(j)') <= snap'[p][j].count
  BY CountsSnap
<1> QED BY <1>1, <1>2, <1>3, <1>4 DEF Counts
--------------------------------------------------------------------------------
(* The slots of a job lie in order.                                        *)

\* What SlotOrder says of an unpatched job.
SlotsOf(j) ==
  /\ \A t \in InFlightOf({j}) : IsRegistered(t) /\ (exec[t].scheduled => AtSlot(t))
  /\ \/ \E t \in InFlightOf({j}) : exec[t].scheduled
     \/ jobs[j].next = None
     \/ \A s \in slots[j] : s < jobs[j].next

\* Its executions are one, the registered one.
LEMMA OnlyRun ==
  ASSUME SlotOrder, NEW j \in Jobs, Unpatched(j)
  PROVE  /\ SlotsOf(j)
         /\ \A t, u \in InFlightOf({j}) : t = u
         /\ j \notin DOMAIN running => InFlightOf({j}) = {}
<1>1. SlotsOf(j)
  BY DEF SlotOrder, SlotsOf
<1>2. \A t \in InFlightOf({j}) : j \in DOMAIN running /\ t = running[j]
  BY <1>1 DEF SlotsOf, InFlightOf, IsRegistered
<1> QED BY <1>1, <1>2

\* A step leaves the slots and the executions of j alone.
SlotsStay(j) ==
  /\ j \in DOMAIN jobs /\ patched'[j] = patched[j] /\ jobs'[j].sched = jobs[j].sched
  /\ jobs'[j].next \in {None, jobs[j].next} /\ slots'[j] = slots[j]
  /\ j \in DOMAIN running => j \in DOMAIN running' /\ running'[j] = running[j]
  /\ \A t \in Tokens : InFlight(t) /\ exec[t].job = j => InFlight(t)' /\ exec'[t].job = j
  /\ \A t \in Tokens : InFlight(t)' /\ exec'[t].job = j =>
       /\ InFlight(t) /\ exec[t].job = j
       /\ exec'[t].scheduled = exec[t].scheduled /\ exec'[t].slot = exec[t].slot
       /\ pc'[t] \in Fresh => pc[t] \in Fresh

LEMMA SlotsKept ==
  ASSUME TypeInv, SlotOrder, NEW j \in Jobs, Unpatched(j)', SlotsStay(j)
  PROVE  SlotsOf(j)'
<1>1. Unpatched(j)
  BY DEF Unpatched, SlotsStay
<1>2. SlotsOf(j)
  BY <1>1, OnlyRun
<1>3. slots[j] \subseteq Nat
  BY DEF TypeInv, Values
<1>4. ASSUME NEW t \in Tokens, InFlight(t)', exec'[t].job = j
      PROVE  IsRegistered(t)' /\ (exec'[t].scheduled => AtSlot(t)')
  <2>1. t \in InFlightOf({j}) /\ exec[t].job = j /\ InFlight(t)
    BY <1>4 DEF SlotsStay, InFlightOf
  <2>2. IsRegistered(t) /\ (exec[t].scheduled => AtSlot(t))
    BY <1>2, <2>1 DEF SlotsOf
  <2>3. IsRegistered(t)'
    BY <1>4, <2>1, <2>2 DEF IsRegistered, SlotsStay
  <2>4. ASSUME exec'[t].scheduled PROVE AtSlot(t)'
    <3>1. exec[t].scheduled /\ exec'[t].slot = exec[t].slot /\ exec[t].slot \in Nat
      BY <1>4, <2>1, <2>4 DEF SlotsStay, TypeInv, Executions
    <3>2. AtSlot(t)
      BY <2>2, <3>1
    <3> QED BY <1>3, <1>4, <2>1, <3>1, <3>2 DEF AtSlot, SlotsStay, Fresh
  <2> QED BY <2>3, <2>4
<1>5. \/ \E t \in InFlightOf({j})' : exec'[t].scheduled
      \/ jobs'[j].next = None
      \/ \A s \in slots'[j] : s < jobs'[j].next
  <2>1. CASE \E t \in InFlightOf({j}) : exec[t].scheduled
    BY <2>1 DEF SlotsStay, InFlightOf
  <2>2. CASE ~\E t \in InFlightOf({j}) : exec[t].scheduled
    BY <1>2, <2>2 DEF SlotsStay, SlotsOf
  <2> QED BY <2>1, <2>2
<1> QED BY <1>4, <1>5 DEF SlotsOf, InFlightOf

\* The first half of SlotOrder.
LEMMA PatchedStep ==
  ASSUME TypeInv, SlotOrder, Next
  PROVE  \A j \in Jobs : patched'[j] # "never" => slots'[j] = {}
<1>1. /\ patched \in [Jobs -> {"never", "clean", "overtaken"}] /\ slots \in [Jobs -> SUBSET Nat]
      /\ \A j \in Jobs : patched[j] # "never" => slots[j] = {}
  BY DEF TypeInv, Values, SlotOrder
<1>2. CASE UNCHANGED <<patched, slots>>
  BY <1>1, <1>2
<1>3. ASSUME TriggerDue \/ LoopSaved \/ LoopExits \/ CloseStops \/ CloseCancels \/ CloseWaited \/ CloseSaved \/ Tick
      PROVE  UNCHANGED <<patched, slots>>
  BY <1>3 DEF TriggerDue, LoopSaved, LoopExits, CloseStops, CloseCancels, CloseWaited, CloseSaved, Tick, Save, histVars
<1>4. ASSUME NEW p, Snapshot(p) \/ Deliver(p) \/ FinishRun(p) \/ RunSaved(p) \/ ClientSaved(p) \/ RunNowSaved(p)
                      \/ RunNowRollback(p)
      PROVE  UNCHANGED <<patched, slots>>
  BY <1>4 DEF Snapshot, Deliver, FinishRun, RunSaved, ClientSaved, RunNowSaved, RunNowRollback, Save, histVars
<1>5. ASSUME NEW c, NEW j, NEW x, NEW D,
             Add(c, j, x) \/ Remove(c, D) \/ UpdateReads(c, j, x) \/ RunNow(c, j) \/ RunNowRefused(c, j)
      PROVE  UNCHANGED <<patched, slots>>
  BY <1>5 DEF Add, Remove, UpdateReads, RunNow, RunNowRefused, histVars
<1>6. ASSUME NEW t \in Tokens, Begin(t) PROVE \A j \in Jobs : patched'[j] # "never" => slots'[j] = {}
  BY <1>1, <1>6 DEF Begin
<1>7. ASSUME NEW c \in Clients, UpdateWrites(c) PROVE \A j \in Jobs : patched'[j] # "never" => slots'[j] = {}
  BY <1>1, <1>7 DEF UpdateWrites
<1>8. CASE Restart
  BY <1>8 DEF Restart
<1> QED BY <1>2, <1>3, <1>4, <1>5, <1>6, <1>7, <1>8, Steps
\* A due job that skips overlaps has no execution; the one that starts is at its next slot.
LEMMA SlotsTrigger ==
  ASSUME TypeInv, SlotOrder, TriggerDue, NEW j \in Jobs, Unpatched(j)'
  PROVE  SlotsOf(j)'
<1>1. PICK token \in [StartNow -> Unused] : Triggered(token)
  BY TriggerDueTriggers
<1>2. /\ jobs' = [i \in DOMAIN jobs |-> IF i \in StartNow THEN Counted(jobs[i]) ELSE Retire(jobs[i], now)]
      /\ slots' = slots /\ patched' = patched
  BY DEF TriggerDue
<1>3. j \in DOMAIN jobs /\ Sound(jobs[j])
  BY <1>2, CountTypes DEF Unpatched
<1>4. /\ jobs'[j].sched = jobs[j].sched
      /\ IF j \in StartNow THEN jobs'[j].next = jobs[j].next ELSE jobs'[j].next \in {None, jobs[j].next}
  <2>1. CASE j \in StartNow
    BY <1>2, <1>3, <2>1, CountedSound
  <2>2. CASE j \notin StartNow
    BY <1>2, <1>3, <2>2, RetireSound DEF SameJob
  <2> QED BY <2>1, <2>2
<1>5. Unpatched(j)
  BY <1>2, <1>3, <1>4 DEF Unpatched
<1>6. /\ running' = [i \in DOMAIN running \cup StartNow |-> IF i \in StartNow THEN token[i] ELSE running[i]]
      /\ \A t \in Tokens : InFlight(t) => exec'[t] = exec[t] /\ pc'[t] = pc[t]
  BY <1>1, OthersStay DEF Triggered
<1>7. CASE j \notin StartNow
  <2>1. \A t \in Tokens : exec'[t].job = j /\ InFlight(t)' => exec'[t] = exec[t] /\ pc'[t] = pc[t]
    BY <1>1, <1>7 DEF Triggered
  <2>2. SlotsStay(j)
    BY <1>2, <1>3, <1>4, <1>6, <1>7, <2>1 DEF SlotsStay, InFlight
  <2> QED BY <2>2, SlotsKept
<1>8. CASE j \in StartNow
  <2>1. /\ token[j] \in Tokens /\ pc'[token[j]] = "marked" /\ exec'[token[j]].job = j
        /\ exec'[token[j]].scheduled /\ exec'[token[j]].slot = jobs[j].next /\ jobs[j].next # None
    BY <1>1, <1>8, ProcAssumption DEF Triggered
  <2>2. j \notin DOMAIN running
    BY <1>5, <1>8 DEF StartNow, Unpatched
  <2>3. InFlightOf({j}) = {} /\ SlotsOf(j)
    BY <1>5, <2>2, OnlyRun
  <2>4. \A s \in slots[j] : s < jobs[j].next
    BY <2>1, <2>3 DEF SlotsOf
  <2>5. \A t \in Tokens : InFlight(t)' /\ exec'[t].job = j => t = token[j]
    BY <1>1, <2>3 DEF Triggered, InFlightOf, InFlight
  <2>6. IsRegistered(token[j])'
    BY <1>6, <1>8, <2>1 DEF IsRegistered
  <2>7. AtSlot(token[j])'
    BY <1>2, <1>4, <1>8, <2>1, <2>4 DEF AtSlot
  <2>8. token[j] \in InFlightOf({j})'
    BY <2>1 DEF InFlightOf, InFlight
  <2> QED BY <2>1, <2>5, <2>6, <2>7, <2>8 DEF SlotsOf, InFlightOf
<1> QED BY <1>7, <1>8

\* What begins is the one execution of its job, and its slot lies behind the others.
LEMMA SlotsBegin ==
  ASSUME TypeInv, SlotOrder, NEW t \in Tokens, Begin(t), NEW j \in Jobs, Unpatched(j)'
  PROVE  SlotsOf(j)'
<1>1. /\ pc \in [Procs -> LoopPC \cup ClosePC \cup ClientPC \cup RunPC] /\ Tokens \subseteq Procs
      /\ slots \in [Jobs -> SUBSET Nat] /\ exec \in [Tokens -> ExecType \cup {None}]
  BY DEF TypeInv, Places, Procs, Values, Executions
<1>2. /\ pc[t] = "begin" /\ pc' = [pc EXCEPT ![t] = "run"] /\ exec[t] \in ExecType
      /\ exec' = [exec EXCEPT ![t] = [exec[t] EXCEPT !.began = now]]
      /\ jobs' = jobs /\ running' = running /\ patched' = patched
  BY <1>1 DEF TypeInv, Begin, Go, Executions, InFlight, svcVars
<1>3. \A u \in Tokens : /\ IF u = t THEN pc'[u] = "run" ELSE pc'[u] = pc[u]
                        /\ exec'[u].job = exec[u].job /\ exec'[u].scheduled = exec[u].scheduled
                        /\ exec'[u].slot = exec[u].slot
  BY <1>1, <1>2 DEF ExecType
<1>4. Unpatched(j) /\ j \in DOMAIN jobs
  BY <1>2 DEF Unpatched
<1>5. CASE slots'[j] = slots[j]
  <2>1. SlotsStay(j)
    BY <1>2, <1>3, <1>4, <1>5 DEF SlotsStay, InFlight, Fresh
  <2> QED BY <2>1, SlotsKept
<1>6. CASE slots'[j] # slots[j]
  <2>1. exec[t].job = j /\ exec[t].scheduled /\ slots'[j] = slots[j] \cup {exec[t].slot}
    BY <1>1, <1>6 DEF Begin
  <2>2. t \in InFlightOf({j}) /\ exec[t].slot \in Nat
    BY <1>2, <2>1 DEF InFlightOf, InFlight, TypeInv, Executions
  <2>3. /\ \A u \in InFlightOf({j}) : u = t
        /\ IsRegistered(t) /\ AtSlot(t)
    BY <1>4, <2>1, <2>2, OnlyRun DEF SlotsOf
  <2>4. \A u \in InFlightOf({j})' : u = t
    BY <1>2, <1>3, <2>3 DEF InFlightOf, InFlight
  <2>5. IsRegistered(t)'
    BY <1>2, <1>3, <2>3 DEF IsRegistered
  <2>6. AtSlot(t)'
    BY <1>1, <1>2, <1>3, <2>1, <2>2, <2>3 DEF AtSlot
  <2>7. t \in InFlightOf({j})' /\ exec'[t].scheduled
    BY <1>3, <2>1 DEF InFlightOf, InFlight
  <2> QED BY <2>4, <2>5, <2>6, <2>7 DEF SlotsOf
<1> QED BY <1>5, <1>6

\* The job moves on only with the execution that is registered for it.
LEMMA SlotsFinish ==
  ASSUME TypeInv, SlotOrder, NEW t \in Tokens, FinishRun(t), NEW j \in Jobs, Unpatched(j)'
  PROVE  SlotsOf(j)'
<1>1. /\ DOMAIN jobs' = DOMAIN jobs /\ slots' = slots /\ patched' = patched
      /\ \A u \in Tokens \ {t} : exec'[u] = exec[u] /\ pc'[u] = pc[u]
      /\ InFlight(t) /\ pc'[t] \in {"persist", "unused"}
      /\ exec[t].began \in Nat /\ (exec[t].scheduled => exec[t].slot \in Nat)
  <2>1. pc \in [Procs -> LoopPC \cup ClosePC \cup ClientPC \cup RunPC] /\ Tokens \subseteq Procs
    BY DEF TypeInv, Places, Procs
  <2> QED BY <2>1, OthersStay DEF FinishRun, InFlight, TypeInv, Executions
<1>2. CASE exec[t].job # j
  <2>1. /\ jobs'[j] = jobs[j] /\ j \in DOMAIN jobs
        /\ running' = running \/ running' = Without(running, {exec[t].job})
    BY <1>1, <1>2 DEF FinishRun, Deregister, Unpatched
  <2>2. ~InFlight(t)'
    BY <1>1 DEF InFlight
  <2>3. SlotsStay(j)
    BY <1>1, <1>2, <2>1, <2>2 DEF SlotsStay, Without, InFlight
  <2> QED BY <2>3, SlotsKept
<1>3. CASE exec[t].job = j
  <2>1. j \in DOMAIN jobs /\ Sound(jobs[j]) /\ patched[j] = "never"
    BY <1>1, CountTypes DEF Unpatched
  <2>2. jobs' = jobs \/ jobs' = [jobs EXCEPT ![j] = Finished(jobs[j], exec[t])]
    BY <1>3 DEF FinishRun
  <2>3. jobs'[j] \in {jobs[j], Finished(jobs[j], exec[t])}
    BY <2>1, <2>2
  <2>4. SameJob(jobs[j], Finished(jobs[j], exec[t]))
    BY <1>1, <2>1, FinishedSound
  <2>5. Unpatched(j)
    BY <2>1, <2>3, <2>4 DEF Unpatched, SameJob
  <2>6. t \in InFlightOf({j})
    BY <1>1, <1>3 DEF InFlightOf
  <2>7. SlotsOf(j) /\ IsRegistered(t) /\ (\A u \in InFlightOf({j}) : u = t) /\ (exec[t].scheduled => AtSlot(t))
    BY <2>5, <2>6, OnlyRun DEF SlotsOf
  <2>8. jobs'[j] = Finished(jobs[j], exec[t])
    BY <1>3, <2>1, <2>7 DEF FinishRun
  <2>9. InFlightOf({j})' = {}
    BY <1>1, <2>7 DEF InFlightOf, InFlight
  <2>10. slots[j] \subseteq Nat /\ jobs'[j].next \in Times
    BY <1>1, <2>1, <2>8, FinishedSound DEF TypeInv, Values, Sound, JobType
  <2>11. CASE exec[t].scheduled
    <3>1. jobs[j].next \in {None, exec[t].slot} /\ \A s \in slots[j] : s <= exec[t].slot
      BY <1>1, <1>3, <2>7, <2>10, <2>11 DEF AtSlot
    <3>2. jobs'[j].next # None => jobs'[j].next > exec[t].slot
      BY <1>1, <2>1, <2>8, <2>11, <3>1, FinishedSound
    <3>3. jobs'[j].next = None \/ \A s \in slots'[j] : s < jobs'[j].next
      BY <1>1, <2>10, <2>11, <3>1, <3>2 DEF Times
    <3> QED BY <2>9, <3>3 DEF SlotsOf
  <2>12. CASE ~exec[t].scheduled
    <3>1. jobs'[j].next \in {None, jobs[j].next}
      BY <1>1, <2>1, <2>8, <2>12, FinishedSound
    <3>2. jobs[j].next = None \/ \A s \in slots[j] : s < jobs[j].next
      BY <2>7, <2>12 DEF SlotsOf
    <3>3. jobs'[j].next = None \/ \A s \in slots'[j] : s < jobs'[j].next
      BY <1>1, <3>1, <3>2
    <3> QED BY <2>9, <3>3 DEF SlotsOf
  <2> QED BY <2>11, <2>12
<1> QED BY <1>2, <1>3
\* A run by hand starts only where nothing runs, and takes no slot.
LEMMA SlotsRunNow ==
  ASSUME TypeInv, SlotOrder, NEW c \in Clients, NEW i \in DOMAIN jobs, RunNow(c, i),
         NEW j \in Jobs, Unpatched(j)'
  PROVE  SlotsOf(j)'
<1>1. PICK t \in Tokens : /\ t = (CHOOSE u \in Unused : TRUE)
                          /\ pc[t] = "unused" /\ pc'[t] = "marked" /\ exec'[t].job = i /\ ~exec'[t].scheduled
                          /\ \A u \in Tokens \ {t} : exec'[u] = exec[u] /\ pc'[u] = pc[u]
  BY OthersStay
<1>2. /\ jobs' = [jobs EXCEPT ![i] = Counted(jobs[i])] /\ slots' = slots /\ patched' = patched
      /\ i \notin DOMAIN running /\ running' = With(running, i, t)
  BY <1>1 DEF RunNow, histVars
<1>3. /\ j \in DOMAIN jobs /\ jobs'[j].sched = jobs[j].sched /\ jobs'[j].next = jobs[j].next
  <2>1. j \in DOMAIN jobs /\ Sound(jobs[j]) /\ jobs'[j] \in {jobs[j], Counted(jobs[j])}
    BY <1>2, CountTypes DEF Unpatched
  <2> QED BY <2>1, CountedSound
<1>4. Unpatched(j)
  BY <1>2, <1>3 DEF Unpatched
<1>5. CASE j # i
  <2>1. SlotsStay(j)
    BY <1>1, <1>2, <1>3, <1>5 DEF SlotsStay, With, InFlight
  <2> QED BY <2>1, SlotsKept
<1>6. CASE j = i
  <2>1. InFlightOf({j}) = {} /\ SlotsOf(j)
    BY <1>2, <1>4, <1>6, OnlyRun
  <2>2. \A u \in InFlightOf({j})' : u = t
    BY <1>1, <2>1 DEF InFlightOf, InFlight
  <2>3. IsRegistered(t)' /\ ~exec'[t].scheduled
    BY <1>1, <1>2 DEF IsRegistered, With
  <2>4. jobs'[j].next = None \/ \A s \in slots'[j] : s < jobs'[j].next
    BY <1>2, <1>3, <2>1 DEF SlotsOf
  <2> QED BY <2>2, <2>3, <2>4 DEF SlotsOf
<1> QED BY <1>5, <1>6

\* Taking a run by hand back takes no slot back either.
LEMMA SlotsRollback ==
  ASSUME TypeInv, SlotOrder, NEW c \in Clients, RunNowRollback(c), NEW j \in Jobs, Unpatched(j)'
  PROVE  SlotsOf(j)'
<1>1. PICK t \in Tokens : /\ t = call[c] /\ pc[t] = "marked" /\ ~exec[t].scheduled /\ pc'[t] = "unused"
                          /\ \A u \in Tokens \ {t} : exec'[u] = exec[u] /\ pc'[u] = pc[u]
  <2>1. ~exec[call[c]].scheduled
    BY DEF TypeInv, Executions, Waits, RunNowRollback
  <2> QED BY <2>1, OthersStay
<1>2. /\ running' = Without(running, {exec[t].job}) /\ slots' = slots /\ patched' = patched
      /\ jobs' = [k \in DOMAIN jobs |-> IF k = exec[t].job /\ jobs[k].count > 0
                                        THEN [jobs[k] EXCEPT !.count = @ - 1] ELSE jobs[k]]
  BY <1>1 DEF RunNowRollback
<1>3. j \in DOMAIN jobs /\ jobs'[j].sched = jobs[j].sched /\ jobs'[j].next = jobs[j].next
  <2>1. j \in DOMAIN jobs /\ Sound(jobs[j])
    BY <1>2, CountTypes DEF Unpatched
  <2> QED BY <1>2, <2>1 DEF Sound, JobType
<1>4. Unpatched(j)
  BY <1>2, <1>3 DEF Unpatched
<1>5. ~InFlight(t)'
  BY <1>1 DEF InFlight
<1>6. CASE exec[t].job # j
  <2>1. SlotsStay(j)
    BY <1>1, <1>2, <1>3, <1>5, <1>6 DEF SlotsStay, Without, InFlight
  <2> QED BY <2>1, SlotsKept
<1>7. CASE exec[t].job = j
  <2>1. t \in InFlightOf({j})
    BY <1>1, <1>7 DEF InFlightOf, InFlight
  <2>2. SlotsOf(j) /\ \A u \in InFlightOf({j}) : u = t
    BY <1>4, <2>1, OnlyRun
  <2>3. InFlightOf({j})' = {}
    BY <1>1, <1>5, <2>2 DEF InFlightOf, InFlight
  <2>4. jobs[j].next = None \/ \A s \in slots[j] : s < jobs[j].next
    BY <1>1, <2>2 DEF SlotsOf
  <2> QED BY <1>2, <1>3, <2>3, <2>4 DEF SlotsOf
<1> QED BY <1>6, <1>7

LEMMA SlotsAdd ==
  ASSUME TypeInv, SlotOrder, NEW c, NEW i \in Jobs, NEW sched, Add(c, i, sched), NEW j \in Jobs, Unpatched(j)',
         c \in Clients
  PROVE  SlotsOf(j)'
<1>1. /\ \A t \in Tokens : pc'[t] = pc[t]
      /\ exec' = exec /\ running' = running /\ slots' = slots /\ patched' = patched
      /\ i \notin used /\ jobs' = With(jobs, i, NewJob(sched, now))
  BY ProcAssumption DEF Add, Go, TypeInv, Places
<1>2. CASE i # j
  <2>1. j \in DOMAIN jobs /\ jobs'[j] = jobs[j]
    BY <1>1, <1>2 DEF With, Unpatched
  <2>2. SlotsStay(j)
    BY <1>1, <2>1 DEF SlotsStay, InFlight
  <2> QED BY <2>2, SlotsKept
<1>3. CASE i = j
  <2>1. slots'[j] = {} /\ InFlightOf({j})' = {}
    BY <1>1, <1>3 DEF TypeInv, Values, Executions, InFlightOf, InFlight
  <2> QED BY <2>1 DEF SlotsOf
<1> QED BY <1>2, <1>3

LEMMA SlotsRest ==
  ASSUME TypeInv, SlotOrder, Next, NEW j \in Jobs, Unpatched(j)',
         running' = running, slots'[j] = slots[j], patched'[j] = patched[j],
         j \in DOMAIN jobs, jobs'[j].sched = jobs[j].sched, jobs'[j].next \in {None, jobs[j].next},
         exec' = exec,
         \A t \in Tokens : pc'[t] = pc[t] \/ (pc[t] \in Fresh /\ pc'[t] \in Fresh)
                             \/ (pc[t] = "run" /\ pc'[t] = "deliver")
                             \/ (~InFlight(t) /\ ~InFlight(t)')
  PROVE  SlotsOf(j)'
<1>1. \A t \in Tokens : /\ InFlight(t) <=> InFlight(t)'
                        /\ InFlight(t) /\ pc'[t] \in Fresh => pc[t] \in Fresh
  BY DEF InFlight, Fresh
<1>2. SlotsStay(j)
  BY <1>1 DEF SlotsStay
<1> QED BY <1>2, SlotsKept
LEMMA SlotOrderStep ==
  ASSUME TypeInv, SlotOrder, Next
  PROVE  SlotOrder'
<1> SUFFICES ASSUME NEW j \in Jobs, Unpatched(j)'
             PROVE  SlotsOf(j)'
  BY PatchedStep DEF SlotOrder, SlotsOf
<1>1. /\ pc \in [Procs -> LoopPC \cup ClosePC \cup ClientPC \cup RunPC] /\ Tokens \subseteq Procs
      /\ Clients \subseteq Procs \ Tokens /\ Loop \in Procs \ Tokens /\ Closer \in Procs \ Tokens
      /\ patched \in [Jobs -> {"never", "clean", "overtaken"}] /\ slots \in [Jobs -> SUBSET Nat]
  BY ProcAssumption DEF TypeInv, Places, Procs, Values
<1> DEFINE Quiet == \A t \in Tokens : \/ pc'[t] = pc[t] \/ (pc[t] \in Fresh /\ pc'[t] \in Fresh)
                                      \/ (pc[t] = "run" /\ pc'[t] = "deliver")
                                      \/ (~InFlight(t) /\ ~InFlight(t)')
<1>2. ASSUME jobs' = jobs, UNCHANGED <<running, slots, patched, exec>>, Quiet
      PROVE  SlotsOf(j)'
  BY <1>2, SlotsRest DEF Unpatched
<1>3. ASSUME NEW p \in Procs, NEW to, pc' = [pc EXCEPT ![p] = to], p \in Tokens => ~InFlight(p) /\ to \notin Ran
      PROVE  Quiet
  <2>1. \A t \in Tokens : pc'[t] = IF t = p THEN to ELSE pc[t]
    BY <1>1, <1>3
  <2> QED BY <1>3, <2>1 DEF InFlight, Ran
<1>4. CASE LoopSaved
  <2>1. \A t \in Tokens : pc'[t] = IF pc[t] = "marked" /\ exec[t].scheduled THEN "begin" ELSE pc[t]
    BY <1>1, <1>4 DEF LoopSaved
  <2>2. jobs' = jobs /\ UNCHANGED <<running, slots, patched, exec>>
    BY <1>4 DEF LoopSaved, Save, svcVars
  <2> QED BY <1>2, <2>1, <2>2 DEF Fresh
<1>5. CASE LoopExits \/ CloseStops \/ CloseCancels \/ CloseWaited \/ CloseSaved
  <2>1. /\ \E p \in {Loop, Closer} : \E to : pc' = [pc EXCEPT ![p] = to]
        /\ jobs' = jobs /\ UNCHANGED <<running, slots, patched, exec>>
    BY <1>5 DEF LoopExits, CloseStops, CloseCancels, CloseWaited, CloseSaved, Go, Save, svcVars, histVars
  <2>2. Quiet
    BY <1>1, <1>3, <2>1
  <2> QED BY <1>2, <2>1, <2>2
<1>6. CASE Tick
  <2>1. pc' = pc /\ jobs' = jobs /\ UNCHANGED <<running, slots, patched, exec>>
    BY <1>6 DEF Tick, svcVars, procVars, histVars
  <2> QED BY <1>2, <2>1
<1>7. ASSUME NEW p \in Procs, Snapshot(p) PROVE SlotsOf(j)'
  <2>1. /\ pc[p] \in {"persist", "persistRun"}
        /\ \E to \in {"save", "saveRun"} : pc' = [pc EXCEPT ![p] = to]
        /\ jobs' = jobs /\ UNCHANGED <<running, slots, patched, exec>>
    BY <1>7 DEF Snapshot, svcVars, histVars
  <2>2. Quiet
    BY <1>3, <2>1 DEF InFlight, Ran
  <2> QED BY <1>2, <2>1, <2>2
<1>8. ASSUME NEW t \in Tokens, Deliver(t) PROVE SlotsOf(j)'
  <2>1. /\ pc[t] = "run" /\ pc' = [pc EXCEPT ![t] = "deliver"]
        /\ jobs' = jobs /\ UNCHANGED <<running, slots, patched, exec>>
    BY <1>8 DEF Deliver, Go, svcVars, histVars
  <2>2. Quiet
    BY <1>1, <2>1
  <2> QED BY <1>2, <2>1, <2>2
<1>9. ASSUME NEW t \in Tokens, RunSaved(t) PROVE SlotsOf(j)'
  <2>1. /\ pc[t] = "save" /\ pc' = [pc EXCEPT ![t] = "unused"]
        /\ jobs' = jobs /\ UNCHANGED <<running, slots, patched, exec>>
    BY <1>9 DEF RunSaved, Save, Go, svcVars
  <2>2. Quiet
    BY <1>1, <1>3, <2>1 DEF InFlight, Ran
  <2> QED BY <1>2, <2>1, <2>2
<1>10. ASSUME NEW c \in Clients, NEW i, NEW x, UpdateReads(c, i, x) \/ ClientSaved(c)
       PROVE  SlotsOf(j)'
  <2>1. /\ \E to : pc' = [pc EXCEPT ![c] = to]
        /\ jobs' = jobs /\ UNCHANGED <<running, slots, patched, exec>>
    BY <1>10 DEF UpdateReads, ClientSaved, Save, Go, svcVars, histVars
  <2>2. Quiet
    BY <1>1, <1>3, <2>1
  <2> QED BY <1>2, <2>1, <2>2
<1>11. ASSUME NEW c \in Clients, RunNowSaved(c) PROVE SlotsOf(j)'
  <2>1. call[c] \in Tokens /\ pc[call[c]] = "marked"
    BY <1>11 DEF TypeInv, Executions, Waits, RunNowSaved
  <2>2. /\ \A t \in Tokens : pc'[t] = pc[t] \/ (t = call[c] /\ pc'[t] = "begin")
        /\ jobs' = jobs /\ UNCHANGED <<running, slots, patched, exec>>
    BY <1>1, <1>11 DEF RunNowSaved, Save, svcVars
  <2>3. Quiet
    BY <2>1, <2>2 DEF Fresh
  <2> QED BY <1>2, <2>2, <2>3
<1>12. ASSUME NEW c \in Clients, NEW D, Remove(c, D) PROVE SlotsOf(j)'
  <2>1. /\ \E to : pc' = [pc EXCEPT ![c] = to]
        /\ jobs' = Without(jobs, D) /\ UNCHANGED <<running, slots, patched, exec>>
    BY <1>12 DEF Remove, Go
  <2>2. j \in DOMAIN jobs /\ jobs'[j] = jobs[j]
    BY <2>1 DEF Without, Unpatched
  <2>3. Quiet
    BY <1>1, <1>3, <2>1
  <2> QED BY <2>1, <2>2, <2>3, SlotsRest
<1>13. ASSUME NEW c \in Clients, UpdateWrites(c) PROVE SlotsOf(j)'
  <2>1. /\ pc' = [pc EXCEPT ![c] = "persist"] /\ jobs' = With(jobs, call[c].job, call[c].next)
        /\ UNCHANGED <<running, exec>>
    BY <1>13 DEF UpdateWrites, Go
  <2>2. j # call[c].job
    BY <1>1, <1>13 DEF UpdateWrites, Unpatched
  <2>3. j \in DOMAIN jobs /\ jobs'[j] = jobs[j] /\ patched'[j] = patched[j] /\ slots'[j] = slots[j]
    BY <1>1, <1>13, <2>1, <2>2 DEF With, UpdateWrites, Unpatched
  <2>4. Quiet
    BY <1>1, <1>3, <2>1
  <2> QED BY <2>1, <2>3, <2>4, SlotsRest
<1>14. ASSUME NEW c \in Clients, NEW i \in DOMAIN jobs, RunNowRefused(c, i) PROVE SlotsOf(j)'
  <2>1. pc' = pc /\ jobs' = [jobs EXCEPT ![i] = Off(jobs[i])] /\ UNCHANGED <<running, slots, patched, exec>>
    BY <1>14 DEF RunNowRefused, procVars, histVars
  <2>2. j \in DOMAIN jobs /\ jobs'[j] \in {jobs[j], Off(jobs[j])} /\ Sound(jobs[j])
    BY <2>1, CountTypes DEF Unpatched
  <2>3. jobs'[j].sched = jobs[j].sched /\ jobs'[j].next \in {None, jobs[j].next}
    BY <2>2 DEF Off, Sound, JobType
  <2> QED BY <2>1, <2>2, <2>3, SlotsRest
<1>15. CASE Restart
  <2>1. slots'[j] = {} /\ \A t \in Tokens : pc'[t] = "unused"
    BY <1>1, <1>15, ProcAssumption DEF Restart, FirstPC
  <2>2. InFlightOf({j})' = {}
    BY <2>1 DEF InFlightOf, InFlight
  <2> QED BY <2>1, <2>2 DEF SlotsOf
<1> QED BY <1>4, <1>5, <1>6, <1>7, <1>8, <1>9, <1>10, <1>11, <1>12, <1>13, <1>14, <1>15, Steps,
           SlotsTrigger, SlotsBegin, SlotsFinish, SlotsRunNow, SlotsRollback, SlotsAdd
--------------------------------------------------------------------------------
(* The specification.                                                      *)

LEMMA InitIInv ==
  ASSUME Init
  PROVE  IInv
<1>1. PICK D \in SUBSET Jobs : file \in [D -> {NewJob(sched, 0) : sched \in Schedules}]
  BY DEF Init, Saved
<1>2. DOMAIN file = D /\ \A j \in D : Sound(file[j]) /\ file[j].count = 0
  BY <1>1, NewJobSound
<1>3. jobs = [j \in D |-> Resumed(file[j], 1)]
  BY <1>2, LoadedIsResumed DEF Init
<1>4. /\ DOMAIN jobs = D
      /\ \A j \in D : Sound(jobs[j]) /\ SameJob(file[j], jobs[j]) /\ jobs[j].count = 0
  BY <1>2, <1>3, ResumedSound DEF SameJob
<1>5. /\ \A p \in Procs : /\ p = Loop => pc[p] = "trigger"
                          /\ p = Closer => pc[p] = "open"
                          /\ p \in Clients => pc[p] = "idle"
                          /\ p \in Tokens => pc[p] = "unused"
      /\ pc = [p \in Procs |-> pc[p]] /\ Loop \in Procs /\ Closer \in Procs
      /\ Clients \subseteq Procs /\ Tokens \subseteq Procs /\ Procs = {Loop, Closer} \cup Clients \cup Tokens
  BY ProcAssumption DEF Init, FirstPC, Procs
<1>6. /\ \A t \in Tokens : ~InFlight(t)
      /\ \A p \in Procs : ~Saving(p) /\ ~Asks(p)
      /\ \A c \in Clients : ~Waits(c) /\ pc[c] # "update"
  BY <1>5 DEF InFlight, Saving, Asks, Waits
<1>7. /\ running = NoJobs /\ canceled = {} /\ suppressed = {} /\ stopping = FALSE
      /\ persistMu = None /\ snap = [p \in Procs |-> NoJobs]
      /\ exec = [t \in Tokens |-> None] /\ call = [c \in Clients |-> None]
      /\ now = 1 /\ events = 0 /\ used = D
      /\ patched = [j \in Jobs |-> "never"] /\ withdrawn = {}
      /\ begun = [j \in Jobs |-> 0] /\ slots = [j \in Jobs |-> {}]
      /\ unsaved = FALSE /\ rolledBack = FALSE /\ tainted = FALSE
  BY <1>2 DEF Init
<1>8. DOMAIN NoJobs = {}
  BY DEF NoJobs
<1>9. Places
  <2>1. \A p \in Procs : pc[p] \in LoopPC \cup ClosePC \cup ClientPC \cup RunPC
    BY <1>5 DEF LoopPC, ClosePC, ClientPC, RunPC
  <2>2. \A p \in Procs : p = persistMu <=> Saving(p)
    BY <1>6, <1>7, ProcAssumption
  <2> QED BY <1>5, <1>7, <2>1, <2>2 DEF Places, LoopPC, ClosePC, ClientPC, RunPC
<1>10. Executions
  BY <1>5, <1>6, <1>7 DEF Executions
<1>11. Values
  <2>1. begun \in [Jobs -> Nat] /\ slots \in [Jobs -> SUBSET Nat] /\ patched \in [Jobs -> {"never", "clean", "overtaken"}]
    BY <1>7
  <2>2. \A j \in Jobs \ used : begun[j] = 0 /\ slots[j] = {}
    BY <1>7
  <2>3. now \in 1..MaxTime /\ events \in 0..MaxEvents
    BY <1>7, BoundAssumption
  <2> QED BY <1>1, <1>7, <2>1, <2>2, <2>3 DEF Values
<1>12. Registrations
  BY <1>7, <1>8 DEF Registrations
<1>13. \A j \in Jobs : \A k \in CopiesOf(j) : j \in D /\ k \in {jobs[j], file[j]}
  BY <1>2, <1>4, <1>6, <1>7, <1>8 DEF CopiesOf
<1>14. CopiesAgree
  <2>1. Known \subseteq used
    BY <1>2, <1>4, <1>7, <1>8 DEF Known
  <2> QED BY <1>2, <1>4, <1>7, <1>13, <2>1 DEF CopiesAgree, SameJob
<1>15. Alone /\ Withdrawn
  BY <1>6, <1>7, <1>8 DEF Alone, Withdrawn
<1>16. SlotOrder
  BY <1>6, <1>7 DEF SlotOrder, InFlightOf
<1>17. Counts
  <2>1. \A j : Pending(j) = {} /\ Released(j) = {} /\ Tentative(j) = {}
    BY <1>5 DEF Pending, Released, Tentative
  <2>2. \A j \in D : begun[j] = 0
    BY <1>1, <1>7
  <2>3. \A j \in D : jobs[j].sched.maxRuns \in Nat /\ file[j].sched.maxRuns \in Nat
    BY <1>2, <1>4, ScheduleAssumption DEF Sound, JobType
  <2>4. \A c \in Clients : pc[c] # "update"
    BY <1>6
  <2>5. \A j : Cardinality(Pending(j)) = 0 /\ Cardinality(Released(j)) = 0 /\ Cardinality(Tentative(j)) = 0
    BY <2>1, FS_EmptySet
  <2>6. \A j \in D : /\ begun[j] + Cardinality(Pending(j)) <= jobs[j].sched.maxRuns
                     /\ begun[j] + Cardinality(Pending(j)) + Cardinality(Tentative(j)) <= jobs[j].count
                     /\ begun[j] <= file[j].sched.maxRuns
                     /\ begun[j] + Cardinality(Released(j)) <= file[j].count
    BY <1>2, <1>4, <2>2, <2>3, <2>5
  <2> QED BY <1>2, <1>4, <1>6, <2>4, <2>6 DEF Counts
<1>18. Window
  BY <1>6 DEF Window
<1>19. Durable
  <2>1. Loaded(Loaded(file, 1), 1) = Loaded(file, 1)
    BY <1>2, LoadedLater
  <2> QED BY <1>7, <2>1 DEF Durable, Init
<1> QED BY <1>9, <1>10, <1>11, <1>12, <1>14, <1>15, <1>16, <1>17, <1>18, <1>19 DEF IInv, TypeInv

LEMMA StepIInv ==
  ASSUME IInv, [Next]_vars
  PROVE  IInv'
<1>1. CASE Next
  BY <1>1, TypeStep, AloneStep, WithdrawnStep, SlotOrderStep, CountsStep, WindowStep, DurableStep DEF IInv
<1>2. CASE UNCHANGED vars
  <2> USE <1>2 DEF vars, svcVars, diskVars, procVars, boundVars, histVars, InFlight, InFlightOf
  <2>1. (Places /\ Values /\ Registrations)'
    BY DEF IInv, TypeInv, Places, Values, Registrations, Saving
  <2>2. Executions'
    BY DEF IInv, TypeInv, Executions, Waits
  <2>3. CopiesAgree' /\ \A j : CopiesOf(j)' = CopiesOf(j)
    BY DEF IInv, TypeInv, CopiesAgree, CopiesOf, Known
  <2>4. (Alone /\ Withdrawn)'
    BY DEF IInv, Alone, Withdrawn, CtxDone, IsRegistered
  <2>5. SlotOrder'
    BY DEF IInv, SlotOrder, Unpatched, AtSlot, IsRegistered
  <2>6. Counts'
    BY DEF IInv, Counts, Limited, Pending, Released, Tentative, Saving
  <2>7. (Window /\ Durable)'
    BY <2>3 DEF IInv, Window, Durable, Asks
  <2> QED BY <2>1, <2>2, <2>3, <2>4, <2>5, <2>6, <2>7 DEF IInv, TypeInv
<1> QED BY <1>1, <1>2
THEOREM Inductive == Spec => []IInv
BY InitIInv, StepIInv, PTL DEF Spec

\* For any jobs, schedules, users and executions: the maps have the shape the code gives
\* them, what is registered for a job is an execution of it that is in flight (so no
\* finishRun, Remove or failed RunNow leaves a job busy for ever), and who writes the
\* file holds persistMu.
THEOREM TypeCorrect == Spec => []TypeOK
<1>1. ASSUME IInv PROVE TypeOK
  <2>1. Places /\ Executions /\ Values /\ Registrations /\ CopiesAgree
    BY <1>1 DEF IInv, TypeInv
  <2>2. IsJobMap(jobs) /\ IsJobMap(file) /\ \A p \in Procs : IsJobMap(snap[p])
    BY <2>1, CopiesSound DEF Values, IsJobMap, Sound
  <2>3. \A c \in Clients : call[c] \in {None} \cup Tokens \cup Draft
    BY <2>1 DEF Executions
  <2>4. DOMAIN jobs \subseteq used
    BY <2>1 DEF CopiesAgree, Known
  <2> QED BY <2>1, <2>2, <2>3, <2>4 DEF TypeOK, Places, Executions, Values, Registrations, Saving
<1> QED BY <1>1, Inductive, PTL

\* startRun, finishRun, Remove and StopAllRuns: of two executions of a job one was told
\* to stop, however late the agent comes back, as long as no failed save of a RunNow
\* takes a registration back.
THEOREM OneAtATimeTheorem == Spec => []OneAtATime
<1>1. IInv => OneAtATime
  BY DEF IInv, Alone, IsRegistered, OneAtATime
<1> QED BY <1>1, Inductive, PTL

\* applyNextRunPolicyLocked and the count taken at the trigger: the clock starts no run of
\* a job beyond MaxRuns or EndsAt, over all processes together, unless an Update overtook
\* another change of the job or a process ended with a save failed.
THEOREM WithinPolicyTheorem == Spec => []WithinPolicy
<1>1. ASSUME IInv PROVE WithinPolicy
  <2> SUFFICES ASSUME NEW j \in DOMAIN jobs, patched[j] # "overtaken", ~tainted
               PROVE  /\ jobs[j].sched.maxRuns > 0 => begun[j] <= jobs[j].sched.maxRuns
                      /\ jobs[j].sched.endsAt # None =>
                           \A t \in InFlightOf({j}) : exec[t].scheduled => exec[t].slot < jobs[j].sched.endsAt
    BY DEF WithinPolicy
  <2>1. TypeInv /\ Counts /\ Window
    BY <1>1 DEF IInv
  <2>2. begun[j] \in Nat /\ jobs[j].sched.maxRuns \in Nat /\ Cardinality(Pending(j)) \in Nat
    BY <2>1, CountTypes, Counters DEF CountersType
  <2>3. jobs[j].sched.maxRuns > 0 => begun[j] <= jobs[j].sched.maxRuns
    BY <2>1, <2>2 DEF Counts, Limited
  <2>4. jobs[j] \in CopiesOf(j)
    BY DEF CopiesOf
  <2> QED BY <2>1, <2>3, <2>4 DEF Window, InFlightOf
<1> QED BY <1>1, Inductive, PTL

\* persist: the copy is taken and written under persistMu, so an older one never
\* overwrites a newer one, and what triggerDue, finishRun and the users' calls changed
\* reaches the file.
THEOREM RestartTheorem == Spec => []RestartLosesNothing
<1>1. ASSUME IInv PROVE RestartLosesNothing
  <2>1. (\A p \in Procs : ~Saving(p)) => persistMu = None
    BY <1>1 DEF IInv, TypeInv, Places
  <2> QED BY <1>1, <2>1 DEF IInv, Durable, Asks, Saving, RestartLosesNothing
<1> QED BY <1>1, Inductive, PTL

\* nextAfterRun: the slot an execution begins lies after every slot that this process
\* began of the job.
THEOREM EachSlotOnceTheorem == Spec => EachSlotOnce
<1>1. ASSUME IInv, NEW t \in Tokens, pc[t] = "begin", exec[t].scheduled,
             exec[t].job \in DOMAIN jobs, jobs[exec[t].job].sched.overlap = "skip"
      PROVE  exec[t].slot \notin slots[exec[t].job]
  <2>1. exec[t].job \in Jobs /\ exec[t].slot \in Nat
    BY <1>1, CountTypes DEF IInv, TypeInv, Executions, InFlight
  <2>2. t \in InFlightOf({exec[t].job})
    BY <1>1 DEF InFlightOf, InFlight
  <2>3. CASE patched[exec[t].job] = "never"
    <3>1. AtSlot(t)
      BY <1>1, <2>1, <2>2, <2>3 DEF IInv, SlotOrder, Unpatched
    <3> QED BY <1>1, <2>1, <3>1 DEF AtSlot
  <2>4. CASE patched[exec[t].job] # "never"
    BY <1>1, <2>1, <2>4 DEF IInv, SlotOrder
  <2> QED BY <2>3, <2>4
<1>2. IInv /\ [Next]_vars =>
        [\A t \in Tokens :
           pc[t] = "begin" /\ pc'[t] = "run" /\ exec[t].scheduled =>
           LET j == exec[t].job IN
           j \in DOMAIN jobs /\ jobs[j].sched.overlap = "skip"
             => exec[t].slot \notin slots[j]]_vars
  BY <1>1
<1> QED BY <1>2, Inductive, PTL DEF Spec, EachSlotOnce
\* Only the execution itself asks for leave to deliver.
LEMMA DeliverOnly ==
  ASSUME TypeInv, Next, NEW t \in Tokens, pc[t] = "run", pc'[t] = "deliver"
  PROVE  Deliver(t)
<1>1. /\ pc \in [Procs -> LoopPC \cup ClosePC \cup ClientPC \cup RunPC] /\ t \in Procs
      /\ t \notin Clients /\ t # Loop /\ t # Closer
      /\ Loop \in Procs /\ Closer \in Procs /\ Clients \subseteq Procs /\ Tokens \subseteq Procs
  BY ProcAssumption DEF TypeInv, Places, Procs
<1>2. ASSUME NEW p \in Procs, NEW to, pc' = [pc EXCEPT ![p] = to]
      PROVE  p = t /\ to = "deliver"
  BY <1>1, <1>2
<1>3. ASSUME NEW p \in Procs, Snapshot(p) PROVE FALSE
  <2>1. \E to \in {"save", "saveRun"} : pc' = [pc EXCEPT ![p] = to]
    BY <1>3 DEF Snapshot
  <2> QED BY <1>2, <1>3, <2>1
<1>4. ASSUME NEW u \in Tokens, Begin(u) \/ FinishRun(u) \/ RunSaved(u) PROVE FALSE
  <2>1. \E to \in {"run", "persist", "unused"} : pc' = [pc EXCEPT ![u] = to]
    BY <1>4 DEF Begin, FinishRun, RunSaved, Go
  <2> QED BY <1>1, <1>2, <2>1
<1>5. ASSUME NEW u \in Tokens, Deliver(u) PROVE u = t
  BY <1>1, <1>2, <1>5 DEF Deliver, Go
<1>6. CASE TriggerDue
  BY <1>1, <1>6, TriggerDueTriggers DEF Triggered
<1>7. CASE LoopSaved
  BY <1>1, <1>7 DEF LoopSaved
<1>8. CASE LoopExits \/ CloseStops \/ CloseCancels \/ CloseWaited \/ CloseSaved
  <2>1. \E p \in {Loop, Closer} : \E to : pc' = [pc EXCEPT ![p] = to]
    BY <1>8 DEF LoopExits, CloseStops, CloseCancels, CloseWaited, CloseSaved, Go
  <2> QED BY <1>1, <1>2, <2>1
<1>9. ASSUME NEW c \in Clients, NEW j, NEW x, NEW D,
             Add(c, j, x) \/ Remove(c, D) \/ UpdateReads(c, j, x) \/ UpdateWrites(c) \/ ClientSaved(c)
      PROVE  FALSE
  <2>1. \E to : pc' = [pc EXCEPT ![c] = to]
    BY <1>9 DEF Add, Remove, UpdateReads, UpdateWrites, ClientSaved, Go
  <2> QED BY <1>1, <1>2, <2>1
<1>10. CASE Tick \/ \E c \in Clients, j \in DOMAIN jobs : RunNowRefused(c, j)
  BY <1>10 DEF Tick, RunNowRefused, procVars
<1>11. ASSUME NEW c \in Clients, NEW j \in DOMAIN jobs, RunNow(c, j) PROVE FALSE
  <2>1. \E u \in Tokens : pc'[u] = "marked" /\ \A v \in Tokens \ {u} : pc'[v] = pc[v]
    BY <1>11, OthersStay
  <2> QED BY <2>1
<1>12. ASSUME NEW c \in Clients, RunNowSaved(c) PROVE FALSE
  <2>1. call[c] \in Tokens /\ pc[call[c]] = "marked"
    BY <1>12 DEF TypeInv, Executions, Waits, RunNowSaved
  <2> QED BY <1>1, <1>12, <2>1 DEF RunNowSaved
<1>13. ASSUME NEW c \in Clients, RunNowRollback(c) PROVE FALSE
  BY <1>13, OthersStay
<1>14. ~Restart
  BY <1>1 DEF Restart, FirstPC
<1> QED BY <1>3, <1>4, <1>5, <1>6, <1>7, <1>8, <1>9, <1>10, <1>11, <1>12, <1>13, <1>14, Steps

\* deliveryAllowed: a run that Remove, Update, a successor or Close has taken the leave
\* from finds it suppressed or another's token in the map, and stays silent.
THEOREM NoUnwantedDeliveryTheorem == Spec => NoUnwantedDelivery
<1>1. ASSUME IInv, Next, NEW t \in Tokens, pc[t] = "run", pc'[t] = "deliver"
      PROVE  t \notin withdrawn
  BY <1>1, DeliverOnly DEF IInv, Withdrawn, Deliver, DeliveryAllowed
<1>2. IInv /\ [Next]_vars =>
        [\A t \in Tokens : pc[t] = "run" /\ pc'[t] = "deliver" => t \notin withdrawn]_vars
  BY <1>1
<1> QED BY <1>2, Inductive, PTL DEF Spec, NoUnwantedDelivery
===============================================================================
