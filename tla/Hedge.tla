--------------------------------- MODULE Hedge ---------------------------------
(***************************************************************************)
(* The hedging model of model/hedge: one loop launches the candidates,     *)
(* early when all launched ones have failed and else when their delay has  *)
(* passed, and reads one channel of events; every launched candidate has a *)
(* goroutine that sends its chunks, then how it ended, to that channel.    *)
(* The first candidate with a meaningful chunk is the winner.              *)
(*                                                                         *)
(* Time is the number of candidates whose launch offset has passed.        *)
(***************************************************************************)
EXTENDS Naturals, Sequences, FiniteSets

CONSTANTS N,          \* number of candidates, the primary is candidate 1
          Streams,    \* Streams[i]: the sequences of chunks candidate i may say (bound)
          Hung        \* candidates that may stop without ending their stream

Candidates == 1..N

\* A chunk without content, a meaningful one, and an error response.
Kinds == {"prelude", "content", "error"}

ASSUME HedgeAssumption == /\ N \in Nat \ {0}
                          /\ DOMAIN Streams = Candidates
                          /\ Hung \subseteq Candidates

Terminal == {"failure", "finished"}

VARIABLES
  pc,         \* where the loop is
  winner,     \* winnerIndex, 0 while there is none
  active,     \* activeCount
  failures,   \* the candidates in failures
  next,       \* nextLaunchIndex
  due,        \* the real time
  now,        \* the time the loop has read
  events,     \* eventChan
  attempt,    \* attempt[i]: the state of candidate i's goroutine
  box,        \* box[i]: the event the goroutine is sending
  said,       \* said[i]: what candidate i has said
  canceled,   \* the attempts whose context was canceled on its own
  stopped,    \* the context of the run is done
  heard,      \* what was yielded, each <<candidate, position>>
  verdict     \* how the run ended

loopVars == <<pc, winner, active, failures, next, now, canceled, heard, verdict>>
attemptVars == <<attempt, box, said>>
vars == <<loopVars, attemptVars, due, events, stopped>>

NoEvent == [from |-> 0, kind |-> "none", at |-> 0]
Event(i, k, n) == [from |-> i, kind |-> k, at |-> n]
Events == [from : Candidates, kind : Kinds \cup Terminal, at : Nat]

Attempts == {"idle", "unstarted", "running", "sending", "ending", "gone"}
Verdicts == {"open", "answered", "failed", "silent", "canceled", "unwanted"}

Init ==
  /\ pc = "begin" /\ winner = 0 /\ active = 0 /\ failures = <<>> /\ next = 1
  /\ due = 1 /\ now = 1
  /\ events = <<>>
  /\ attempt = [i \in Candidates |-> "idle"]
  /\ box = [i \in Candidates |-> NoEvent]
  /\ said = [i \in Candidates |-> <<>>]
  /\ canceled = {} /\ stopped = FALSE
  /\ heard = <<>> /\ verdict = "open"

--------------------------------------------------------------------------------
(* The goroutine of a candidate.                                           *)

Done(i) == stopped \/ i \in canceled

\* The candidate's stream yields a chunk.
Say(i, k) ==
  /\ attempt[i] = "running" /\ Append(said[i], k) \in Streams[i]
  /\ said' = [said EXCEPT ![i] = Append(@, k)]
  /\ box' = [box EXCEPT ![i] = Event(i, k, Len(said[i]) + 1)]
  /\ attempt' = [attempt EXCEPT ![i] = "sending"]
  /\ UNCHANGED <<loopVars, due, events, stopped>>

\* Mutant of Send: the channel has no bound.
SendOverFull(i) ==
  /\ attempt[i] = "sending"
  /\ events' = Append(events, box[i])
  /\ box' = [box EXCEPT ![i] = NoEvent]
  /\ attempt' = [attempt EXCEPT ![i] = CASE box[i].kind \in Terminal -> "gone"
                                        [] box[i].kind = "error" -> "ending"
                                        [] OTHER -> "running"]
  /\ UNCHANGED <<loopVars, due, said, stopped>>

\* sendAttemptEvent's select: the channel has room, or the context is done.
Send(i) ==
  /\ attempt[i] = "sending" /\ Len(events) < N
  /\ events' = Append(events, box[i])
  /\ box' = [box EXCEPT ![i] = NoEvent]
  /\ attempt' = [attempt EXCEPT ![i] = CASE box[i].kind \in Terminal -> "gone"
                                        [] box[i].kind = "error" -> "ending"
                                        [] OTHER -> "running"]
  /\ UNCHANGED <<loopVars, due, said, stopped>>

\* Mutant of GiveUp: the send does not watch the context.
GiveUpNever(i) ==
  /\ attempt[i] = "sending" /\ Done(i) /\ Len(events) < N
  /\ box' = [box EXCEPT ![i] = NoEvent]
  /\ attempt' = [attempt EXCEPT ![i] = "gone"]
  /\ UNCHANGED <<loopVars, due, events, said, stopped>>

GiveUp(i) ==
  /\ attempt[i] = "sending" /\ Done(i)
  /\ box' = [box EXCEPT ![i] = NoEvent]
  /\ attempt' = [attempt EXCEPT ![i] = "gone"]
  /\ UNCHANGED <<loopVars, due, events, said, stopped>>

\* The candidate ends its stream, by itself or because its context is done.
EndStream(i) ==
  /\ attempt[i] = "running"
  /\ attempt' = [attempt EXCEPT ![i] = "ending"]
  /\ UNCHANGED <<loopVars, due, events, box, said, stopped>>

Says(i, k) == \E n \in DOMAIN said[i] : said[i][n] = k

\* The end of runAttempt: silent when canceled, else a failure or "finished".
Report(i) ==
  /\ attempt[i] = "ending"
  /\ IF Done(i)
     THEN /\ attempt' = [attempt EXCEPT ![i] = "gone"]
          /\ UNCHANGED box
     ELSE /\ attempt' = [attempt EXCEPT ![i] = "sending"]
          /\ box' = [box EXCEPT ![i] =
               Event(i, IF Says(i, "error") \/ ~Says(i, "content") THEN "failure" ELSE "finished", 0)]
  /\ UNCHANGED <<loopVars, due, events, said, stopped>>

--------------------------------------------------------------------------------
(* The loop.                                                               *)

\* Mutant of LaunchAttempt: a candidate that cannot start counts as active.
LaunchCounted(i) ==
  \/ /\ attempt' = [attempt EXCEPT ![i] = "running"]
     /\ active' = active + 1
     /\ UNCHANGED failures
  \/ /\ attempt' = [attempt EXCEPT ![i] = "unstarted"]
     /\ failures' = Append(failures, i)
     /\ active' = active + 1

\* launchAttempt: a candidate that cannot start is a failure at once.
LaunchAttempt(i) ==
  \/ /\ attempt' = [attempt EXCEPT ![i] = "running"]
     /\ active' = active + 1
     /\ UNCHANGED failures
  \/ /\ attempt' = [attempt EXCEPT ![i] = "unstarted"]
     /\ failures' = Append(failures, i)
     /\ UNCHANGED active

\* run: the primary is launched without delay.
Begin ==
  /\ pc = "begin"
  /\ LaunchAttempt(1)
  /\ next' = 2 /\ pc' = "drain" /\ now' = due
  /\ UNCHANGED <<winner, due, events, box, said, canceled, stopped, heard, verdict>>

\* The loop leaves run; close cancels whatever is left.
End(v) ==
  /\ pc' = "done" /\ verdict' = v /\ stopped' = TRUE

\* The loop goes on: a drain continues, after a wait it advances with the new time.
GoOn ==
  /\ pc' = IF pc = "wait" THEN "drain" ELSE pc
  /\ now' = IF pc = "wait" THEN due ELSE now
  /\ UNCHANGED <<stopped, verdict>>

\* yield: the caller takes the chunk and wants more, or none.
Yield(e) ==
  /\ heard' = Append(heard, <<e.from, e.at>>)
  /\ GoOn \/ (End("unwanted") /\ UNCHANGED now)

Launched(i) == attempt[i] \notin {"idle", "unstarted"}

\* Mutant of Losers: only candidates launched before the winner are canceled.
LosersEarlier(w) == {i \in Candidates : i < w /\ Launched(i)}

\* cancelLosers: the launched candidates other than the winner.
Losers(w) == {i \in Candidates : i # w /\ Launched(i)}

\* Mutant of Choose: every chunk that is no error wins.
ChooseAny(e) ==
  \/ /\ e.kind \in {"content", "prelude"}
     /\ winner' = e.from
     /\ canceled' = Losers(e.from)
     /\ Yield(e)
     /\ UNCHANGED <<active, failures>>
  \/ /\ e.kind \in Terminal
     /\ active' = active - 1
     /\ failures' = IF e.kind = "failure" THEN Append(failures, e.from) ELSE failures
     /\ GoOn
     /\ UNCHANGED <<winner, canceled, heard>>
  \/ /\ e.kind \in {"prelude", "error"}
     /\ GoOn
     /\ UNCHANGED <<winner, canceled, heard, active, failures>>

\* Mutant of Choose: an error response and the failure after it both count.
ChooseCountsErrors(e) ==
  \/ /\ e.kind = "content"
     /\ winner' = e.from
     /\ canceled' = Losers(e.from)
     /\ Yield(e)
     /\ UNCHANGED <<active, failures>>
  \/ /\ e.kind \in Terminal \cup {"error"}
     /\ active' = active - 1
     /\ failures' = IF e.kind = "failure" THEN Append(failures, e.from) ELSE failures
     /\ GoOn
     /\ UNCHANGED <<winner, canceled, heard>>
  \/ /\ e.kind \in {"prelude", "error"}
     /\ GoOn
     /\ UNCHANGED <<winner, canceled, heard, active, failures>>

\* handleEvent while there is no winner.
Choose(e) ==
  \/ /\ e.kind = "content"
     /\ winner' = e.from
     /\ canceled' = Losers(e.from)
     /\ Yield(e)
     /\ UNCHANGED <<active, failures>>
  \/ /\ e.kind \in Terminal
     /\ active' = active - 1
     /\ failures' = IF e.kind = "failure" THEN Append(failures, e.from) ELSE failures
     /\ GoOn
     /\ UNCHANGED <<winner, canceled, heard>>
  \/ /\ e.kind \in {"prelude", "error"}
     /\ GoOn
     /\ UNCHANGED <<winner, canceled, heard, active, failures>>

\* handleEvent once there is a winner.
Forward(e) ==
  /\ \/ e.from # winner /\ GoOn /\ UNCHANGED heard
     \/ e.from = winner /\ e.kind \in Kinds /\ Yield(e)
     \/ e.from = winner /\ e.kind \in Terminal /\ End("answered") /\ UNCHANGED <<heard, now>>
  /\ UNCHANGED <<winner, canceled, active, failures>>

\* Mutant of HandleEvent: events are read by the drains only.
HandleWhenAdvancing ==
  /\ pc \in {"drain", "drainAgain"} /\ events # <<>>
  /\ events' = Tail(events)
  /\ IF winner = 0 THEN Choose(Head(events)) ELSE Forward(Head(events))
  /\ UNCHANGED <<next, due, attemptVars>>

HandleEvent ==
  /\ pc \in {"drain", "drainAgain", "wait"} /\ events # <<>>
  /\ events' = Tail(events)
  /\ IF winner = 0 THEN Choose(Head(events)) ELSE Forward(Head(events))
  /\ UNCHANGED <<next, due, attemptVars>>

Drained ==
  /\ pc = "drain" /\ events = <<>>
  /\ pc' = "launch"
  /\ UNCHANGED <<winner, active, failures, next, now, canceled, heard, verdict>>
  /\ UNCHANGED <<attemptVars, due, events, stopped>>

MayLaunch == winner = 0 /\ next <= N /\ (next <= now \/ active = 0)

\* launchReadyAttempts; the time is read again after an early launch.
Launch ==
  /\ pc = "launch" /\ MayLaunch
  /\ LaunchAttempt(next)
  /\ next' = next + 1
  /\ now' = IF next <= now THEN now ELSE due
  /\ UNCHANGED <<pc, winner, due, events, box, said, canceled, stopped, heard, verdict>>

NoneToLaunch ==
  /\ pc = "launch" /\ ~MayLaunch
  /\ pc' = "drainAgain"
  /\ UNCHANGED <<winner, active, failures, next, now, canceled, heard, verdict>>
  /\ UNCHANGED <<attemptVars, due, events, stopped>>

\* The end of advance: nobody is left to answer, or the loop waits.
Check ==
  /\ pc = "drainAgain" /\ events = <<>>
  /\ IF winner = 0 /\ active = 0 /\ next > N
     THEN End(IF failures = <<>> THEN "silent" ELSE "failed")
     ELSE pc' = "wait" /\ UNCHANGED <<stopped, verdict>>
  /\ UNCHANGED <<winner, active, failures, next, now, canceled, heard>>
  /\ UNCHANGED <<attemptVars, due, events>>

\* The select of wait: the launch timer, or the end of the context.
TimerFires ==
  /\ pc = "wait" /\ winner = 0 /\ next <= N /\ next <= due
  /\ GoOn
  /\ UNCHANGED <<winner, active, failures, next, canceled, heard>>
  /\ UNCHANGED <<attemptVars, due, events>>

ContextDone ==
  /\ pc = "wait" /\ stopped
  /\ End("canceled")
  /\ UNCHANGED <<winner, active, failures, next, now, canceled, heard>>
  /\ UNCHANGED <<attemptVars, due, events>>

--------------------------------------------------------------------------------
(* The environment.                                                        *)

\* Time is not read after the choice of a winner.
TimePasses ==
  /\ winner = 0 /\ pc # "done" /\ due < N
  /\ due' \in (due + 1)..N
  /\ UNCHANGED <<loopVars, attemptVars, events, stopped>>

CallerCancels ==
  /\ pc # "done" /\ ~stopped
  /\ stopped' = TRUE
  /\ UNCHANGED <<loopVars, attemptVars, due, events>>

Loop == \/ Begin \/ HandleEvent \/ Drained \/ Launch \/ NoneToLaunch \/ Check
        \/ TimerFires \/ ContextDone

Model(i) == EndStream(i) \/ \E k \in Kinds : Say(i, k)
Goroutine(i) == Send(i) \/ GiveUp(i) \/ Report(i)

Next == \/ Loop
        \/ \E i \in Candidates : Model(i) \/ Goroutine(i)
        \/ TimePasses
        \/ CallerCancels

\* The loop and the goroutines run; time passes; a candidate that does not hang
\* ends its stream, and every candidate does when its context is done.
Fairness ==
  /\ WF_vars(Loop)
  /\ WF_vars(TimePasses)
  /\ \A i \in Candidates : WF_vars(Goroutine(i))
  /\ \A i \in Candidates : WF_vars((i \notin Hung \/ Done(i)) /\ Model(i))

Spec == Init /\ [][Next]_vars /\ Fairness

--------------------------------------------------------------------------------
(* Properties.                                                             *)

\* Types, and what is in the channel (its capacity is the number of candidates).
TypeOK ==
  /\ pc \in {"begin", "drain", "launch", "drainAgain", "wait", "done"}
  /\ winner \in 0..N /\ active \in 0..N /\ failures \in Seq(Candidates)
  /\ next \in 1..(N + 1) /\ due \in Candidates /\ now \in Candidates
  /\ events \in Seq(Events) /\ Len(events) <= N
  /\ attempt \in [Candidates -> Attempts]
  /\ box \in [Candidates -> Events \cup {NoEvent}]
  /\ said \in [Candidates -> Seq(Kinds)]
  /\ canceled \subseteq Candidates /\ stopped \in BOOLEAN
  /\ heard \in Seq(Candidates \X Nat) /\ verdict \in Verdicts

Failed == {failures[k] : k \in DOMAIN failures}

Working == {i \in Candidates : attempt[i] \in {"running", "sending", "ending"}}

\* Candidates whose last event still waits in eventChan.
Reported == {i \in Candidates : \E k \in DOMAIN events :
               events[k].from = i /\ events[k].kind \in Terminal}

Pending == {i \in Candidates : Launched(i)} \ Failed

\* While the race is open, activeCount (launchAttempt's and handleEvent's counter) is the
\* number of launched candidates not among the failures, and each of these is at work or
\* has its last event unread: nothing is counted twice or forgotten, so that a zero means
\* that all have failed and anything else that an event is still to come.
ActiveIsExact ==
  winner = 0 => /\ active = Cardinality(Pending)
                /\ stopped \/ Pending \subseteq Working \cup Reported

\* Every failure is recorded once, and buildFailureResponse is given to the caller only
\* when every candidate, launched early or late, is among the failures.
FailureMeansAll ==
  /\ \A k, l \in DOMAIN failures : failures[k] = failures[l] => k = l
  /\ verdict = "failed" => Failed = Candidates

\* advance's return with nothing to report (len(r.failures) == 0) is never taken, and
\* a run nobody canceled or refused to read ends with an answer or a failure.
NeverSilent == verdict # "silent"

\* A winner's stream that ended was heard to its last chunk: its "finished" or "failure"
\* event never overtakes a chunk, whatever else is in the channel.
WholeAnswer ==
  verdict = "answered" => heard[Len(heard)] = <<winner, Len(said[winner])>>

\* A candidate is launched before its offset only when all candidates before it have
\* failed, and none is launched once there is a winner.
EarlyOnlyAfterFailures ==
  [][\A i \in Candidates : attempt[i] = "idle" /\ attempt'[i] # "idle" =>
       /\ winner = 0
       /\ i <= due \/ \A j \in 1..(i - 1) : j \in Failed]_vars

\* The caller's view: FirstAnswer with meaningful chunks as the decisive ones.
Promise == INSTANCE FirstAnswer WITH
  Decisive <- {"content"}, refused <- Failed, told <- verdict = "failed"
ImplementsFirstAnswer == Promise!Spec

\* A meaningful chunk of any candidate leads to an answer, even if the primary hangs:
\* it is not stuck behind a full channel, a timer or another candidate's stream.
AnswerArrives ==
  (\E i \in Candidates : Says(i, "content")) ~> (heard # <<>> \/ stopped)

\* cancelLosers and the select in sendAttemptEvent: no losing goroutine stays blocked on
\* the channel, and none at all once the run is over and nobody reads it any more.
LosersLeave ==
  (winner # 0 \/ stopped) ~> (Working \subseteq IF stopped THEN {} ELSE {winner})

\* The run ends unless a candidate is at work for ever, and ends in any case once its
\* context is done: the loop never waits for an event that nobody will send.
RunEnds == <>(pc = "done") \/ []<>(Working # {} /\ ~stopped)
================================================================================
