------------------------------ MODULE RunnerLoop ------------------------------
(***************************************************************************)
(* One run of the Runner over an LLM agent.  The flow (llmflow.Run) emits  *)
(* events and waits for some of them to be appended; a forwarder (LLMAgent)*)
(* copies them to the channel the event loop of the Runner reads; the loop *)
(* appends them to the session, wakes the flow and hands them on to the    *)
(* consumer.  A tool may ask the loop for a flush, and a user may steer,   *)
(* discard and cancel while all this goes on.                              *)
(*                                                                         *)
(* An emission is one step: it looks at the context before it sends.       *)
(***************************************************************************)
EXTENDS Naturals, Sequences, FiniteSets

CONSTANTS MaxMessages,  \* bound on the messages the user sends
          Cap,          \* capacity of each channel
          Shown,        \* the kinds the stream filter lets through
          MaxRounds,    \* bound on the model steps of the run
          MaxTrouble    \* bound on failed appends, timed out waits and ended contexts

ASSUME RunAssumption == /\ MaxMessages \in Nat
                        /\ Cap \in Nat \ {0}
                        /\ MaxRounds \in Nat \ {0}
                        /\ MaxTrouble \in Nat

VARIABLES
  fpc, round, pending,   \* the flow: where it is, its model step, drained messages
  awaited, woken,        \* the event it waits for, its notice channel is closed
  late,                  \* history: a wait has timed out
  ask,                   \* the flush request of the tool that runs
  flowCh, agentCh, outCh, closed,   \* the channels
  lpc, cur, flushing,    \* the loop: where it is, its event, in handleFlushRequest
  notice,                \* noticeChannels
  session, failed,       \* the stored events; history: those whose append failed
  attached,              \* flusher, appender and queue are attached
  ctx,                   \* the execution context
  queue, qopen,          \* the steering queue
  accepted, discarded,   \* history: how many messages were taken, which were discarded
  reading                \* the consumer still reads

waiting  == <<awaited, woken, late>>
channels == <<flowCh, agentCh, outCh, closed>>
looping  == <<lpc, cur, flushing>>
stored   == <<session, failed>>
steering == <<queue, qopen, accepted, discarded>>
shared   == <<notice, attached, ctx, reading>>
flowing  == <<fpc, round, pending, ask>>
vars == <<flowing, waiting, channels, looping, stored, steering, shared>>

Rounds == 1..MaxRounds
\* A message is its number in the order of acceptance, 0 is none.
Messages == 1..MaxMessages
Event(k, r, t) == [kind |-> k, round |-> r, text |-> t]
Start(r)  == Event("start", r, 0)
Says(r, m) == Event("message", r, m)
Calls(r)  == Event("call", r, 0)
Final(r)  == Event("final", r, 0)
Result(r) == Event("result", r, 0)
Error(r)  == Event("error", r, 0)
Done      == Event("done", MaxRounds + 1, 0)
NoEvent   == Event("none", 0, 0)

\* The events with RequiresCompletion, which the flow waits for.
Awaited == {Start(r) : r \in Rounds} \cup {Result(r) : r \in Rounds}
             \cup {Says(r, m) : r \in Rounds, m \in Messages}
Events == Awaited \cup {Calls(r) : r \in Rounds} \cup {Final(r) : r \in Rounds}
            \cup {Error(r) : r \in Rounds} \cup {Done}

\* shouldPersistEvent: a start event has no response.
Persistent(e) == e.kind # "start"

Live == ctx = "live"

One(b) == IF b THEN 1 ELSE 0
\* What has gone wrong so far leaves room for more.
MayGoWrong == Cardinality(failed) + One(late) + One(~Live) < MaxTrouble
Range(s) == {s[i] : i \in DOMAIN s}

Init ==
  /\ fpc = "start" /\ round = 1 /\ pending = <<>> /\ ask = "no"
  /\ awaited = NoEvent /\ woken = FALSE /\ late = FALSE
  /\ flowCh = <<>> /\ agentCh = <<>> /\ outCh = <<>> /\ closed = {}
  /\ lpc = "select" /\ cur = NoEvent /\ flushing = FALSE
  /\ session = <<>> /\ failed = {}
  /\ queue = <<>> /\ qopen = TRUE /\ accepted = 0 /\ discarded = {}
  /\ notice = [e \in Awaited |-> "none"]
  /\ attached = TRUE /\ ctx = "live" /\ reading = TRUE

-------------------------------------------------------------------------------
(* The flow.                                                               *)

\* Mutant of Send: the channel has no bound.
SendUnbounded(e) == Live /\ flowCh' = Append(flowCh, e)

\* EmitEvent to the flow's channel, blocked while it is full; the forwarder holds
\* one event more.
Send(e) == Live /\ Len(flowCh) <= Cap /\ flowCh' = Append(flowCh, e)
Drop    == ~Live /\ UNCHANGED flowCh

Await(e) == fpc' = "add" /\ awaited' = e /\ woken' = FALSE /\ late' = late

\* The flow's steps leave all but its own variables alone.
FlowOnly == UNCHANGED <<agentCh, outCh, lpc, cur, flushing, failed, accepted,
                        discarded, attached, ctx, reading>>

EmitStart ==
  /\ fpc = "start"
  /\ Send(Start(round)) \/ Drop
  /\ Await(Start(round))
  /\ UNCHANGED <<round, pending, ask, closed, session, queue, qopen, notice>> /\ FlowOnly

\* AddNoticeChannel: the channel may be there, and closed, already.
AddNotice ==
  /\ fpc = "add"
  /\ fpc' = "wait" /\ woken' = (notice[awaited] = "closed")
  /\ notice' = [notice EXCEPT ![awaited] = IF @ = "none" THEN "open" ELSE @]
  /\ UNCHANGED <<round, pending, ask, awaited, late, flowCh, closed, session, queue, qopen>>
  /\ FlowOnly

\* Where the flow goes on after a wait that did not end with the context.
Resume == CASE awaited.kind = "start"   -> "drain"
            [] awaited.kind = "message" -> "say"
            [] OTHER                    -> "next"

EndWait == awaited' = NoEvent /\ woken' = FALSE

Woken ==
  /\ fpc = "wait" /\ woken /\ fpc' = Resume /\ EndWait /\ late' = late
  /\ UNCHANGED <<round, pending, ask, flowCh, closed, session, queue, qopen, notice>>
  /\ FlowOnly

\* The wait times out: a warning, and the flow goes on.
TimesOut ==
  /\ fpc = "wait" /\ ~woken /\ (late \/ MayGoWrong)
  /\ fpc' = Resume /\ EndWait /\ late' = TRUE
  /\ UNCHANGED <<round, pending, ask, flowCh, closed, session, queue, qopen,
                 notice>>
  /\ FlowOnly

\* The context ends the wait: an expired one does not end that for the start event.
WaitEndsWithContext ==
  /\ fpc = "wait" /\ ~Live /\ EndWait /\ late' = late
  /\ fpc' = CASE awaited.kind = "result" -> "next"
              [] awaited.kind = "start" /\ ctx = "expired" -> "drain"
              [] OTHER -> "closing"
  /\ UNCHANGED <<round, pending, ask, flowCh, closed, session, queue, qopen, notice>>
  /\ FlowOnly

\* maybeConsumeQueuedUserMessages takes all queued messages, of a queue it may have read
\* before that was cleared ...
Drain ==
  /\ fpc = "drain" /\ fpc' = "say"
  /\ \/ pending' = queue /\ queue' = <<>>
     \/ ~attached /\ UNCHANGED <<pending, queue>>
  /\ UNCHANGED <<round, ask, waiting, flowCh, closed, session, qopen, notice>> /\ FlowOnly

\* ... and emits each as an event it waits for, then comes the model.
Say ==
  /\ fpc = "say"
  /\ \/ pending = <<>> /\ fpc' = "model" /\ UNCHANGED <<pending, waiting, flowCh>>
     \/ /\ pending # <<>> /\ Send(Says(round, Head(pending)))
        /\ pending' = Tail(pending) /\ Await(Says(round, Head(pending)))
     \/ /\ pending # <<>> /\ Drop /\ fpc' = "closing" /\ UNCHANGED <<pending, waiting>>
  /\ UNCHANGED <<round, ask, closed, session, queue, qopen, notice>> /\ FlowOnly

\* The model answers, with tool calls or finally.
ModelAnswers ==
  /\ fpc = "model"
  /\ \/ round < MaxRounds /\ Send(Calls(round)) /\ fpc' = "tools"
     \/ Send(Final(round)) /\ fpc' = "closing"
  /\ UNCHANGED <<round, pending, ask, waiting, closed, session, queue, qopen, notice>>
  /\ FlowOnly

\* The step ends without a response, or fails: then the queue is closed first.
StepFails ==
  /\ fpc = "model"
  /\ \/ fpc' = "closing"
     \/ ctx # "canceled" /\ fpc' = "fail"
  /\ qopen' = FALSE
  /\ UNCHANGED <<round, pending, ask, waiting, flowCh, closed, session, queue, notice>>
  /\ FlowOnly

\* The step panics: recoverFlowRunPanic runs before the queue is closed.
StepPanics ==
  /\ fpc = "model" /\ fpc' = "fail"
  /\ UNCHANGED <<round, pending, ask, waiting, flowCh, closed, session, queue, qopen, notice>>
  /\ FlowOnly

\* An agent tool flushes before it looks at the session.
ToolFlushes ==
  /\ fpc = "tools" /\ ask = "no" /\ attached /\ ask' = "asking"
  /\ UNCHANGED <<fpc, round, pending, waiting, flowCh, closed, session, queue, qopen, notice>>
  /\ FlowOnly

FlushGivesUp ==
  /\ fpc = "tools" /\ ask \in {"asking", "waiting"} /\ ~Live /\ ask' = "refused"
  /\ UNCHANGED <<fpc, round, pending, waiting, flowCh, closed, session, queue, qopen, notice>>
  /\ FlowOnly

\* The tools return: a result, an error event, or nothing to send.
ToolsReturn ==
  /\ fpc = "tools" /\ ask \notin {"asking", "waiting"} /\ ask' = "no"
  /\ fpc' \in {"answer", "complain", "next"}
  /\ UNCHANGED <<round, pending, waiting, flowCh, closed, session, queue, qopen, notice>>
  /\ FlowOnly

\* emitFunctionResponseEventAndWait; after the deadline the flow appends the result
\* to the session itself, with an appender it may have read before it was cleared.
Answer ==
  /\ fpc = "answer"
  /\ \/ /\ Send(Result(round)) /\ UNCHANGED session
        /\ IF attached THEN Await(Result(round)) ELSE fpc' = "next" /\ UNCHANGED waiting
     \/ Drop /\ fpc' = "next" /\ UNCHANGED <<session, waiting>>
     \/ /\ ctx = "expired" /\ fpc' = "next" /\ session' = Append(session, Result(round))
        /\ UNCHANGED <<flowCh, waiting>>
  /\ UNCHANGED <<round, pending, ask, closed, queue, qopen, notice>> /\ FlowOnly

Complain ==
  /\ fpc = "complain" /\ fpc' = "next"
  /\ Send(Error(round)) \/ Drop
  /\ UNCHANGED <<round, pending, ask, waiting, closed, session, queue, qopen, notice>>
  /\ FlowOnly

\* After the tools: the next step, or a tool ended the invocation.
NextRound ==
  /\ fpc = "next" /\ Live /\ fpc' = "start" /\ round' = round + 1
  /\ UNCHANGED <<pending, ask, waiting, flowCh, closed, session, queue, qopen, notice>>
  /\ FlowOnly

StepEnds ==
  /\ fpc = "next" /\ qopen' = FALSE
  /\ fpc' = IF ctx = "expired" THEN "fail" ELSE "closing"
  /\ UNCHANGED <<round, pending, ask, waiting, flowCh, closed, session, queue, notice>>
  /\ FlowOnly

Fail ==
  /\ fpc = "fail" /\ fpc' = "closing"
  /\ Send(Error(round)) \/ Drop
  /\ UNCHANGED <<round, pending, ask, waiting, closed, session, queue, qopen, notice>>
  /\ FlowOnly

\* The deferred steps of the flow: steer.Close, then its channel.
CloseFlow ==
  /\ fpc = "closing" /\ fpc' = "ended" /\ qopen' = FALSE /\ closed' = closed \cup {"flow"}
  /\ UNCHANGED <<round, pending, ask, waiting, flowCh, session, queue, notice>>
  /\ FlowOnly

FlowStep == \/ EmitStart \/ AddNotice \/ Woken \/ WaitEndsWithContext \/ Drain \/ Say
            \/ ModelAnswers \/ StepFails \/ StepPanics
            \/ ToolFlushes \/ FlushGivesUp \/ ToolsReturn \/ Answer \/ Complain
            \/ NextRound \/ StepEnds \/ Fail \/ CloseFlow

-------------------------------------------------------------------------------
(* The forwarder: wrapEventChannelWithTelemetry.                           *)

ForwarderOnly == UNCHANGED <<flowing, waiting, outCh, looping, stored, steering, shared>>

\* The event it has taken and not yet sent on is the first of flowCh.
Forward ==
  /\ flowCh # <<>> /\ Live /\ "agent" \notin closed /\ Len(agentCh) < Cap
  /\ agentCh' = Append(agentCh, Head(flowCh)) /\ flowCh' = Tail(flowCh)
  /\ UNCHANGED closed /\ ForwarderOnly

\* The flow's channel is closed and empty, or an emission fails.
CloseAgent ==
  /\ "agent" \notin closed
  /\ \/ flowCh = <<>> /\ "flow" \in closed
     \/ flowCh # <<>> /\ ~Live
  /\ closed' = closed \cup {"agent"}
  /\ UNCHANGED <<flowCh, agentCh>> /\ ForwarderOnly

ForwarderStep == Forward \/ CloseAgent

-------------------------------------------------------------------------------
(* The event loop of the Runner.                                           *)

LoopOnly == UNCHANGED <<fpc, round, pending, awaited, late, flowCh,
                        queue, accepted, discarded, reading>>

AgentChannelDone == agentCh = <<>> /\ "agent" \in closed

\* Mutant of TakeEvent: the flow is woken before the event is appended.
TakeEventNotifies ==
  /\ lpc \in {"select", "drain"} /\ agentCh # <<>>
  /\ cur' = Head(agentCh) /\ agentCh' = Tail(agentCh) /\ lpc' = "persist"
  /\ notice' = IF cur' \in Awaited THEN [notice EXCEPT ![cur'] = "closed"] ELSE notice
  /\ woken' = (woken \/ (fpc = "wait" /\ awaited = cur'))
  /\ UNCHANGED <<ask, outCh, closed, flushing, stored, qopen,
                 attached, ctx>> /\ LoopOnly

\* The loop, or a flush, receives an event.
TakeEvent ==
  /\ lpc \in {"select", "drain"} /\ agentCh # <<>>
  /\ cur' = Head(agentCh) /\ agentCh' = Tail(agentCh) /\ lpc' = "persist"
  /\ UNCHANGED <<ask, woken, outCh, closed, flushing, stored, qopen,
                 notice, attached, ctx>> /\ LoopOnly

TakeFlush ==
  /\ lpc = "select" /\ ask = "asking" /\ ask' = "waiting"
  /\ lpc' = "drain" /\ flushing' = TRUE
  /\ UNCHANGED <<woken, agentCh, outCh, closed, cur, stored, qopen,
                 notice, attached, ctx>> /\ LoopOnly

Acknowledge == ask' = IF ask = "waiting" THEN "acked" ELSE ask

\* The flush ends when it finds the channel empty or the context done.
FlushEnds ==
  /\ lpc = "drain" /\ (agentCh = <<>> \/ ~Live)
  /\ lpc' = "select" /\ flushing' = FALSE /\ Acknowledge
  /\ UNCHANGED <<woken, agentCh, outCh, closed, cur, stored, qopen,
                 notice, attached, ctx>> /\ LoopOnly

LoopEnds ==
  /\ lpc = "select" /\ (AgentChannelDone \/ ~Live)
  /\ lpc' = "exit"
  /\ UNCHANGED <<ask, woken, agentCh, outCh, closed, cur, flushing, stored, qopen,
                 notice, attached, ctx>> /\ LoopOnly

\* handleEventPersistence: a failed append is logged, the event goes on.  A context
\* that has ended may fail it.
Persist ==
  /\ lpc = "persist"
  /\ \/ Persistent(cur) /\ session' = Append(session, cur) /\ UNCHANGED failed
     \/ ~Persistent(cur) /\ UNCHANGED stored
     \/ /\ Persistent(cur) /\ (MayGoWrong \/ ~Live)
        /\ failed' = failed \cup {cur} /\ UNCHANGED session
  /\ lpc' = IF cur \in Awaited THEN "notify" ELSE "emit"
  /\ UNCHANGED <<ask, woken, agentCh, outCh, closed, cur, flushing, qopen,
                 notice, attached, ctx>> /\ LoopOnly

\* The session service panics: the deferred steps of the flush and the loop follow.
PersistPanics ==
  /\ lpc = "persist" /\ Persistent(cur) /\ MayGoWrong
  /\ failed' = failed \cup {cur} /\ UNCHANGED session
  /\ lpc' = "exit" /\ flushing' = FALSE /\ cur' = NoEvent
  /\ IF flushing THEN Acknowledge ELSE UNCHANGED ask
  /\ UNCHANGED <<woken, agentCh, outCh, closed, qopen,
                 notice, attached, ctx>> /\ LoopOnly

\* Mutant of Notify: a notice channel that is not there yet is not made.
NotifyKnown ==
  /\ lpc = "notify" /\ lpc' = "emit"
  /\ notice' = [notice EXCEPT ![cur] = IF @ = "none" THEN @ ELSE "closed"]
  /\ woken' = (woken \/ (fpc = "wait" /\ awaited = cur))
  /\ UNCHANGED <<ask, agentCh, outCh, closed, cur, flushing, stored, qopen,
                 attached, ctx>> /\ LoopOnly

\* NotifyCompletion: the waiter may be there, or still come.
Notify ==
  /\ lpc = "notify" /\ lpc' = "emit"
  /\ notice' = [notice EXCEPT ![cur] = "closed"]
  /\ woken' = (woken \/ (fpc = "wait" /\ awaited = cur))
  /\ UNCHANGED <<ask, agentCh, outCh, closed, cur, flushing, stored, qopen,
                 attached, ctx>> /\ LoopOnly

Emit ==
  /\ lpc = "emit"
  /\ \/ cur.kind \notin Shown /\ UNCHANGED outCh
     \/ /\ cur.kind \in Shown /\ Live /\ Len(outCh) < Cap
        /\ outCh' = Append(outCh, cur)
  /\ lpc' = IF flushing THEN "drain" ELSE "select"
  /\ cur' = NoEvent
  /\ UNCHANGED <<ask, woken, agentCh, closed, flushing, stored, qopen,
                 notice, attached, ctx>> /\ LoopOnly

\* An emission that fails ends the loop, but only the flush if one is on.
EmitFails ==
  /\ lpc = "emit" /\ cur.kind \in Shown /\ ~Live
  /\ IF flushing THEN lpc' = "select" /\ Acknowledge ELSE lpc' = "exit" /\ UNCHANGED ask
  /\ flushing' = FALSE /\ cur' = NoEvent
  /\ UNCHANGED <<woken, agentCh, outCh, closed, stored, qopen,
                 notice, attached, ctx>> /\ LoopOnly

\* The deferred steps of runEventLoop, in their order.
\* steer.Close; emitRunnerCompletion appends the completion even after a cancel ...
Complete ==
  /\ lpc = "exit" /\ qopen' = FALSE
  /\ \/ session' = Append(session, Done) /\ lpc' = "announce" /\ UNCHANGED failed
     \/ /\ MayGoWrong /\ failed' = failed \cup {Done}
        /\ lpc' \in {"announce", "withdraw"} /\ UNCHANGED session
  /\ UNCHANGED <<ask, woken, agentCh, outCh, closed, cur, flushing,
                 notice, attached, ctx>> /\ LoopOnly

\* ... and waits a second at most for the consumer to take it.
Announce ==
  /\ lpc = "announce" /\ lpc' = "withdraw"
  /\ IF Len(outCh) < Cap THEN outCh' = Append(outCh, Done) ELSE UNCHANGED outCh
  /\ UNCHANGED <<ask, woken, agentCh, closed, cur, flushing, stored, qopen,
                 notice, attached, ctx>> /\ LoopOnly

\* The flusher, the appender and the queue are cleared, then the run is forgotten.  Whoever
\* looked it up before still has its queue and its cancel function: no action of the user
\* depends on whether the run is still known.
Withdraw ==
  /\ lpc = "withdraw" /\ lpc' = "closeOut"
  /\ attached' = FALSE /\ qopen' = FALSE
  /\ UNCHANGED <<ask, woken, agentCh, outCh, closed, cur, flushing, stored,
                 notice, ctx>> /\ LoopOnly

CloseOut ==
  /\ lpc = "closeOut" /\ lpc' = "cleanup" /\ closed' = closed \cup {"out"}
  /\ UNCHANGED <<ask, woken, agentCh, outCh, cur, flushing, stored, qopen,
                 notice, attached, ctx>> /\ LoopOnly

\* CleanupNotice closes and forgets every notice channel.
Cleanup ==
  /\ lpc = "cleanup" /\ lpc' = "cancel"
  /\ notice' = [e \in Awaited |-> "none"] /\ woken' = (woken \/ fpc = "wait")
  /\ UNCHANGED <<ask, agentCh, outCh, closed, cur, flushing, stored, qopen,
                 attached, ctx>> /\ LoopOnly

CancelRun ==
  /\ lpc = "cancel" /\ lpc' = "ended" /\ ctx' = IF Live THEN "canceled" ELSE ctx
  /\ UNCHANGED <<ask, woken, agentCh, outCh, closed, cur, flushing, stored, qopen,
                 notice, attached>> /\ LoopOnly

LoopStep == \/ TakeEvent \/ TakeFlush \/ FlushEnds \/ LoopEnds
            \/ Persist \/ PersistPanics \/ Notify \/ Emit \/ EmitFails
            \/ Complete \/ Announce \/ Withdraw \/ CloseOut
            \/ Cleanup \/ CancelRun

-------------------------------------------------------------------------------
(* The user, the consumer and the clock.                                   *)

UserOnly == UNCHANGED <<flowing, waiting, flowCh, agentCh, closed, looping,
                        stored, notice, attached>>

\* Mutant of Enqueue: a queue that is closed still takes messages.
EnqueueClosed ==
  /\ accepted < MaxMessages
  /\ accepted' = accepted + 1 /\ queue' = Append(queue, accepted')
  /\ UNCHANGED <<outCh, qopen, discarded, ctx, reading>> /\ UserOnly

\* EnqueueUserMessage: the caller may have found the run long ago, so only its
\* queue can refuse the message.
Enqueue ==
  /\ qopen /\ accepted < MaxMessages
  /\ accepted' = accepted + 1 /\ queue' = Append(queue, accepted')
  /\ UNCHANGED <<outCh, qopen, discarded, ctx, reading>> /\ UserOnly

\* CancelQueuedUserMessages: here as well the caller may have found the run long ago, and
\* a closed queue is emptied like an open one, also after the end of the run.
Discard ==
  /\ queue # <<>> /\ queue' = <<>>
  /\ discarded' = discarded \cup Range(queue)
  /\ UNCHANGED <<outCh, qopen, accepted, ctx, reading>> /\ UserOnly

\* Cancel by request id, the caller's context, or the run's deadline.
ContextEnds ==
  /\ Live /\ MayGoWrong /\ ctx' \in {"canceled", "expired"}
  /\ UNCHANGED <<outCh, steering, reading>> /\ UserOnly

Read ==
  /\ reading /\ outCh # <<>> /\ outCh' = Tail(outCh)
  /\ UNCHANGED <<steering, ctx, reading>> /\ UserOnly

\* A consumer that leaves makes a difference when something waits for it.
StopReading ==
  /\ reading /\ outCh # <<>> /\ reading' = FALSE
  /\ UNCHANGED <<outCh, steering, ctx>> /\ UserOnly

Next == \/ FlowStep \/ TimesOut \/ ForwarderStep \/ LoopStep
        \/ Enqueue \/ Discard \/ ContextEnds \/ Read \/ StopReading

\* The goroutines of the run are scheduled, its model and its tools return, and a
\* consumer that has not left reads.  No timeout, user or context is counted on.
Fairness == WF_vars(FlowStep) /\ WF_vars(ForwarderStep) /\ WF_vars(LoopStep) /\ WF_vars(Read)

Spec == Init /\ [][Next]_vars /\ Fairness
-------------------------------------------------------------------------------
(* Properties.                                                             *)

FlowPlaces == {"start", "add", "wait", "drain", "say", "model", "tools", "answer", "complain",
               "next", "fail", "closing", "ended"}
LoopPlaces == {"select", "drain", "persist", "notify", "emit", "exit", "announce", "withdraw",
               "closeOut", "cleanup", "cancel", "ended"}
Handling == {"persist", "notify", "emit"}

FlowType ==
  /\ fpc \in FlowPlaces /\ round \in Rounds /\ pending \in Seq(Messages)
  /\ awaited \in Awaited \cup {NoEvent} /\ (awaited # NoEvent) = (fpc \in {"add", "wait"})
  /\ ask \in {"no", "asking", "waiting", "acked", "refused"}
ChannelType ==
  /\ flowCh \in Seq(Events) /\ agentCh \in Seq(Events) /\ outCh \in Seq(Events)
  /\ Len(flowCh) <= Cap + 1 /\ Len(agentCh) <= Cap /\ Len(outCh) <= Cap
  /\ closed \subseteq {"flow", "agent", "out"}
LoopType ==
  /\ lpc \in LoopPlaces /\ IF lpc \in Handling THEN cur \in Events ELSE cur = NoEvent
  /\ notice \in [Awaited -> {"none", "open", "closed"}]
  /\ session \in Seq(Events) /\ failed \subseteq Events
  /\ ctx \in {"live", "canceled", "expired"}
QueueType ==
  /\ queue \in Seq(Messages) /\ accepted \in 0..MaxMessages /\ discarded \subseteq Messages
Switches ==
  /\ woken \in BOOLEAN /\ late \in BOOLEAN /\ flushing \in BOOLEAN /\ qopen \in BOOLEAN
  /\ attached \in BOOLEAN /\ reading \in BOOLEAN

\* Every variable has its type and every channel its bound; the loop holds an event
\* exactly while it handles one, and the flow waits for one exactly where it should.
TypeOK == FlowType /\ ChannelType /\ LoopType /\ QueueType /\ Switches

\* Events on their way to the session.
InTransit == Range(flowCh) \cup Range(agentCh) \cup (IF lpc = "persist" THEN {cur} ELSE {})
LoopRuns  == lpc \in {"select", "drain"} \cup Handling

\* "Ensure that the events of the previous agent or the previous step have been
\* synchronized to the session" (emitStartEventAndWait): when a step builds its
\* request, the append of every earlier event and of every queued message it must
\* answer has been tried, unless a wait timed out or the run is being ended.
StepSeesHistory == fpc = "model" /\ Live /\ ~late /\ LoopRuns => InTransit = {}

T == INSTANCE Transcript WITH Entries <- Events, lost <- failed,
                              expired <- ctx = "expired", over <- "out" \in closed

\* The session the run leaves is a transcript: no event is stored twice or out of
\* order, a queued message goes in between rounds, in its turn, and not after
\* CancelQueuedUserMessages, however late that comes; nothing is accepted or stored after
\* the consumer saw the end, and the completion is there by then.
ImplementsTranscript == T!Spec

\* A run ends without the help of a timeout: the flow is woken each time it waits, its
\* goroutines leave and the consumer sees the end, unless the consumer has left and
\* nobody ends the context.
RunEnds ==
  \/ <>(fpc = "ended" /\ "agent" \in closed /\ lpc = "ended" /\ "out" \in closed)
  \/ <>[](Live /\ ~reading)
===============================================================================
