---------------------------- MODULE RunnerLoopProofs ----------------------------
(***************************************************************************)
(* Proofs about RunnerLoop, for any number of messages and rounds, any     *)
(* capacity of the channels, any filter and any amount of trouble.         *)
(***************************************************************************)
EXTENDS RunnerLoop, TLAPS

(* The inductive invariant. *)

\* Tools are called, and a result is sent, before the last round only.
Places ==
  /\ fpc \in {"tools", "answer", "complain", "next"} => round < MaxRounds
  /\ awaited.kind = "result" => round < MaxRounds

\* The last stage of its round the flow may have sent an event of.
Reach == CASE fpc = "start" -> 0
           [] fpc \in {"drain", "say", "model"} -> 2
           [] fpc \in {"add", "wait"} -> IF awaited.kind = "result" THEN 4 ELSE 2
           [] fpc \in {"tools", "answer", "complain"} -> 3
           [] fpc = "fail" -> IF Live THEN 3 ELSE 4
           [] OTHER -> 4

\* The flow has passed event x, and will not send it again.
Behind(x) == x.round < round \/ (x.round = round /\ T!Stage(x.kind) <= Reach)
Unsaid    == Range(pending) \cup Range(queue)
Said(m)   == m <= accepted /\ m \notin discarded /\ \A t \in Unsaid : m < t
Passed(x) == Behind(x) /\ (x.text # 0 => Said(x.text))

Noticed == {e \in Awaited : notice[e] # "none"}
Stored  == Range(session) \cup failed
Passage ==
  /\ \A x \in InTransit \cup Noticed : Passed(x)
  /\ Passed(cur) /\ Passed(awaited)
  /\ \A x \in Stored : x = Done \/ Passed(x)

\* Messages are numbered in the order of acceptance, and what was discarded is gone.
Steering ==
  /\ \A i, j \in DOMAIN pending : i < j => pending[i] < pending[j]
  /\ \A i, j \in DOMAIN queue : i < j => queue[i] < queue[j]
  /\ \A i \in DOMAIN pending, j \in DOMAIN queue : pending[i] < queue[j]
  /\ \A t \in Unsaid : t <= accepted /\ t \notin discarded
  /\ \A t \in discarded : t <= accepted

\* The events on their way are in the order of the transcript.
LineOrder ==
  /\ \A i, j \in DOMAIN flowCh : i < j => T!Before(flowCh[i], flowCh[j])
  /\ \A i, j \in DOMAIN agentCh : i < j => T!Before(agentCh[i], agentCh[j])
  /\ \A i \in DOMAIN agentCh, j \in DOMAIN flowCh : T!Before(agentCh[i], flowCh[j])
  /\ lpc = "persist" => \A x \in Range(agentCh) \cup Range(flowCh) : T!Before(cur, x)

\* While the loop runs, what is stored comes before what is on its way.
Early(d, x) == T!Before(d, x) \/ (ctx = "expired" /\ d.kind = "result" /\ d # x)
StoredFirst == LoopRuns => \A d \in Stored, x \in InTransit : Early(d, x)

\* Nothing follows the event the flow waits for.
AwaitedLast ==
  fpc \in {"add", "wait"} =>
    /\ \A i \in DOMAIN flowCh : flowCh[i] = awaited => i = Len(flowCh)
    /\ \A i \in DOMAIN agentCh :
         agentCh[i] = awaited => i = Len(agentCh) /\ flowCh = <<>>
    /\ lpc \in {"persist", "notify"} /\ cur = awaited => agentCh = <<>> /\ flowCh = <<>>

\* Nothing is on its way once the flow is woken, up to its next event.
Quiet == flowCh = <<>> /\ agentCh = <<>> /\ lpc # "persist"
Synced ==
  /\ fpc \in {"add", "wait"} /\ notice[awaited] = "closed" => Quiet
  /\ fpc = "wait" /\ woken /\ LoopRuns => notice[awaited] = "closed"
  /\ fpc \in {"drain", "say", "model"} /\ Live /\ ~late /\ LoopRuns => Quiet

\* The order of the deferred steps.
Leaving ==
  /\ lpc \in {"announce", "withdraw", "closeOut", "cleanup", "cancel", "ended"} =>
       ~qopen /\ Done \in Stored
  /\ "out" \in closed => lpc \in {"cleanup", "cancel", "ended"}
  /\ LoopRuns \/ lpc = "exit" => Done \notin Stored

IInv == /\ TypeOK /\ Places /\ Passage /\ Steering /\ LineOrder /\ StoredFirst
        /\ AwaitedLast /\ Synced /\ Leaving

--------------------------------------------------------------------------------
(* Facts about events and about the order of the transcript.               *)

LEMMA EventFacts ==
  /\ Awaited \subseteq Events /\ NoEvent \notin Events /\ Done \in Events
  /\ \A e \in Events \cup {NoEvent} :
       /\ e.round \in Nat /\ e.text \in Nat /\ T!Stage(e.kind) \in 1..4
       /\ e.text # 0 <=> e.kind = "message"
       /\ e.text # 0 => e.text \in Messages
  /\ \A e \in Events : e.round \in 1..(MaxRounds + 1)
  /\ \A e \in Awaited : e.round \in Rounds /\ e.kind \in {"start", "message", "result"}
  /\ \A r \in Rounds : /\ Start(r) \in Awaited /\ Result(r) \in Awaited
                       /\ \A m \in Messages : Says(r, m) \in Awaited
                       /\ Calls(r) \in Events /\ Final(r) \in Events /\ Error(r) \in Events
<1>1. MaxRounds \in Nat \ {0} /\ MaxMessages \in Nat
  BY RunAssumption
<1>2. Awaited \subseteq Events
  BY DEF Events
<1>3. \A e \in Events \cup {NoEvent} :
        /\ e.round \in Nat /\ e.text \in Nat /\ T!Stage(e.kind) \in 1..4
        /\ e.text # 0 <=> e.kind = "message"
        /\ e.text # 0 => e.text \in Messages
  BY <1>1 DEF Events, Awaited, NoEvent, Event, Start, Says, Calls, Final, Result, Error, Done,
              Rounds, Messages, T!Stage
<1>4. \A e \in Events : e.round \in 1..(MaxRounds + 1) /\ e.kind # "none"
  BY <1>1 DEF Events, Awaited, Event, Start, Says, Calls, Final, Result, Error, Done,
              Rounds, Messages
<1>5. NoEvent.kind = "none" /\ NoEvent \notin Events
  BY <1>4 DEF NoEvent, Event
<1>6. \A e \in Awaited : e.round \in Rounds /\ e.kind \in {"start", "message", "result"}
  BY DEF Awaited, Event, Start, Says, Result
<1>7. Done \in Events
  BY DEF Events
<1>8. \A r \in Rounds : /\ Start(r) \in Awaited /\ Result(r) \in Awaited
                        /\ \A m \in Messages : Says(r, m) \in Awaited
                        /\ Calls(r) \in Events /\ Final(r) \in Events /\ Error(r) \in Events
  BY DEF Awaited, Events
<1> QED BY <1>2, <1>3, <1>4, <1>5, <1>6, <1>7, <1>8

\* What the constructors build.
LEMMA Constructed ==
  \A r, m : /\ Start(r).kind = "start" /\ Says(r, m).kind = "message"
            /\ Calls(r).kind = "call" /\ Final(r).kind = "final"
            /\ Result(r).kind = "result" /\ Error(r).kind = "error"
            /\ Start(r).round = r /\ Says(r, m).round = r /\ Calls(r).round = r
            /\ Final(r).round = r /\ Result(r).round = r /\ Error(r).round = r
            /\ Start(r).text = 0 /\ Says(r, m).text = m /\ Calls(r).text = 0
            /\ Final(r).text = 0 /\ Result(r).text = 0 /\ Error(r).text = 0
            /\ NoEvent.kind = "none" /\ NoEvent.round = 0 /\ NoEvent.text = 0
            /\ Done.kind = "done" /\ Done.round = MaxRounds + 1 /\ Done.text = 0
BY DEF Event, Start, Says, Calls, Final, Result, Error, NoEvent, Done

LEMMA AwaitedKinds ==
  \A e \in Awaited : e.kind = "start" \/ e.kind = "message" \/ e.kind = "result"
BY EventFacts

LEMMA Stages ==
  /\ T!Stage("start") = 1 /\ T!Stage("message") = 2 /\ T!Stage("call") = 3
  /\ T!Stage("final") = 3 /\ T!Stage("result") = 4 /\ T!Stage("error") = 4
BY DEF T!Stage

\* Appending to a sequence, and taking its first element.
LEMMA Ranges ==
  ASSUME NEW S, NEW s \in Seq(S), NEW e \in S
  PROVE  Range(Append(s, e)) = Range(s) \cup {e}
<1>1. /\ DOMAIN Append(s, e) = 1..(Len(s) + 1) /\ DOMAIN s = 1..Len(s) /\ Len(s) \in Nat
      /\ \A i \in DOMAIN s : Append(s, e)[i] = s[i]
      /\ Append(s, e)[Len(s) + 1] = e
  OBVIOUS
<1>2. ASSUME NEW x \in Range(Append(s, e)) PROVE x \in Range(s) \cup {e}
  <2>1. PICK i \in 1..(Len(s) + 1) : x = Append(s, e)[i]
    BY <1>1, <1>2 DEF Range
  <2> QED BY <1>1, <2>1 DEF Range
<1>3. ASSUME NEW x \in Range(s) \cup {e} PROVE x \in Range(Append(s, e))
  <2>1. CASE x = e
    BY <1>1, <2>1 DEF Range
  <2>2. CASE x \in Range(s)
    <3>1. PICK i \in DOMAIN s : x = s[i]
      BY <2>2 DEF Range
    <3> QED BY <1>1, <3>1 DEF Range
  <2> QED BY <2>1, <2>2
<1> QED BY <1>2, <1>3

\* The variables that the lemmas rely on.
LEMMA Typed ==
  ASSUME TypeOK
  PROVE  /\ round \in Nat /\ round \in Rounds /\ accepted \in Nat /\ Reach \in 0..4
         /\ cur \in Events \cup {NoEvent} /\ awaited \in Awaited \cup {NoEvent}
         /\ InTransit \subseteq Events /\ Stored \subseteq Events /\ Noticed \subseteq Events
         /\ Unsaid \subseteq Messages /\ Unsaid \subseteq Nat
         /\ flowCh \in Seq(Events) /\ agentCh \in Seq(Events) /\ session \in Seq(Events)
         /\ Range(flowCh) \subseteq Events /\ Range(agentCh) \subseteq Events
<1>1. round \in Nat /\ round \in Rounds /\ accepted \in Nat /\ Reach \in 0..4
  BY RunAssumption DEF TypeOK, FlowType, ChannelType, LoopType, QueueType, Rounds, Reach
<1>2. flowCh \in Seq(Events) /\ agentCh \in Seq(Events) /\ session \in Seq(Events)
      /\ failed \subseteq Events
  BY DEF TypeOK, FlowType, ChannelType, LoopType, QueueType
<1>3. cur \in Events \cup {NoEvent} /\ (lpc = "persist" => cur \in Events)
  BY DEF TypeOK, FlowType, ChannelType, LoopType, QueueType, Handling
<1>4. Range(flowCh) \subseteq Events /\ Range(agentCh) \subseteq Events /\ Range(session) \subseteq Events
  BY <1>2 DEF Range
<1>5. Noticed \subseteq Events
  BY EventFacts DEF Noticed
<1>6. pending \in Seq(Messages) /\ queue \in Seq(Messages)
  BY DEF TypeOK, FlowType, ChannelType, LoopType, QueueType
<1>7. Unsaid \subseteq Messages
  BY <1>6 DEF Unsaid, Range
<1>8. Unsaid \subseteq Nat
  BY <1>7 DEF Messages
<1>9. awaited \in Awaited \cup {NoEvent}
  BY DEF TypeOK, FlowType, ChannelType, LoopType, QueueType
<1> QED BY <1>1, <1>2, <1>3, <1>4, <1>5, <1>7, <1>8, <1>9 DEF InTransit, Stored

\* An event that is sent next comes after everything the flow has passed.
LEMMA Ahead ==
  ASSUME TypeOK, NEW e \in Events, e.round = round,
         \/ T!Stage(e.kind) > Reach /\ e.text = 0
         \/ e.kind = "message" /\ Reach = 2 /\ e.text \in Unsaid,
         NEW x \in Events \cup {NoEvent}, Passed(x)
  PROVE  T!Before(x, e) /\ x # e
<1>1. x.round \in Nat /\ e.round \in Nat /\ x.text \in Nat /\ e.text \in Nat
      /\ T!Stage(x.kind) \in 1..4 /\ T!Stage(e.kind) \in 1..4
  BY EventFacts
<1>2. /\ x.round < round \/ (x.round = round /\ T!Stage(x.kind) <= Reach)
      /\ x.text # 0 => \A t \in Unsaid : x.text < t
  BY DEF Passed, Behind, Said
<1>3. Reach \in 0..4 /\ round \in Nat
  BY Typed
<1>4. CASE T!Stage(e.kind) > Reach /\ e.text = 0
  BY <1>1, <1>2, <1>3, <1>4 DEF T!Before
<1>5. CASE e.kind = "message" /\ Reach = 2 /\ e.text \in Unsaid
  <2>1. x.text # 0 => x.text < e.text
    BY <1>2, <1>5
  <2>2. T!Stage(e.kind) = 2
    BY <1>5, Stages
  <2>3. x.round < e.round \/ (x.round = e.round /\ T!Stage(x.kind) < T!Stage(e.kind))
        \/ (x.round = e.round /\ T!Stage(x.kind) = 2)
    BY <1>1, <1>2, <1>3, <1>5, <2>2
  <2>4. T!Stage(x.kind) = 2 => x.kind = "message"
    BY DEF T!Stage
  <2>5. x # e
    BY <2>1, <1>1, <1>5, EventFacts
  <2> QED BY <2>1, <2>3, <2>4, <2>5, <1>5 DEF T!Before
<1> QED BY <1>4, <1>5

\* What the flow has passed stays passed.
LEMMA PassedKept ==
  ASSUME TypeOK, TypeOK', NEW x \in Events \cup {NoEvent}, Passed(x),
         round < round' \/ (round' = round /\ Reach <= Reach'),
         accepted <= accepted', discarded' \subseteq discarded \cup Range(queue),
         \A t \in Unsaid' : t \in Unsaid \/ t > accepted
  PROVE  Passed(x)'
<1>1. /\ x.round \in Nat /\ T!Stage(x.kind) \in 1..4
      /\ x.text \in Nat /\ round \in Nat /\ round' \in Nat
  <2>1. x.round \in Nat /\ T!Stage(x.kind) \in 1..4 /\ x.text \in Nat
    BY EventFacts
  <2>2. round \in Nat
    BY Typed
  <2>3. round' \in Nat
    BY RunAssumption DEF TypeOK, FlowType, Rounds
  <2> QED BY <2>1, <2>2, <2>3
<1>2. accepted \in Nat /\ accepted' \in Nat /\ Reach \in 0..4 /\ Reach' \in 0..4
  <2>1. accepted \in Nat /\ Reach \in 0..4
    BY Typed
  <2>2. accepted' \in Nat
    BY RunAssumption DEF TypeOK, QueueType
  <2>3. Reach' \in 0..4
    BY DEF Reach
  <2> QED BY <2>1, <2>2, <2>3
<1>3. Unsaid \subseteq Nat /\ Unsaid' \subseteq Nat
  <2>1. pending' \in Seq(Messages) /\ queue' \in Seq(Messages)
    BY DEF TypeOK, FlowType, ChannelType, LoopType, QueueType
  <2>2. Unsaid' \subseteq Messages
    BY <2>1 DEF Unsaid, Range
  <2> QED BY Typed, <2>2 DEF Messages
<1>4. Behind(x)'
  BY <1>1, <1>2 DEF Passed, Behind
<1>5. x.text # 0 => Said(x.text)'
  <2> SUFFICES ASSUME x.text # 0 PROVE Said(x.text)'
    OBVIOUS
  <2>1. x.text <= accepted /\ x.text \notin discarded /\ \A t \in Unsaid : x.text < t
    BY DEF Passed, Said
  <2>2. x.text \notin Range(queue)
    BY <2>1, <1>1 DEF Unsaid
  <2>3. \A t \in Unsaid' : x.text < t
    BY <2>1, <1>1, <1>2, <1>3
  <2> QED BY <2>1, <2>2, <2>3, <1>1, <1>2 DEF Said
<1> QED BY <1>4, <1>5 DEF Passed

\* What the lemmas about the steps share: at most event e becomes new.
LEMMA PassageKept ==
  ASSUME TypeOK, TypeOK', Passage, NEW e \in Events \cup {NoEvent}, Passed(e)',
         round < round' \/ (round' = round /\ Reach <= Reach'),
         accepted <= accepted', discarded' \subseteq discarded \cup Range(queue),
         \A t \in Unsaid' : t \in Unsaid \/ t > accepted,
         InTransit' \subseteq InTransit \cup {e},
         Noticed' \subseteq Noticed \cup {cur, awaited},
         cur' \in InTransit \cup {cur, NoEvent}, awaited' \in {awaited, e, NoEvent},
         Stored' \subseteq Stored \cup {cur, Done, e}
  PROVE  Passage'
<1>1. \A x \in Events \cup {NoEvent} : Passed(x) => Passed(x)'
  BY PassedKept
<1>2. /\ InTransit \subseteq Events /\ Noticed \subseteq Events /\ Stored \subseteq Events
      /\ cur \in Events \cup {NoEvent} /\ awaited \in Events \cup {NoEvent}
  BY Typed, EventFacts
<1>3. Passed(NoEvent)'
  <2>1. round' \in Nat /\ round' > 0
    BY DEF TypeOK, FlowType, ChannelType, LoopType, QueueType, Rounds
  <2> QED BY <2>1, Constructed DEF Passed, Behind
<1>4. \A x \in InTransit' \cup Noticed' : Passed(x)'
  BY <1>1, <1>2, <1>3 DEF Passage
<1>5. \A x \in Stored' : x = Done \/ Passed(x)'
  BY <1>1, <1>2, <1>3 DEF Passage
<1>6. \A x : x = cur' => Passed(x)'
  BY <1>1, <1>2, <1>3 DEF Passage
<1>7. \A x : x = awaited' => Passed(x)'
  BY <1>1, <1>2, <1>3 DEF Passage
<1> QED BY <1>4, <1>5, <1>6, <1>7 DEF Passage, Passed, Behind, Said

\* The completion is nothing the flow sends.
LEMMA NotDone ==
  ASSUME TypeOK, NEW x, Passed(x)
  PROVE  x # Done
<1>1. round \in Nat /\ round <= MaxRounds /\ MaxRounds \in Nat
  BY RunAssumption DEF TypeOK, FlowType, Rounds
<1>2. Done.round = MaxRounds + 1
  BY Constructed
<1> QED BY <1>1, <1>2 DEF Passed, Behind

--------------------------------------------------------------------------------
(* Steps of a kind.                                                        *)

\* A step that sends nothing and moves nothing: it may change places, store the event
\* in hand, close notices, and take or drop messages.
LEMMA NothingSent ==
  ASSUME TypeOK, TypeOK', Passage, LineOrder, StoredFirst, AwaitedLast,
         flowCh' = flowCh, agentCh' = agentCh,
         round < round' \/ (round' = round /\ Reach <= Reach'),
         accepted <= accepted', discarded' \subseteq discarded \cup Range(queue),
         \A t \in Unsaid' : t \in Unsaid \/ t > accepted,
         Noticed' \subseteq Noticed \cup {cur, awaited},
         Stored' \subseteq Stored \cup {cur, Done},
         cur' \in {cur, NoEvent}, awaited' \in {awaited, NoEvent},
         lpc' = "persist" => lpc = "persist" /\ cur' = cur,
         lpc' = "notify" => lpc \in {"persist", "notify"} /\ cur' = cur,
         LoopRuns' => LoopRuns /\ (Stored' # Stored => lpc = "persist" /\ lpc' # "persist"
                                                    /\ Stored' \subseteq Stored \cup {cur}),
         ctx = "expired" => ctx' = "expired",
         fpc' \in {"add", "wait"} => fpc \in {"add", "wait"} /\ awaited' = awaited
  PROVE  Passage' /\ LineOrder' /\ StoredFirst' /\ AwaitedLast'
<1>1. InTransit' \subseteq InTransit
  BY DEF InTransit
<1>2. Passage'
  <2>1. Passed(NoEvent)'
    <3>1. round' \in Nat /\ round' > 0
      BY DEF TypeOK, FlowType, ChannelType, LoopType, QueueType, Rounds
    <3> QED BY <3>1, Constructed DEF Passed, Behind
  <2> QED BY <1>1, <2>1, PassageKept, EventFacts
<1>3. LineOrder'
  <2>1. Range(agentCh)' = Range(agentCh) /\ Range(flowCh)' = Range(flowCh)
    OBVIOUS
  <2> QED BY <2>1 DEF LineOrder
<1>4. StoredFirst'
  <2> SUFFICES ASSUME LoopRuns', NEW d \in Stored', NEW x \in InTransit' PROVE Early(d, x)'
    BY DEF StoredFirst
  <2>1. CASE d \in Stored
    BY <1>1, <2>1 DEF StoredFirst, Early
  <2>2. CASE d \notin Stored
    <3>1. d = cur /\ lpc = "persist" /\ lpc' # "persist"
      BY <2>2
    <3>2. x \in Range(agentCh) \cup Range(flowCh)
      BY <3>1 DEF InTransit
    <3> QED BY <3>1, <3>2 DEF LineOrder, Early
  <2> QED BY <2>1, <2>2
<1>5. AwaitedLast'
  BY DEF AwaitedLast
<1> QED BY <1>2, <1>3, <1>4, <1>5

\* A step in which the flow sends its next event e, or drops it.
LEMMA NextSent ==
  ASSUME TypeOK, TypeOK', Passage, LineOrder, StoredFirst, Leaving,
         NEW e \in Events, e.round = round,
         \/ T!Stage(e.kind) > Reach /\ e.text = 0
         \/ e.kind = "message" /\ Reach = 2 /\ e.text \in Unsaid,
         Passed(e)',
         flowCh' \in {flowCh, Append(flowCh, e)}, agentCh' = agentCh,
         round' = round, Reach <= Reach',
         accepted' = accepted, discarded' = discarded, Unsaid' \subseteq Unsaid,
         notice' = notice, session' = session, failed' = failed,
         cur' = cur, lpc' = lpc, ctx' = ctx,
         awaited' \in {awaited, e},
         fpc' \in {"add", "wait"} => fpc' = "add" /\ awaited' = e
  PROVE  /\ Passage' /\ LineOrder' /\ StoredFirst' /\ AwaitedLast'
         /\ fpc' = "add" => notice'[awaited'] # "closed"
<1>1. \A x \in Events \cup {NoEvent} : Passed(x) => T!Before(x, e) /\ x # e
  BY Ahead
<1>2. /\ InTransit \subseteq Events /\ Stored \subseteq Events
      /\ cur \in Events \cup {NoEvent} /\ flowCh \in Seq(Events) /\ agentCh \in Seq(Events)
  BY Typed
<1>3. /\ \A x \in InTransit : T!Before(x, e) /\ x # e
      /\ cur # e /\ e \notin Noticed
  BY <1>1, <1>2 DEF Passage
<1>4. /\ \A i \in DOMAIN flowCh : flowCh[i] \in InTransit
      /\ \A i \in DOMAIN agentCh : agentCh[i] \in InTransit
      /\ lpc = "persist" => cur \in InTransit
  BY DEF InTransit, Range
<1>5. \/ flowCh' = flowCh
      \/ /\ flowCh' = Append(flowCh, e) /\ DOMAIN flowCh' = 1..(Len(flowCh) + 1)
         /\ DOMAIN flowCh = 1..Len(flowCh) /\ Len(flowCh) \in Nat
         /\ flowCh'[Len(flowCh) + 1] = e
         /\ \A i \in DOMAIN flowCh : flowCh'[i] = flowCh[i]
  BY <1>2
<1>6. \A i \in DOMAIN flowCh' :
        \/ i \in DOMAIN flowCh /\ flowCh'[i] = flowCh[i]
        \/ i = Len(flowCh') /\ flowCh'[i] = e /\ \A j \in DOMAIN flowCh : j < i
  BY <1>5, <1>2
<1>7. Range(flowCh)' \subseteq Range(flowCh) \cup {e} /\ Range(agentCh)' = Range(agentCh)
  BY <1>6 DEF Range
<1>8. InTransit' \subseteq InTransit \cup {e}
  BY <1>7 DEF InTransit
<1>9. Passage'
  <2>1. Noticed' = Noticed /\ Stored' = Stored
    BY DEF Noticed, Stored
  <2>2. accepted \in Nat /\ \A t \in Unsaid' : t \in Unsaid
    BY Typed
  <2> QED BY <1>8, <2>1, <2>2, PassageKept, Typed
<1>10. LineOrder'
  <2>1. ASSUME NEW i \in DOMAIN flowCh', NEW j \in DOMAIN flowCh', i < j
        PROVE  T!Before(flowCh'[i], flowCh'[j])
    <3>1. CASE j \in DOMAIN flowCh /\ flowCh'[j] = flowCh[j]
      <4>1. i \in DOMAIN flowCh /\ flowCh'[i] = flowCh[i]
        BY <1>5, <2>1, <3>1
      <4> QED BY <4>1, <3>1, <2>1 DEF LineOrder
    <3>2. CASE flowCh'[j] = e /\ j = Len(flowCh')
      <4>1. i \in DOMAIN flowCh /\ flowCh'[i] = flowCh[i]
        <5>1. flowCh' \in Seq(Events)
          BY DEF TypeOK, FlowType, ChannelType, LoopType, QueueType
        <5>2. i # Len(flowCh')
          BY <2>1, <3>2, <5>1
        <5> QED BY <1>6, <5>2
      <4> QED BY <4>1, <1>3, <1>4, <3>2
    <3> QED BY <1>6, <3>1, <3>2
  <2>2. ASSUME NEW i \in DOMAIN agentCh, NEW j \in DOMAIN flowCh'
        PROVE  T!Before(agentCh[i], flowCh'[j])
    BY <1>6, <1>3, <1>4 DEF LineOrder
  <2>3. ASSUME lpc = "persist", NEW x \in Range(agentCh)' \cup Range(flowCh)'
        PROVE  T!Before(cur, x)
    BY <1>7, <1>3, <1>4, <2>3 DEF LineOrder
  <2>4. \A i, j \in DOMAIN agentCh : i < j => T!Before(agentCh[i], agentCh[j])
    BY DEF LineOrder
  <2> QED BY <2>1, <2>2, <2>3, <2>4 DEF LineOrder
<1>11. StoredFirst'
  <2>1. LoopRuns' = LoopRuns /\ Stored' = Stored
    BY DEF LoopRuns, Stored
  <2>2. LoopRuns => \A d \in Stored : T!Before(d, e)
    BY <1>1, <1>2 DEF Passage, Leaving
  <2> QED BY <1>8, <2>1, <2>2 DEF StoredFirst, Early
<1>12. AwaitedLast'
  <2> SUFFICES ASSUME fpc' \in {"add", "wait"} PROVE AwaitedLast'
    BY DEF AwaitedLast
  <2>1. awaited' = e
    OBVIOUS
  <2>2. \A i \in DOMAIN flowCh' : flowCh'[i] = e => i = Len(flowCh')
    BY <1>3, <1>4, <1>6
  <2>3. \A i \in DOMAIN agentCh : agentCh[i] # e
    BY <1>3, <1>4
  <2> QED BY <2>1, <2>2, <2>3, <1>3 DEF AwaitedLast
<1>13. fpc' = "add" => notice'[awaited'] # "closed"
  <2>1. fpc' = "add" => awaited' = e /\ e \in Awaited
    BY EventFacts DEF TypeOK, FlowType, ChannelType, LoopType, QueueType
  <2> QED BY <2>1, <1>3 DEF Noticed
<1> QED BY <1>9, <1>10, <1>11, <1>12, <1>13

--------------------------------------------------------------------------------
(* The steps that send nothing.                                            *)

LEMMA AddNoticeKeeps ==
  ASSUME IInv, AddNotice
  PROVE  IInv'
<1>1. /\ fpc = "add" /\ fpc' = "wait" /\ woken' = (notice[awaited] = "closed")
      /\ notice' = [notice EXCEPT ![awaited] = IF @ = "none" THEN "open" ELSE @]
      /\ round' = round /\ pending' = pending /\ ask' = ask /\ awaited' = awaited
      /\ late' = late /\ flowCh' = flowCh /\ agentCh' = agentCh /\ outCh' = outCh
      /\ closed' = closed /\ lpc' = lpc /\ cur' = cur /\ flushing' = flushing
      /\ session' = session /\ failed' = failed /\ attached' = attached
      /\ ctx' = ctx /\ queue' = queue /\ qopen' = qopen
      /\ accepted' = accepted /\ discarded' = discarded /\ reading' = reading
  BY DEF AddNotice, FlowOnly, waiting
<1>2. /\ TypeOK /\ Places /\ Passage /\ Steering /\ LineOrder
      /\ StoredFirst /\ AwaitedLast /\ Synced /\ Leaving
  BY DEF IInv
<1>3. TypeOK'
  <2>1. FlowType'
    BY <1>1, <1>2 DEF TypeOK, FlowType, FlowPlaces
  <2>2. ChannelType'
    BY <1>1, <1>2 DEF TypeOK, ChannelType
  <2>3. LoopType'
    BY <1>1, <1>2 DEF TypeOK, LoopType, LoopPlaces, Handling
  <2>4. QueueType'
    BY <1>1, <1>2 DEF TypeOK, QueueType
  <2>5. Switches'
    BY <1>1, <1>2 DEF TypeOK, Switches
  <2> QED BY <2>1, <2>2, <2>3, <2>4, <2>5 DEF TypeOK
<1>4. Places'
  BY <1>1, <1>2, Constructed DEF Places, Resume
<1>5. Reach <= Reach'
  BY <1>1 DEF Reach, Resume, Live
<1>6. Noticed' \subseteq Noticed \cup {cur, awaited}
  BY <1>1 DEF Noticed
<1>7. Stored' \subseteq Stored \cup {cur, Done}
  BY <1>1 DEF Stored
<1>8. Unsaid' = Unsaid
  BY <1>1 DEF Unsaid
<1>9. LoopRuns' => LoopRuns /\ Stored' = Stored
  BY <1>1 DEF LoopRuns, Handling, Stored
<1>10. accepted <= accepted' /\ accepted \in Nat
  BY <1>1, <1>2, Typed
<1>11. Passage' /\ LineOrder' /\ StoredFirst' /\ AwaitedLast'
  BY <1>1, <1>2, <1>3, <1>5, <1>6, <1>7, <1>8, <1>9, <1>10, NothingSent DEF Resume
<1>12. Steering'
  BY <1>1, <1>2, <1>8 DEF Steering
<1>13. Synced'
  <2>1. awaited \in Awaited /\ notice \in [Awaited -> {"none", "open", "closed"}]
    BY <1>1, <1>2 DEF TypeOK, FlowType, LoopType
  <2>2. notice'[awaited] = "closed" <=> notice[awaited] = "closed"
    BY <1>1, <2>1
  <2>3. woken' => notice[awaited] = "closed"
    BY <1>1
  <2> QED BY <1>1, <1>2, <2>2, <2>3 DEF Synced, Quiet
<1>14. Leaving'
  BY <1>1, <1>2 DEF Leaving, Stored, LoopRuns, Handling
<1> QED BY <1>3, <1>4, <1>11, <1>12, <1>13, <1>14 DEF IInv

LEMMA WokenKeeps ==
  ASSUME IInv, Woken
  PROVE  IInv'
<1>1. /\ fpc = "wait" /\ woken
      /\ fpc' \in {"drain", "say", "next"}
      /\ fpc' = "next" => awaited.kind \notin {"start", "message"}
      /\ fpc' # "next" => awaited.kind \in {"start", "message"}
      /\ awaited' = NoEvent /\ woken' = FALSE
      /\ round' = round /\ pending' = pending /\ ask' = ask /\ late' = late
      /\ flowCh' = flowCh /\ agentCh' = agentCh /\ outCh' = outCh /\ closed' = closed
      /\ lpc' = lpc /\ cur' = cur /\ flushing' = flushing /\ notice' = notice
      /\ session' = session /\ failed' = failed /\ attached' = attached
      /\ ctx' = ctx /\ queue' = queue /\ qopen' = qopen
      /\ accepted' = accepted /\ discarded' = discarded /\ reading' = reading
  BY DEF Woken, FlowOnly, waiting, EndWait, Resume
<1>2. /\ TypeOK /\ Places /\ Passage /\ Steering /\ LineOrder
      /\ StoredFirst /\ AwaitedLast /\ Synced /\ Leaving
  BY DEF IInv
<1>3. TypeOK'
  <2>1. FlowType'
    BY <1>1, <1>2 DEF TypeOK, FlowType, FlowPlaces
  <2>2. ChannelType'
    BY <1>1, <1>2 DEF TypeOK, ChannelType
  <2>3. LoopType'
    BY <1>1, <1>2 DEF TypeOK, LoopType, LoopPlaces, Handling
  <2>4. QueueType'
    BY <1>1, <1>2 DEF TypeOK, QueueType
  <2>5. Switches'
    BY <1>1, <1>2 DEF TypeOK, Switches
  <2> QED BY <2>1, <2>2, <2>3, <2>4, <2>5 DEF TypeOK
<1>4. Places'
  BY <1>1, <1>2, Constructed, EventFacts DEF Places, TypeOK, FlowType
<1>5. Reach <= Reach'
  <2>1. awaited \in Awaited
    BY <1>1, <1>2 DEF TypeOK, FlowType
  <2>2. fpc' = "next" => awaited.kind = "result"
    BY <1>1, <2>1, AwaitedKinds
  <2>3. fpc' # "next" => awaited.kind # "result"
    BY <1>1
  <2> QED BY <1>1, <2>2, <2>3 DEF Reach
<1>6. Noticed' \subseteq Noticed \cup {cur, awaited}
  BY <1>1 DEF Noticed
<1>7. Stored' \subseteq Stored \cup {cur, Done}
  BY <1>1 DEF Stored
<1>8. Unsaid' = Unsaid
  BY <1>1 DEF Unsaid
<1>9. LoopRuns' => LoopRuns /\ Stored' = Stored
  BY <1>1 DEF LoopRuns, Handling, Stored
<1>10. accepted <= accepted' /\ accepted \in Nat
  BY <1>1, <1>2, Typed
<1>11. Passage' /\ LineOrder' /\ StoredFirst' /\ AwaitedLast'
  BY <1>1, <1>2, <1>3, <1>5, <1>6, <1>7, <1>8, <1>9, <1>10, NothingSent DEF Resume
<1>12. Steering'
  BY <1>1, <1>2, <1>8 DEF Steering
<1>13. Synced'
  BY <1>1, <1>2 DEF Synced, Quiet, Live, LoopRuns, Handling
<1>14. Leaving'
  BY <1>1, <1>2 DEF Leaving, Stored, LoopRuns, Handling
<1> QED BY <1>3, <1>4, <1>11, <1>12, <1>13, <1>14 DEF IInv

LEMMA TimesOutKeeps ==
  ASSUME IInv, TimesOut
  PROVE  IInv'
<1>1. /\ fpc = "wait"
      /\ fpc' \in {"drain", "say", "next"}
      /\ fpc' = "next" => awaited.kind \notin {"start", "message"}
      /\ fpc' # "next" => awaited.kind \in {"start", "message"}
      /\ awaited' = NoEvent /\ woken' = FALSE /\ late' = TRUE
      /\ round' = round /\ pending' = pending /\ ask' = ask /\ flowCh' = flowCh
      /\ agentCh' = agentCh /\ outCh' = outCh /\ closed' = closed /\ lpc' = lpc /\ cur' = cur
      /\ flushing' = flushing /\ notice' = notice /\ session' = session /\ failed' = failed
      /\ attached' = attached /\ ctx' = ctx /\ queue' = queue
      /\ qopen' = qopen /\ accepted' = accepted /\ discarded' = discarded
      /\ reading' = reading
  BY DEF TimesOut, FlowOnly, waiting, EndWait, Resume
<1>2. /\ TypeOK /\ Places /\ Passage /\ Steering /\ LineOrder
      /\ StoredFirst /\ AwaitedLast /\ Synced /\ Leaving
  BY DEF IInv
<1>3. TypeOK'
  <2>1. FlowType'
    BY <1>1, <1>2 DEF TypeOK, FlowType, FlowPlaces
  <2>2. ChannelType'
    BY <1>1, <1>2 DEF TypeOK, ChannelType
  <2>3. LoopType'
    BY <1>1, <1>2 DEF TypeOK, LoopType, LoopPlaces, Handling
  <2>4. QueueType'
    BY <1>1, <1>2 DEF TypeOK, QueueType
  <2>5. Switches'
    BY <1>1, <1>2 DEF TypeOK, Switches
  <2> QED BY <2>1, <2>2, <2>3, <2>4, <2>5 DEF TypeOK
<1>4. Places'
  BY <1>1, <1>2, Constructed, EventFacts DEF Places, TypeOK, FlowType
<1>5. Reach <= Reach'
  <2>1. awaited \in Awaited
    BY <1>1, <1>2 DEF TypeOK, FlowType
  <2>2. fpc' = "next" => awaited.kind = "result"
    BY <1>1, <2>1, AwaitedKinds
  <2>3. fpc' # "next" => awaited.kind # "result"
    BY <1>1
  <2> QED BY <1>1, <2>2, <2>3 DEF Reach
<1>6. Noticed' \subseteq Noticed \cup {cur, awaited}
  BY <1>1 DEF Noticed
<1>7. Stored' \subseteq Stored \cup {cur, Done}
  BY <1>1 DEF Stored
<1>8. Unsaid' = Unsaid
  BY <1>1 DEF Unsaid
<1>9. LoopRuns' => LoopRuns /\ Stored' = Stored
  BY <1>1 DEF LoopRuns, Handling, Stored
<1>10. accepted <= accepted' /\ accepted \in Nat
  BY <1>1, <1>2, Typed
<1>11. Passage' /\ LineOrder' /\ StoredFirst' /\ AwaitedLast'
  BY <1>1, <1>2, <1>3, <1>5, <1>6, <1>7, <1>8, <1>9, <1>10, NothingSent DEF Resume
<1>12. Steering'
  BY <1>1, <1>2, <1>8 DEF Steering
<1>13. Synced'
  BY <1>1, <1>2 DEF Synced, Quiet, Live, LoopRuns, Handling
<1>14. Leaving'
  BY <1>1, <1>2 DEF Leaving, Stored, LoopRuns, Handling
<1> QED BY <1>3, <1>4, <1>11, <1>12, <1>13, <1>14 DEF IInv

LEMMA WaitEndsWithContextKeeps ==
  ASSUME IInv, WaitEndsWithContext
  PROVE  IInv'
<1>1. /\ fpc = "wait" /\ ~Live
      /\ awaited' = NoEvent /\ woken' = FALSE
      /\ fpc' \in {"next", "drain", "closing"}
      /\ fpc' = "next" => awaited.kind = "result"
      /\ fpc' = "drain" => awaited.kind = "start"
      /\ round' = round /\ pending' = pending /\ ask' = ask /\ late' = late
      /\ flowCh' = flowCh /\ agentCh' = agentCh /\ outCh' = outCh /\ closed' = closed
      /\ lpc' = lpc /\ cur' = cur /\ flushing' = flushing /\ notice' = notice
      /\ session' = session /\ failed' = failed /\ attached' = attached
      /\ ctx' = ctx /\ queue' = queue /\ qopen' = qopen
      /\ accepted' = accepted /\ discarded' = discarded /\ reading' = reading
  BY DEF WaitEndsWithContext, FlowOnly, waiting, EndWait, Resume
<1>2. /\ TypeOK /\ Places /\ Passage /\ Steering /\ LineOrder
      /\ StoredFirst /\ AwaitedLast /\ Synced /\ Leaving
  BY DEF IInv
<1>3. TypeOK'
  <2>1. FlowType'
    BY <1>1, <1>2 DEF TypeOK, FlowType, FlowPlaces
  <2>2. ChannelType'
    BY <1>1, <1>2 DEF TypeOK, ChannelType
  <2>3. LoopType'
    BY <1>1, <1>2 DEF TypeOK, LoopType, LoopPlaces, Handling
  <2>4. QueueType'
    BY <1>1, <1>2 DEF TypeOK, QueueType
  <2>5. Switches'
    BY <1>1, <1>2 DEF TypeOK, Switches
  <2> QED BY <2>1, <2>2, <2>3, <2>4, <2>5 DEF TypeOK
<1>4. Places'
  BY <1>1, <1>2, Constructed DEF Places, Resume
<1>5. Reach <= Reach'
  BY <1>1 DEF Reach, Resume, Live
<1>6. Noticed' \subseteq Noticed \cup {cur, awaited}
  BY <1>1 DEF Noticed
<1>7. Stored' \subseteq Stored \cup {cur, Done}
  BY <1>1 DEF Stored
<1>8. Unsaid' = Unsaid
  BY <1>1 DEF Unsaid
<1>9. LoopRuns' => LoopRuns /\ Stored' = Stored
  BY <1>1 DEF LoopRuns, Handling, Stored
<1>10. accepted <= accepted' /\ accepted \in Nat
  BY <1>1, <1>2, Typed
<1>11. Passage' /\ LineOrder' /\ StoredFirst' /\ AwaitedLast'
  BY <1>1, <1>2, <1>3, <1>5, <1>6, <1>7, <1>8, <1>9, <1>10, NothingSent DEF Resume
<1>12. Steering'
  BY <1>1, <1>2, <1>8 DEF Steering
<1>13. Synced'
  BY <1>1, <1>2 DEF Synced, Quiet, Live, LoopRuns, Handling
<1>14. Leaving'
  BY <1>1, <1>2 DEF Leaving, Stored, LoopRuns, Handling
<1> QED BY <1>3, <1>4, <1>11, <1>12, <1>13, <1>14 DEF IInv

LEMMA DrainKeeps ==
  ASSUME IInv, Drain
  PROVE  IInv'
<1>1. /\ fpc = "drain" /\ fpc' = "say"
      /\ (pending' = queue /\ queue' = <<>>) \/ (pending' = pending /\ queue' = queue)
      /\ round' = round /\ ask' = ask /\ awaited' = awaited /\ woken' = woken /\ late' = late
      /\ flowCh' = flowCh /\ agentCh' = agentCh /\ outCh' = outCh /\ closed' = closed
      /\ lpc' = lpc /\ cur' = cur /\ flushing' = flushing /\ notice' = notice
      /\ session' = session /\ failed' = failed /\ attached' = attached
      /\ ctx' = ctx /\ qopen' = qopen /\ accepted' = accepted
      /\ discarded' = discarded /\ reading' = reading
  BY DEF Drain, FlowOnly, waiting
<1>2. /\ TypeOK /\ Places /\ Passage /\ Steering /\ LineOrder
      /\ StoredFirst /\ AwaitedLast /\ Synced /\ Leaving
  BY DEF IInv
<1>3. TypeOK'
  <2>1. FlowType'
    BY <1>1, <1>2 DEF TypeOK, FlowType, QueueType, FlowPlaces
  <2>2. ChannelType'
    BY <1>1, <1>2 DEF TypeOK, ChannelType
  <2>3. LoopType'
    BY <1>1, <1>2 DEF TypeOK, LoopType, LoopPlaces, Handling
  <2>4. QueueType'
    <3>1. <<>> \in Seq(Messages)
      OBVIOUS
    <3> QED BY <3>1, <1>1, <1>2 DEF TypeOK, QueueType
  <2>5. Switches'
    BY <1>1, <1>2 DEF TypeOK, Switches
  <2> QED BY <2>1, <2>2, <2>3, <2>4, <2>5 DEF TypeOK
<1>4. Places'
  BY <1>1, <1>2, Constructed DEF Places, Resume
<1>5. Reach <= Reach'
  BY <1>1 DEF Reach, Resume, Live
<1>6. Noticed' \subseteq Noticed \cup {cur, awaited}
  BY <1>1 DEF Noticed
<1>7. Stored' \subseteq Stored \cup {cur, Done}
  BY <1>1 DEF Stored
<1>8. Unsaid' \subseteq Unsaid
  BY <1>1 DEF Unsaid, Range
<1>9. LoopRuns' => LoopRuns /\ Stored' = Stored
  BY <1>1 DEF LoopRuns, Handling, Stored
<1>10. accepted <= accepted' /\ accepted \in Nat
  BY <1>1, <1>2, Typed
<1>11. Passage' /\ LineOrder' /\ StoredFirst' /\ AwaitedLast'
  BY <1>1, <1>2, <1>3, <1>5, <1>6, <1>7, <1>8, <1>9, <1>10, NothingSent DEF Resume
<1>12. Steering'
  BY <1>1, <1>2 DEF Steering, Unsaid, Range
<1>13. Synced'
  BY <1>1, <1>2 DEF Synced, Quiet, Live, LoopRuns, Handling
<1>14. Leaving'
  BY <1>1, <1>2 DEF Leaving, Stored, LoopRuns, Handling
<1> QED BY <1>3, <1>4, <1>11, <1>12, <1>13, <1>14 DEF IInv

LEMMA StepFailsKeeps ==
  ASSUME IInv, StepFails
  PROVE  IInv'
<1>1. /\ fpc = "model" /\ fpc' \in {"closing", "fail"} /\ qopen' = FALSE
      /\ round' = round /\ pending' = pending /\ ask' = ask /\ awaited' = awaited
      /\ woken' = woken /\ late' = late /\ flowCh' = flowCh /\ agentCh' = agentCh
      /\ outCh' = outCh /\ closed' = closed /\ lpc' = lpc /\ cur' = cur
      /\ flushing' = flushing /\ notice' = notice /\ session' = session /\ failed' = failed
      /\ attached' = attached /\ ctx' = ctx /\ queue' = queue
      /\ accepted' = accepted /\ discarded' = discarded /\ reading' = reading
  BY DEF StepFails, FlowOnly, waiting
<1>2. /\ TypeOK /\ Places /\ Passage /\ Steering /\ LineOrder
      /\ StoredFirst /\ AwaitedLast /\ Synced /\ Leaving
  BY DEF IInv
<1>3. TypeOK'
  <2>1. FlowType'
    BY <1>1, <1>2 DEF TypeOK, FlowType, FlowPlaces
  <2>2. ChannelType'
    BY <1>1, <1>2 DEF TypeOK, ChannelType
  <2>3. LoopType'
    BY <1>1, <1>2 DEF TypeOK, LoopType, LoopPlaces, Handling
  <2>4. QueueType'
    BY <1>1, <1>2 DEF TypeOK, QueueType
  <2>5. Switches'
    BY <1>1, <1>2 DEF TypeOK, Switches
  <2> QED BY <2>1, <2>2, <2>3, <2>4, <2>5 DEF TypeOK
<1>4. Places'
  BY <1>1, <1>2, Constructed DEF Places, Resume
<1>5. Reach <= Reach'
  BY <1>1 DEF Reach, Resume, Live
<1>6. Noticed' \subseteq Noticed \cup {cur, awaited}
  BY <1>1 DEF Noticed
<1>7. Stored' \subseteq Stored \cup {cur, Done}
  BY <1>1 DEF Stored
<1>8. Unsaid' = Unsaid
  BY <1>1 DEF Unsaid
<1>9. LoopRuns' => LoopRuns /\ Stored' = Stored
  BY <1>1 DEF LoopRuns, Handling, Stored
<1>10. accepted <= accepted' /\ accepted \in Nat
  BY <1>1, <1>2, Typed
<1>11. Passage' /\ LineOrder' /\ StoredFirst' /\ AwaitedLast'
  BY <1>1, <1>2, <1>3, <1>5, <1>6, <1>7, <1>8, <1>9, <1>10, NothingSent DEF Resume
<1>12. Steering'
  BY <1>1, <1>2, <1>8 DEF Steering
<1>13. Synced'
  BY <1>1, <1>2 DEF Synced, Quiet, Live, LoopRuns, Handling
<1>14. Leaving'
  BY <1>1, <1>2 DEF Leaving, Stored, LoopRuns, Handling
<1> QED BY <1>3, <1>4, <1>11, <1>12, <1>13, <1>14 DEF IInv

LEMMA StepPanicsKeeps ==
  ASSUME IInv, StepPanics
  PROVE  IInv'
<1>1. /\ fpc = "model" /\ fpc' = "fail"
      /\ round' = round /\ pending' = pending /\ ask' = ask /\ awaited' = awaited
      /\ woken' = woken /\ late' = late /\ flowCh' = flowCh /\ agentCh' = agentCh
      /\ outCh' = outCh /\ closed' = closed /\ lpc' = lpc /\ cur' = cur
      /\ flushing' = flushing /\ notice' = notice /\ session' = session /\ failed' = failed
      /\ attached' = attached /\ ctx' = ctx /\ queue' = queue
      /\ qopen' = qopen /\ accepted' = accepted /\ discarded' = discarded
      /\ reading' = reading
  BY DEF StepPanics, FlowOnly, waiting
<1>2. /\ TypeOK /\ Places /\ Passage /\ Steering /\ LineOrder
      /\ StoredFirst /\ AwaitedLast /\ Synced /\ Leaving
  BY DEF IInv
<1>3. TypeOK'
  <2>1. FlowType'
    BY <1>1, <1>2 DEF TypeOK, FlowType, FlowPlaces
  <2>2. ChannelType'
    BY <1>1, <1>2 DEF TypeOK, ChannelType
  <2>3. LoopType'
    BY <1>1, <1>2 DEF TypeOK, LoopType, LoopPlaces, Handling
  <2>4. QueueType'
    BY <1>1, <1>2 DEF TypeOK, QueueType
  <2>5. Switches'
    BY <1>1, <1>2 DEF TypeOK, Switches
  <2> QED BY <2>1, <2>2, <2>3, <2>4, <2>5 DEF TypeOK
<1>4. Places'
  BY <1>1, <1>2, Constructed DEF Places, Resume
<1>5. Reach <= Reach'
  BY <1>1 DEF Reach, Resume, Live
<1>6. Noticed' \subseteq Noticed \cup {cur, awaited}
  BY <1>1 DEF Noticed
<1>7. Stored' \subseteq Stored \cup {cur, Done}
  BY <1>1 DEF Stored
<1>8. Unsaid' = Unsaid
  BY <1>1 DEF Unsaid
<1>9. LoopRuns' => LoopRuns /\ Stored' = Stored
  BY <1>1 DEF LoopRuns, Handling, Stored
<1>10. accepted <= accepted' /\ accepted \in Nat
  BY <1>1, <1>2, Typed
<1>11. Passage' /\ LineOrder' /\ StoredFirst' /\ AwaitedLast'
  BY <1>1, <1>2, <1>3, <1>5, <1>6, <1>7, <1>8, <1>9, <1>10, NothingSent DEF Resume
<1>12. Steering'
  BY <1>1, <1>2, <1>8 DEF Steering
<1>13. Synced'
  BY <1>1, <1>2 DEF Synced, Quiet, Live, LoopRuns, Handling
<1>14. Leaving'
  BY <1>1, <1>2 DEF Leaving, Stored, LoopRuns, Handling
<1> QED BY <1>3, <1>4, <1>11, <1>12, <1>13, <1>14 DEF IInv

LEMMA ToolFlushesKeeps ==
  ASSUME IInv, ToolFlushes
  PROVE  IInv'
<1>1. /\ fpc = "tools" /\ ask' = "asking"
      /\ fpc' = fpc /\ round' = round /\ pending' = pending /\ awaited' = awaited
      /\ woken' = woken /\ late' = late /\ flowCh' = flowCh /\ agentCh' = agentCh
      /\ outCh' = outCh /\ closed' = closed /\ lpc' = lpc /\ cur' = cur
      /\ flushing' = flushing /\ notice' = notice /\ session' = session /\ failed' = failed
      /\ attached' = attached /\ ctx' = ctx /\ queue' = queue
      /\ qopen' = qopen /\ accepted' = accepted /\ discarded' = discarded
      /\ reading' = reading
  BY DEF ToolFlushes, FlowOnly, waiting
<1>2. /\ TypeOK /\ Places /\ Passage /\ Steering /\ LineOrder
      /\ StoredFirst /\ AwaitedLast /\ Synced /\ Leaving
  BY DEF IInv
<1>3. TypeOK'
  <2>1. FlowType'
    BY <1>1, <1>2 DEF TypeOK, FlowType, FlowPlaces
  <2>2. ChannelType'
    BY <1>1, <1>2 DEF TypeOK, ChannelType
  <2>3. LoopType'
    BY <1>1, <1>2 DEF TypeOK, LoopType, LoopPlaces, Handling
  <2>4. QueueType'
    BY <1>1, <1>2 DEF TypeOK, QueueType
  <2>5. Switches'
    BY <1>1, <1>2 DEF TypeOK, Switches
  <2> QED BY <2>1, <2>2, <2>3, <2>4, <2>5 DEF TypeOK
<1>4. Places'
  BY <1>1, <1>2, Constructed DEF Places, Resume
<1>5. Reach <= Reach'
  BY <1>1 DEF Reach, Resume, Live
<1>6. Noticed' \subseteq Noticed \cup {cur, awaited}
  BY <1>1 DEF Noticed
<1>7. Stored' \subseteq Stored \cup {cur, Done}
  BY <1>1 DEF Stored
<1>8. Unsaid' = Unsaid
  BY <1>1 DEF Unsaid
<1>9. LoopRuns' => LoopRuns /\ Stored' = Stored
  BY <1>1 DEF LoopRuns, Handling, Stored
<1>10. accepted <= accepted' /\ accepted \in Nat
  BY <1>1, <1>2, Typed
<1>11. Passage' /\ LineOrder' /\ StoredFirst' /\ AwaitedLast'
  BY <1>1, <1>2, <1>3, <1>5, <1>6, <1>7, <1>8, <1>9, <1>10, NothingSent DEF Resume
<1>12. Steering'
  BY <1>1, <1>2, <1>8 DEF Steering
<1>13. Synced'
  BY <1>1, <1>2 DEF Synced, Quiet, Live, LoopRuns, Handling
<1>14. Leaving'
  BY <1>1, <1>2 DEF Leaving, Stored, LoopRuns, Handling
<1> QED BY <1>3, <1>4, <1>11, <1>12, <1>13, <1>14 DEF IInv

LEMMA FlushGivesUpKeeps ==
  ASSUME IInv, FlushGivesUp
  PROVE  IInv'
<1>1. /\ fpc = "tools" /\ ask' = "refused"
      /\ fpc' = fpc /\ round' = round /\ pending' = pending /\ awaited' = awaited
      /\ woken' = woken /\ late' = late /\ flowCh' = flowCh /\ agentCh' = agentCh
      /\ outCh' = outCh /\ closed' = closed /\ lpc' = lpc /\ cur' = cur
      /\ flushing' = flushing /\ notice' = notice /\ session' = session /\ failed' = failed
      /\ attached' = attached /\ ctx' = ctx /\ queue' = queue
      /\ qopen' = qopen /\ accepted' = accepted /\ discarded' = discarded
      /\ reading' = reading
  BY DEF FlushGivesUp, FlowOnly, waiting
<1>2. /\ TypeOK /\ Places /\ Passage /\ Steering /\ LineOrder
      /\ StoredFirst /\ AwaitedLast /\ Synced /\ Leaving
  BY DEF IInv
<1>3. TypeOK'
  <2>1. FlowType'
    BY <1>1, <1>2 DEF TypeOK, FlowType, FlowPlaces
  <2>2. ChannelType'
    BY <1>1, <1>2 DEF TypeOK, ChannelType
  <2>3. LoopType'
    BY <1>1, <1>2 DEF TypeOK, LoopType, LoopPlaces, Handling
  <2>4. QueueType'
    BY <1>1, <1>2 DEF TypeOK, QueueType
  <2>5. Switches'
    BY <1>1, <1>2 DEF TypeOK, Switches
  <2> QED BY <2>1, <2>2, <2>3, <2>4, <2>5 DEF TypeOK
<1>4. Places'
  BY <1>1, <1>2, Constructed DEF Places, Resume
<1>5. Reach <= Reach'
  BY <1>1 DEF Reach, Resume, Live
<1>6. Noticed' \subseteq Noticed \cup {cur, awaited}
  BY <1>1 DEF Noticed
<1>7. Stored' \subseteq Stored \cup {cur, Done}
  BY <1>1 DEF Stored
<1>8. Unsaid' = Unsaid
  BY <1>1 DEF Unsaid
<1>9. LoopRuns' => LoopRuns /\ Stored' = Stored
  BY <1>1 DEF LoopRuns, Handling, Stored
<1>10. accepted <= accepted' /\ accepted \in Nat
  BY <1>1, <1>2, Typed
<1>11. Passage' /\ LineOrder' /\ StoredFirst' /\ AwaitedLast'
  BY <1>1, <1>2, <1>3, <1>5, <1>6, <1>7, <1>8, <1>9, <1>10, NothingSent DEF Resume
<1>12. Steering'
  BY <1>1, <1>2, <1>8 DEF Steering
<1>13. Synced'
  BY <1>1, <1>2 DEF Synced, Quiet, Live, LoopRuns, Handling
<1>14. Leaving'
  BY <1>1, <1>2 DEF Leaving, Stored, LoopRuns, Handling
<1> QED BY <1>3, <1>4, <1>11, <1>12, <1>13, <1>14 DEF IInv

LEMMA ToolsReturnKeeps ==
  ASSUME IInv, ToolsReturn
  PROVE  IInv'
<1>1. /\ fpc = "tools" /\ ask' = "no" /\ fpc' \in {"answer", "complain", "next"}
      /\ round' = round /\ pending' = pending /\ awaited' = awaited /\ woken' = woken
      /\ late' = late /\ flowCh' = flowCh /\ agentCh' = agentCh /\ outCh' = outCh
      /\ closed' = closed /\ lpc' = lpc /\ cur' = cur /\ flushing' = flushing
      /\ notice' = notice /\ session' = session /\ failed' = failed /\ attached' = attached
      /\ ctx' = ctx /\ queue' = queue /\ qopen' = qopen
      /\ accepted' = accepted /\ discarded' = discarded /\ reading' = reading
  BY DEF ToolsReturn, FlowOnly, waiting
<1>2. /\ TypeOK /\ Places /\ Passage /\ Steering /\ LineOrder
      /\ StoredFirst /\ AwaitedLast /\ Synced /\ Leaving
  BY DEF IInv
<1>3. TypeOK'
  <2>1. FlowType'
    BY <1>1, <1>2 DEF TypeOK, FlowType, FlowPlaces
  <2>2. ChannelType'
    BY <1>1, <1>2 DEF TypeOK, ChannelType
  <2>3. LoopType'
    BY <1>1, <1>2 DEF TypeOK, LoopType, LoopPlaces, Handling
  <2>4. QueueType'
    BY <1>1, <1>2 DEF TypeOK, QueueType
  <2>5. Switches'
    BY <1>1, <1>2 DEF TypeOK, Switches
  <2> QED BY <2>1, <2>2, <2>3, <2>4, <2>5 DEF TypeOK
<1>4. Places'
  BY <1>1, <1>2, Constructed DEF Places, Resume
<1>5. Reach <= Reach'
  BY <1>1 DEF Reach, Resume, Live
<1>6. Noticed' \subseteq Noticed \cup {cur, awaited}
  BY <1>1 DEF Noticed
<1>7. Stored' \subseteq Stored \cup {cur, Done}
  BY <1>1 DEF Stored
<1>8. Unsaid' = Unsaid
  BY <1>1 DEF Unsaid
<1>9. LoopRuns' => LoopRuns /\ Stored' = Stored
  BY <1>1 DEF LoopRuns, Handling, Stored
<1>10. accepted <= accepted' /\ accepted \in Nat
  BY <1>1, <1>2, Typed
<1>11. Passage' /\ LineOrder' /\ StoredFirst' /\ AwaitedLast'
  BY <1>1, <1>2, <1>3, <1>5, <1>6, <1>7, <1>8, <1>9, <1>10, NothingSent DEF Resume
<1>12. Steering'
  BY <1>1, <1>2, <1>8 DEF Steering
<1>13. Synced'
  BY <1>1, <1>2 DEF Synced, Quiet, Live, LoopRuns, Handling
<1>14. Leaving'
  BY <1>1, <1>2 DEF Leaving, Stored, LoopRuns, Handling
<1> QED BY <1>3, <1>4, <1>11, <1>12, <1>13, <1>14 DEF IInv

LEMMA NextRoundKeeps ==
  ASSUME IInv, NextRound
  PROVE  IInv'
<1>1. /\ fpc = "next" /\ fpc' = "start" /\ round' = round + 1
      /\ pending' = pending /\ ask' = ask /\ awaited' = awaited /\ woken' = woken
      /\ late' = late /\ flowCh' = flowCh /\ agentCh' = agentCh /\ outCh' = outCh
      /\ closed' = closed /\ lpc' = lpc /\ cur' = cur /\ flushing' = flushing
      /\ notice' = notice /\ session' = session /\ failed' = failed /\ attached' = attached
      /\ ctx' = ctx /\ queue' = queue /\ qopen' = qopen
      /\ accepted' = accepted /\ discarded' = discarded /\ reading' = reading
  BY DEF NextRound, FlowOnly, waiting
<1>2. /\ TypeOK /\ Places /\ Passage /\ Steering /\ LineOrder
      /\ StoredFirst /\ AwaitedLast /\ Synced /\ Leaving
  BY DEF IInv
<1>3. TypeOK'
  <2>1. FlowType'
    BY <1>1, <1>2, RunAssumption DEF TypeOK, FlowType, FlowPlaces, Places, Rounds
  <2>2. ChannelType'
    BY <1>1, <1>2 DEF TypeOK, ChannelType
  <2>3. LoopType'
    BY <1>1, <1>2 DEF TypeOK, LoopType, LoopPlaces, Handling
  <2>4. QueueType'
    BY <1>1, <1>2 DEF TypeOK, QueueType
  <2>5. Switches'
    BY <1>1, <1>2 DEF TypeOK, Switches
  <2> QED BY <2>1, <2>2, <2>3, <2>4, <2>5 DEF TypeOK
<1>4. Places'
  BY <1>1, <1>2, Constructed DEF Places, TypeOK, FlowType
<1>5. round < round'
  BY <1>1, Typed, <1>2
<1>6. Noticed' \subseteq Noticed \cup {cur, awaited}
  BY <1>1 DEF Noticed
<1>7. Stored' \subseteq Stored \cup {cur, Done}
  BY <1>1 DEF Stored
<1>8. Unsaid' = Unsaid
  BY <1>1 DEF Unsaid
<1>9. LoopRuns' => LoopRuns /\ Stored' = Stored
  BY <1>1 DEF LoopRuns, Handling, Stored
<1>10. accepted <= accepted' /\ accepted \in Nat
  BY <1>1, <1>2, Typed
<1>11. Passage' /\ LineOrder' /\ StoredFirst' /\ AwaitedLast'
  BY <1>1, <1>2, <1>3, <1>5, <1>6, <1>7, <1>8, <1>9, <1>10, NothingSent DEF Resume
<1>12. Steering'
  BY <1>1, <1>2, <1>8 DEF Steering
<1>13. Synced'
  BY <1>1, <1>2 DEF Synced, Quiet, Live, LoopRuns, Handling
<1>14. Leaving'
  BY <1>1, <1>2 DEF Leaving, Stored, LoopRuns, Handling
<1> QED BY <1>3, <1>4, <1>11, <1>12, <1>13, <1>14 DEF IInv

LEMMA StepEndsKeeps ==
  ASSUME IInv, StepEnds
  PROVE  IInv'
<1>1. /\ fpc = "next" /\ qopen' = FALSE /\ fpc' \in {"fail", "closing"}
      /\ fpc' = "fail" => ctx = "expired"
      /\ round' = round /\ pending' = pending /\ ask' = ask /\ awaited' = awaited
      /\ woken' = woken /\ late' = late /\ flowCh' = flowCh /\ agentCh' = agentCh
      /\ outCh' = outCh /\ closed' = closed /\ lpc' = lpc /\ cur' = cur
      /\ flushing' = flushing /\ notice' = notice /\ session' = session /\ failed' = failed
      /\ attached' = attached /\ ctx' = ctx /\ queue' = queue
      /\ accepted' = accepted /\ discarded' = discarded /\ reading' = reading
  BY DEF StepEnds, FlowOnly, waiting
<1>2. /\ TypeOK /\ Places /\ Passage /\ Steering /\ LineOrder
      /\ StoredFirst /\ AwaitedLast /\ Synced /\ Leaving
  BY DEF IInv
<1>3. TypeOK'
  <2>1. FlowType'
    BY <1>1, <1>2 DEF TypeOK, FlowType, FlowPlaces
  <2>2. ChannelType'
    BY <1>1, <1>2 DEF TypeOK, ChannelType
  <2>3. LoopType'
    BY <1>1, <1>2 DEF TypeOK, LoopType, LoopPlaces, Handling
  <2>4. QueueType'
    BY <1>1, <1>2 DEF TypeOK, QueueType
  <2>5. Switches'
    BY <1>1, <1>2 DEF TypeOK, Switches
  <2> QED BY <2>1, <2>2, <2>3, <2>4, <2>5 DEF TypeOK
<1>4. Places'
  BY <1>1, <1>2, Constructed DEF Places, Resume
<1>5. Reach <= Reach'
  BY <1>1 DEF Reach, Resume, Live
<1>6. Noticed' \subseteq Noticed \cup {cur, awaited}
  BY <1>1 DEF Noticed
<1>7. Stored' \subseteq Stored \cup {cur, Done}
  BY <1>1 DEF Stored
<1>8. Unsaid' = Unsaid
  BY <1>1 DEF Unsaid
<1>9. LoopRuns' => LoopRuns /\ Stored' = Stored
  BY <1>1 DEF LoopRuns, Handling, Stored
<1>10. accepted <= accepted' /\ accepted \in Nat
  BY <1>1, <1>2, Typed
<1>11. Passage' /\ LineOrder' /\ StoredFirst' /\ AwaitedLast'
  BY <1>1, <1>2, <1>3, <1>5, <1>6, <1>7, <1>8, <1>9, <1>10, NothingSent DEF Resume
<1>12. Steering'
  BY <1>1, <1>2, <1>8 DEF Steering
<1>13. Synced'
  BY <1>1, <1>2 DEF Synced, Quiet, Live, LoopRuns, Handling
<1>14. Leaving'
  BY <1>1, <1>2 DEF Leaving, Stored, LoopRuns, Handling
<1> QED BY <1>3, <1>4, <1>11, <1>12, <1>13, <1>14 DEF IInv

LEMMA CloseFlowKeeps ==
  ASSUME IInv, CloseFlow
  PROVE  IInv'
<1>1. /\ fpc = "closing" /\ fpc' = "ended" /\ qopen' = FALSE
      /\ closed' = closed \cup {"flow"}
      /\ round' = round /\ pending' = pending /\ ask' = ask /\ awaited' = awaited
      /\ woken' = woken /\ late' = late /\ flowCh' = flowCh /\ agentCh' = agentCh
      /\ outCh' = outCh /\ lpc' = lpc /\ cur' = cur /\ flushing' = flushing
      /\ notice' = notice /\ session' = session /\ failed' = failed /\ attached' = attached
      /\ ctx' = ctx /\ queue' = queue /\ accepted' = accepted
      /\ discarded' = discarded /\ reading' = reading
  BY DEF CloseFlow, FlowOnly, waiting
<1>2. /\ TypeOK /\ Places /\ Passage /\ Steering /\ LineOrder
      /\ StoredFirst /\ AwaitedLast /\ Synced /\ Leaving
  BY DEF IInv
<1>3. TypeOK'
  <2>1. FlowType'
    BY <1>1, <1>2 DEF TypeOK, FlowType, FlowPlaces
  <2>2. ChannelType'
    BY <1>1, <1>2 DEF TypeOK, ChannelType
  <2>3. LoopType'
    BY <1>1, <1>2 DEF TypeOK, LoopType, LoopPlaces, Handling
  <2>4. QueueType'
    BY <1>1, <1>2 DEF TypeOK, QueueType
  <2>5. Switches'
    BY <1>1, <1>2 DEF TypeOK, Switches
  <2> QED BY <2>1, <2>2, <2>3, <2>4, <2>5 DEF TypeOK
<1>4. Places'
  BY <1>1, <1>2, Constructed DEF Places, Resume
<1>5. Reach <= Reach'
  BY <1>1 DEF Reach, Resume, Live
<1>6. Noticed' \subseteq Noticed \cup {cur, awaited}
  BY <1>1 DEF Noticed
<1>7. Stored' \subseteq Stored \cup {cur, Done}
  BY <1>1 DEF Stored
<1>8. Unsaid' = Unsaid
  BY <1>1 DEF Unsaid
<1>9. LoopRuns' => LoopRuns /\ Stored' = Stored
  BY <1>1 DEF LoopRuns, Handling, Stored
<1>10. accepted <= accepted' /\ accepted \in Nat
  BY <1>1, <1>2, Typed
<1>11. Passage' /\ LineOrder' /\ StoredFirst' /\ AwaitedLast'
  BY <1>1, <1>2, <1>3, <1>5, <1>6, <1>7, <1>8, <1>9, <1>10, NothingSent DEF Resume
<1>12. Steering'
  BY <1>1, <1>2, <1>8 DEF Steering
<1>13. Synced'
  BY <1>1, <1>2 DEF Synced, Quiet, Live, LoopRuns, Handling
<1>14. Leaving'
  BY <1>1, <1>2 DEF Leaving, Stored, LoopRuns, Handling
<1> QED BY <1>3, <1>4, <1>11, <1>12, <1>13, <1>14 DEF IInv

LEMMA CloseAgentKeeps ==
  ASSUME IInv, CloseAgent
  PROVE  IInv'
<1>1. /\ closed' = closed \cup {"agent"}
      /\ fpc' = fpc /\ round' = round /\ pending' = pending /\ ask' = ask
      /\ awaited' = awaited /\ woken' = woken /\ late' = late /\ flowCh' = flowCh
      /\ agentCh' = agentCh /\ outCh' = outCh /\ lpc' = lpc /\ cur' = cur
      /\ flushing' = flushing /\ notice' = notice /\ session' = session /\ failed' = failed
      /\ attached' = attached /\ ctx' = ctx /\ queue' = queue
      /\ qopen' = qopen /\ accepted' = accepted /\ discarded' = discarded
      /\ reading' = reading
  BY DEF CloseAgent, ForwarderOnly, flowing, waiting, looping, stored, steering, shared
<1>2. /\ TypeOK /\ Places /\ Passage /\ Steering /\ LineOrder
      /\ StoredFirst /\ AwaitedLast /\ Synced /\ Leaving
  BY DEF IInv
<1>3. TypeOK'
  <2>1. FlowType'
    BY <1>1, <1>2 DEF TypeOK, FlowType, FlowPlaces
  <2>2. ChannelType'
    BY <1>1, <1>2 DEF TypeOK, ChannelType
  <2>3. LoopType'
    BY <1>1, <1>2 DEF TypeOK, LoopType, LoopPlaces, Handling
  <2>4. QueueType'
    BY <1>1, <1>2 DEF TypeOK, QueueType
  <2>5. Switches'
    BY <1>1, <1>2 DEF TypeOK, Switches
  <2> QED BY <2>1, <2>2, <2>3, <2>4, <2>5 DEF TypeOK
<1>4. Places'
  BY <1>1, <1>2, Constructed DEF Places, Resume
<1>5. Reach <= Reach'
  BY <1>1 DEF Reach, Resume, Live
<1>6. Noticed' \subseteq Noticed \cup {cur, awaited}
  BY <1>1 DEF Noticed
<1>7. Stored' \subseteq Stored \cup {cur, Done}
  BY <1>1 DEF Stored
<1>8. Unsaid' = Unsaid
  BY <1>1 DEF Unsaid
<1>9. LoopRuns' => LoopRuns /\ Stored' = Stored
  BY <1>1 DEF LoopRuns, Handling, Stored
<1>10. accepted <= accepted' /\ accepted \in Nat
  BY <1>1, <1>2, Typed
<1>11. Passage' /\ LineOrder' /\ StoredFirst' /\ AwaitedLast'
  BY <1>1, <1>2, <1>3, <1>5, <1>6, <1>7, <1>8, <1>9, <1>10, NothingSent DEF Resume
<1>12. Steering'
  BY <1>1, <1>2, <1>8 DEF Steering
<1>13. Synced'
  BY <1>1, <1>2 DEF Synced, Quiet, Live, LoopRuns, Handling
<1>14. Leaving'
  BY <1>1, <1>2 DEF Leaving, Stored, LoopRuns, Handling
<1> QED BY <1>3, <1>4, <1>11, <1>12, <1>13, <1>14 DEF IInv

LEMMA TakeFlushKeeps ==
  ASSUME IInv, TakeFlush
  PROVE  IInv'
<1>1. /\ lpc = "select" /\ lpc' = "drain" /\ ask' = "waiting" /\ flushing' = TRUE
      /\ fpc' = fpc /\ round' = round /\ pending' = pending /\ awaited' = awaited
      /\ woken' = woken /\ late' = late /\ flowCh' = flowCh /\ agentCh' = agentCh
      /\ outCh' = outCh /\ closed' = closed /\ cur' = cur /\ notice' = notice
      /\ session' = session /\ failed' = failed /\ attached' = attached
      /\ ctx' = ctx /\ queue' = queue /\ qopen' = qopen
      /\ accepted' = accepted /\ discarded' = discarded /\ reading' = reading
  BY DEF TakeFlush, LoopOnly, stored
<1>2. /\ TypeOK /\ Places /\ Passage /\ Steering /\ LineOrder
      /\ StoredFirst /\ AwaitedLast /\ Synced /\ Leaving
  BY DEF IInv
<1>3. TypeOK'
  <2>1. FlowType'
    BY <1>1, <1>2 DEF TypeOK, FlowType, FlowPlaces
  <2>2. ChannelType'
    BY <1>1, <1>2 DEF TypeOK, ChannelType
  <2>3. LoopType'
    BY <1>1, <1>2 DEF TypeOK, LoopType, LoopPlaces, Handling
  <2>4. QueueType'
    BY <1>1, <1>2 DEF TypeOK, QueueType
  <2>5. Switches'
    BY <1>1, <1>2 DEF TypeOK, Switches
  <2> QED BY <2>1, <2>2, <2>3, <2>4, <2>5 DEF TypeOK
<1>4. Places'
  BY <1>1, <1>2, Constructed DEF Places, Resume
<1>5. Reach <= Reach'
  BY <1>1 DEF Reach, Resume, Live
<1>6. Noticed' \subseteq Noticed \cup {cur, awaited}
  BY <1>1 DEF Noticed
<1>7. Stored' \subseteq Stored \cup {cur, Done}
  BY <1>1 DEF Stored
<1>8. Unsaid' = Unsaid
  BY <1>1 DEF Unsaid
<1>9. LoopRuns' => LoopRuns /\ Stored' = Stored
  BY <1>1 DEF LoopRuns, Handling, Stored
<1>10. accepted <= accepted' /\ accepted \in Nat
  BY <1>1, <1>2, Typed
<1>11. Passage' /\ LineOrder' /\ StoredFirst' /\ AwaitedLast'
  BY <1>1, <1>2, <1>3, <1>5, <1>6, <1>7, <1>8, <1>9, <1>10, NothingSent DEF Resume
<1>12. Steering'
  BY <1>1, <1>2, <1>8 DEF Steering
<1>13. Synced'
  BY <1>1, <1>2 DEF Synced, Quiet, Live, LoopRuns, Handling
<1>14. Leaving'
  BY <1>1, <1>2 DEF Leaving, Stored, LoopRuns, Handling
<1> QED BY <1>3, <1>4, <1>11, <1>12, <1>13, <1>14 DEF IInv

LEMMA FlushEndsKeeps ==
  ASSUME IInv, FlushEnds
  PROVE  IInv'
<1>1. /\ lpc = "drain" /\ lpc' = "select" /\ flushing' = FALSE /\ ask' \in {ask, "acked"}
      /\ fpc' = fpc /\ round' = round /\ pending' = pending /\ awaited' = awaited
      /\ woken' = woken /\ late' = late /\ flowCh' = flowCh /\ agentCh' = agentCh
      /\ outCh' = outCh /\ closed' = closed /\ cur' = cur /\ notice' = notice
      /\ session' = session /\ failed' = failed /\ attached' = attached
      /\ ctx' = ctx /\ queue' = queue /\ qopen' = qopen
      /\ accepted' = accepted /\ discarded' = discarded /\ reading' = reading
  BY DEF FlushEnds, LoopOnly, stored, Acknowledge
<1>2. /\ TypeOK /\ Places /\ Passage /\ Steering /\ LineOrder
      /\ StoredFirst /\ AwaitedLast /\ Synced /\ Leaving
  BY DEF IInv
<1>3. TypeOK'
  <2>1. FlowType'
    BY <1>1, <1>2 DEF TypeOK, FlowType, FlowPlaces
  <2>2. ChannelType'
    BY <1>1, <1>2 DEF TypeOK, ChannelType
  <2>3. LoopType'
    BY <1>1, <1>2 DEF TypeOK, LoopType, LoopPlaces, Handling
  <2>4. QueueType'
    BY <1>1, <1>2 DEF TypeOK, QueueType
  <2>5. Switches'
    BY <1>1, <1>2 DEF TypeOK, Switches
  <2> QED BY <2>1, <2>2, <2>3, <2>4, <2>5 DEF TypeOK
<1>4. Places'
  BY <1>1, <1>2, Constructed DEF Places, Resume
<1>5. Reach <= Reach'
  BY <1>1 DEF Reach, Resume, Live
<1>6. Noticed' \subseteq Noticed \cup {cur, awaited}
  BY <1>1 DEF Noticed
<1>7. Stored' \subseteq Stored \cup {cur, Done}
  BY <1>1 DEF Stored
<1>8. Unsaid' = Unsaid
  BY <1>1 DEF Unsaid
<1>9. LoopRuns' => LoopRuns /\ Stored' = Stored
  BY <1>1 DEF LoopRuns, Handling, Stored
<1>10. accepted <= accepted' /\ accepted \in Nat
  BY <1>1, <1>2, Typed
<1>11. Passage' /\ LineOrder' /\ StoredFirst' /\ AwaitedLast'
  BY <1>1, <1>2, <1>3, <1>5, <1>6, <1>7, <1>8, <1>9, <1>10, NothingSent DEF Resume
<1>12. Steering'
  BY <1>1, <1>2, <1>8 DEF Steering
<1>13. Synced'
  BY <1>1, <1>2 DEF Synced, Quiet, Live, LoopRuns, Handling
<1>14. Leaving'
  BY <1>1, <1>2 DEF Leaving, Stored, LoopRuns, Handling
<1> QED BY <1>3, <1>4, <1>11, <1>12, <1>13, <1>14 DEF IInv

LEMMA LoopEndsKeeps ==
  ASSUME IInv, LoopEnds
  PROVE  IInv'
<1>1. /\ lpc = "select" /\ lpc' = "exit"
      /\ fpc' = fpc /\ round' = round /\ pending' = pending /\ ask' = ask
      /\ awaited' = awaited /\ woken' = woken /\ late' = late /\ flowCh' = flowCh
      /\ agentCh' = agentCh /\ outCh' = outCh /\ closed' = closed /\ cur' = cur
      /\ flushing' = flushing /\ notice' = notice /\ session' = session /\ failed' = failed
      /\ attached' = attached /\ ctx' = ctx /\ queue' = queue
      /\ qopen' = qopen /\ accepted' = accepted /\ discarded' = discarded
      /\ reading' = reading
  BY DEF LoopEnds, LoopOnly, stored
<1>2. /\ TypeOK /\ Places /\ Passage /\ Steering /\ LineOrder
      /\ StoredFirst /\ AwaitedLast /\ Synced /\ Leaving
  BY DEF IInv
<1>3. TypeOK'
  <2>1. FlowType'
    BY <1>1, <1>2 DEF TypeOK, FlowType, FlowPlaces
  <2>2. ChannelType'
    BY <1>1, <1>2 DEF TypeOK, ChannelType
  <2>3. LoopType'
    BY <1>1, <1>2 DEF TypeOK, LoopType, LoopPlaces, Handling
  <2>4. QueueType'
    BY <1>1, <1>2 DEF TypeOK, QueueType
  <2>5. Switches'
    BY <1>1, <1>2 DEF TypeOK, Switches
  <2> QED BY <2>1, <2>2, <2>3, <2>4, <2>5 DEF TypeOK
<1>4. Places'
  BY <1>1, <1>2, Constructed DEF Places, Resume
<1>5. Reach <= Reach'
  BY <1>1 DEF Reach, Resume, Live
<1>6. Noticed' \subseteq Noticed \cup {cur, awaited}
  BY <1>1 DEF Noticed
<1>7. Stored' \subseteq Stored \cup {cur, Done}
  BY <1>1 DEF Stored
<1>8. Unsaid' = Unsaid
  BY <1>1 DEF Unsaid
<1>9. LoopRuns' => LoopRuns /\ Stored' = Stored
  BY <1>1 DEF LoopRuns, Handling, Stored
<1>10. accepted <= accepted' /\ accepted \in Nat
  BY <1>1, <1>2, Typed
<1>11. Passage' /\ LineOrder' /\ StoredFirst' /\ AwaitedLast'
  BY <1>1, <1>2, <1>3, <1>5, <1>6, <1>7, <1>8, <1>9, <1>10, NothingSent DEF Resume
<1>12. Steering'
  BY <1>1, <1>2, <1>8 DEF Steering
<1>13. Synced'
  BY <1>1, <1>2 DEF Synced, Quiet, Live, LoopRuns, Handling
<1>14. Leaving'
  BY <1>1, <1>2 DEF Leaving, Stored, LoopRuns, Handling
<1> QED BY <1>3, <1>4, <1>11, <1>12, <1>13, <1>14 DEF IInv

LEMMA PersistKeeps ==
  ASSUME IInv, Persist
  PROVE  IInv'
<1>1. /\ lpc = "persist" /\ lpc' = IF cur \in Awaited THEN "notify" ELSE "emit"
      /\ (session' = Append(session, cur) /\ failed' = failed) \/ (session' = session /\ failed' = failed)
         \/ (session' = session /\ failed' = failed \cup {cur})
      /\ fpc' = fpc /\ round' = round /\ pending' = pending /\ ask' = ask
      /\ awaited' = awaited /\ woken' = woken /\ late' = late /\ flowCh' = flowCh
      /\ agentCh' = agentCh /\ outCh' = outCh /\ closed' = closed /\ cur' = cur
      /\ flushing' = flushing /\ notice' = notice /\ attached' = attached
      /\ ctx' = ctx /\ queue' = queue /\ qopen' = qopen
      /\ accepted' = accepted /\ discarded' = discarded /\ reading' = reading
  <2>1. /\ lpc = "persist" /\ lpc' = IF cur \in Awaited THEN "notify" ELSE "emit"
      /\ fpc' = fpc /\ round' = round /\ pending' = pending /\ ask' = ask
      /\ awaited' = awaited /\ woken' = woken /\ late' = late /\ flowCh' = flowCh
      /\ agentCh' = agentCh /\ outCh' = outCh /\ closed' = closed /\ cur' = cur
      /\ flushing' = flushing /\ notice' = notice /\ attached' = attached
      /\ ctx' = ctx /\ queue' = queue /\ qopen' = qopen
      /\ accepted' = accepted /\ discarded' = discarded /\ reading' = reading
    BY DEF Persist, LoopOnly, stored
  <2>2. (session' = Append(session, cur) /\ failed' = failed) \/ (session' = session /\ failed' = failed)
         \/ (session' = session /\ failed' = failed \cup {cur})
    BY DEF Persist, stored
  <2> QED BY <2>1, <2>2
<1>2. /\ TypeOK /\ Places /\ Passage /\ Steering /\ LineOrder
      /\ StoredFirst /\ AwaitedLast /\ Synced /\ Leaving
  BY DEF IInv
<1>3. TypeOK'
  <2>1. FlowType'
    BY <1>1, <1>2 DEF TypeOK, FlowType, FlowPlaces
  <2>2. ChannelType'
    BY <1>1, <1>2 DEF TypeOK, ChannelType
  <2>3. LoopType'
    BY SMTT(30), <1>1, <1>2 DEF TypeOK, LoopType, LoopPlaces, Handling
  <2>4. QueueType'
    BY <1>1, <1>2 DEF TypeOK, QueueType
  <2>5. Switches'
    BY <1>1, <1>2 DEF TypeOK, Switches
  <2> QED BY <2>1, <2>2, <2>3, <2>4, <2>5 DEF TypeOK
<1>4. Places'
  BY <1>1, <1>2, Constructed DEF Places, Resume
<1>5. Reach <= Reach'
  BY <1>1 DEF Reach, Resume, Live
<1>6. Noticed' \subseteq Noticed \cup {cur, awaited}
  BY <1>1 DEF Noticed
<1>7. Stored' \subseteq Stored \cup {cur}
  <2>1. cur \in Events /\ session \in Seq(Events)
    BY <1>1, <1>2 DEF TypeOK, LoopType, Handling
  <2>2. Range(Append(session, cur)) = Range(session) \cup {cur}
    BY <2>1, Ranges
  <2>3. CASE session' = Append(session, cur) /\ failed' = failed
    BY <2>2, <2>3 DEF Stored
  <2>4. CASE session' = session /\ failed' = failed
    BY <2>4 DEF Stored
  <2>5. CASE session' = session /\ failed' = failed \cup {cur}
    BY <2>5 DEF Stored
  <2> QED BY <1>1, <2>3, <2>4, <2>5
<1>8. Unsaid' = Unsaid
  BY <1>1 DEF Unsaid
<1>9. LoopRuns' => LoopRuns /\ (Stored' # Stored => lpc = "persist" /\ lpc' # "persist"
                                     /\ Stored' \subseteq Stored \cup {cur})
  BY <1>1, <1>7 DEF LoopRuns, Handling
<1>10. accepted <= accepted' /\ accepted \in Nat
  BY <1>1, <1>2, Typed
<1>11. Passage' /\ LineOrder' /\ StoredFirst' /\ AwaitedLast'
  BY <1>1, <1>2, <1>3, <1>5, <1>6, <1>7, <1>8, <1>9, <1>10, NothingSent DEF Resume
<1>12. Steering'
  BY <1>1, <1>2, <1>8 DEF Steering
<1>13. Synced'
  BY <1>1, <1>2 DEF Synced, Quiet, Live, LoopRuns, Handling
<1>14. Leaving'
  <2>1. cur # Done
    BY <1>2, NotDone DEF Passage
  <2> QED BY <1>1, <1>2, <1>7, <2>1 DEF Leaving, LoopRuns, Handling
<1> QED BY <1>3, <1>4, <1>11, <1>12, <1>13, <1>14 DEF IInv

LEMMA PersistPanicsKeeps ==
  ASSUME IInv, PersistPanics
  PROVE  IInv'
<1>1. /\ lpc = "persist" /\ lpc' = "exit" /\ cur' = NoEvent /\ flushing' = FALSE
      /\ failed' = failed \cup {cur}
      /\ ask' \in {ask, "acked"}
      /\ fpc' = fpc /\ round' = round /\ pending' = pending /\ awaited' = awaited
      /\ woken' = woken /\ late' = late /\ flowCh' = flowCh /\ agentCh' = agentCh
      /\ outCh' = outCh /\ closed' = closed /\ notice' = notice /\ session' = session
      /\ attached' = attached /\ ctx' = ctx /\ queue' = queue
      /\ qopen' = qopen /\ accepted' = accepted /\ discarded' = discarded
      /\ reading' = reading
  BY DEF PersistPanics, LoopOnly, stored, Acknowledge
<1>2. /\ TypeOK /\ Places /\ Passage /\ Steering /\ LineOrder
      /\ StoredFirst /\ AwaitedLast /\ Synced /\ Leaving
  BY DEF IInv
<1>3. TypeOK'
  <2>1. FlowType'
    BY <1>1, <1>2 DEF TypeOK, FlowType, FlowPlaces
  <2>2. ChannelType'
    BY <1>1, <1>2 DEF TypeOK, ChannelType
  <2>3. LoopType'
    BY <1>1, <1>2 DEF TypeOK, LoopType, LoopPlaces, Handling
  <2>4. QueueType'
    BY <1>1, <1>2 DEF TypeOK, QueueType
  <2>5. Switches'
    BY <1>1, <1>2 DEF TypeOK, Switches
  <2> QED BY <2>1, <2>2, <2>3, <2>4, <2>5 DEF TypeOK
<1>4. Places'
  BY <1>1, <1>2, Constructed DEF Places, Resume
<1>5. Reach <= Reach'
  BY <1>1 DEF Reach, Resume, Live
<1>6. Noticed' \subseteq Noticed \cup {cur, awaited}
  BY <1>1 DEF Noticed
<1>7. Stored' \subseteq Stored \cup {cur, Done}
  BY <1>1 DEF Stored
<1>8. Unsaid' = Unsaid
  BY <1>1 DEF Unsaid
<1>9. LoopRuns' => LoopRuns /\ Stored' = Stored
  BY <1>1 DEF LoopRuns, Handling, Stored
<1>10. accepted <= accepted' /\ accepted \in Nat
  BY <1>1, <1>2, Typed
<1>11. Passage' /\ LineOrder' /\ StoredFirst' /\ AwaitedLast'
  BY <1>1, <1>2, <1>3, <1>5, <1>6, <1>7, <1>8, <1>9, <1>10, NothingSent DEF Resume
<1>12. Steering'
  BY <1>1, <1>2, <1>8 DEF Steering
<1>13. Synced'
  BY <1>1, <1>2 DEF Synced, Quiet, Live, LoopRuns, Handling
<1>14. Leaving'
  <2>1. Stored' = Stored \cup {cur}
    BY <1>1 DEF Stored
  <2>2. cur # Done
    BY <1>2, NotDone DEF Passage
  <2> QED BY <1>1, <1>2, <2>1, <2>2 DEF Leaving, LoopRuns, Handling
<1> QED BY <1>3, <1>4, <1>11, <1>12, <1>13, <1>14 DEF IInv

LEMMA NotifyKeeps ==
  ASSUME IInv, Notify
  PROVE  IInv'
<1>1. /\ lpc = "notify" /\ lpc' = "emit"
      /\ notice' = [notice EXCEPT ![cur] = "closed"]
      /\ woken' = (woken \/ (fpc = "wait" /\ awaited = cur))
      /\ fpc' = fpc /\ round' = round /\ pending' = pending /\ ask' = ask
      /\ awaited' = awaited /\ late' = late /\ flowCh' = flowCh /\ agentCh' = agentCh
      /\ outCh' = outCh /\ closed' = closed /\ cur' = cur /\ flushing' = flushing
      /\ session' = session /\ failed' = failed /\ attached' = attached
      /\ ctx' = ctx /\ queue' = queue /\ qopen' = qopen
      /\ accepted' = accepted /\ discarded' = discarded /\ reading' = reading
  BY DEF Notify, LoopOnly, stored
<1>2. /\ TypeOK /\ Places /\ Passage /\ Steering /\ LineOrder
      /\ StoredFirst /\ AwaitedLast /\ Synced /\ Leaving
  BY DEF IInv
<1>3. TypeOK'
  <2>1. FlowType'
    BY <1>1, <1>2 DEF TypeOK, FlowType, FlowPlaces
  <2>2. ChannelType'
    BY <1>1, <1>2 DEF TypeOK, ChannelType
  <2>3. LoopType'
    BY <1>1, <1>2 DEF TypeOK, LoopType, LoopPlaces, Handling
  <2>4. QueueType'
    BY <1>1, <1>2 DEF TypeOK, QueueType
  <2>5. Switches'
    BY <1>1, <1>2 DEF TypeOK, Switches
  <2> QED BY <2>1, <2>2, <2>3, <2>4, <2>5 DEF TypeOK
<1>4. Places'
  BY <1>1, <1>2, Constructed DEF Places, Resume
<1>5. Reach <= Reach'
  BY <1>1 DEF Reach, Resume, Live
<1>6. Noticed' \subseteq Noticed \cup {cur, awaited}
  BY <1>1 DEF Noticed
<1>7. Stored' \subseteq Stored \cup {cur, Done}
  BY <1>1 DEF Stored
<1>8. Unsaid' = Unsaid
  BY <1>1 DEF Unsaid
<1>9. LoopRuns' => LoopRuns /\ Stored' = Stored
  BY <1>1 DEF LoopRuns, Handling, Stored
<1>10. accepted <= accepted' /\ accepted \in Nat
  BY <1>1, <1>2, Typed
<1>11. Passage' /\ LineOrder' /\ StoredFirst' /\ AwaitedLast'
  BY <1>1, <1>2, <1>3, <1>5, <1>6, <1>7, <1>8, <1>9, <1>10, NothingSent DEF Resume
<1>12. Steering'
  BY <1>1, <1>2, <1>8 DEF Steering
<1>13. Synced'
  <2>1. fpc \in {"add", "wait"} => awaited \in Awaited
    BY <1>2 DEF TypeOK, FlowType
  <2>2. notice \in [Awaited -> {"none", "open", "closed"}]
    BY <1>2 DEF TypeOK, LoopType
  <2>3. fpc \in {"add", "wait"} /\ awaited # cur => notice'[awaited] = notice[awaited]
    BY <1>1, <2>1, <2>2
  <2>4. fpc \in {"add", "wait"} /\ awaited = cur => notice'[awaited] = "closed" /\ Quiet'
    BY <1>1, <1>2, <2>1, <2>2 DEF AwaitedLast, Quiet
  <2>5. Quiet => Quiet'
    BY <1>1 DEF Quiet
  <2>6. LoopRuns' = LoopRuns
    BY <1>1 DEF LoopRuns, Handling
  <2> QED BY <1>1, <1>2, <2>3, <2>4, <2>5, <2>6 DEF Synced, Live
<1>14. Leaving'
  BY <1>1, <1>2 DEF Leaving, Stored, LoopRuns, Handling
<1> QED BY <1>3, <1>4, <1>11, <1>12, <1>13, <1>14 DEF IInv

LEMMA EmitKeeps ==
  ASSUME IInv, Emit
  PROVE  IInv'
<1>1. /\ lpc = "emit" /\ lpc' \in {"drain", "select"} /\ cur' = NoEvent
      /\ outCh' = outCh \/ (Len(outCh) < Cap /\ outCh' = Append(outCh, cur))
      /\ fpc' = fpc /\ round' = round /\ pending' = pending /\ ask' = ask
      /\ awaited' = awaited /\ woken' = woken /\ late' = late /\ flowCh' = flowCh
      /\ agentCh' = agentCh /\ closed' = closed /\ flushing' = flushing /\ notice' = notice
      /\ session' = session /\ failed' = failed /\ attached' = attached
      /\ ctx' = ctx /\ queue' = queue /\ qopen' = qopen
      /\ accepted' = accepted /\ discarded' = discarded /\ reading' = reading
  BY DEF Emit, LoopOnly, stored
<1>2. /\ TypeOK /\ Places /\ Passage /\ Steering /\ LineOrder
      /\ StoredFirst /\ AwaitedLast /\ Synced /\ Leaving
  BY DEF IInv
<1>3. TypeOK'
  <2>1. FlowType'
    BY <1>1, <1>2 DEF TypeOK, FlowType, FlowPlaces
  <2>2. ChannelType'
    <3>1. cur \in Events /\ outCh \in Seq(Events) /\ Len(outCh) <= Cap
      BY <1>1, <1>2 DEF TypeOK, ChannelType, LoopType, Handling
    <3>2. outCh' \in Seq(Events) /\ Len(outCh') <= Cap
      <4>1. CASE outCh' = outCh
        BY <3>1, <4>1
      <4>2. CASE Len(outCh) < Cap /\ outCh' = Append(outCh, cur)
        BY <3>1, <4>2, RunAssumption
      <4> QED BY <1>1, <4>1, <4>2
    <3> QED BY <3>2, <1>1, <1>2 DEF TypeOK, ChannelType
  <2>3. LoopType'
    BY <1>1, <1>2 DEF TypeOK, LoopType, LoopPlaces, Handling
  <2>4. QueueType'
    BY <1>1, <1>2 DEF TypeOK, QueueType
  <2>5. Switches'
    BY <1>1, <1>2 DEF TypeOK, Switches
  <2> QED BY <2>1, <2>2, <2>3, <2>4, <2>5 DEF TypeOK
<1>4. Places'
  BY <1>1, <1>2, Constructed DEF Places, Resume
<1>5. Reach <= Reach'
  BY <1>1 DEF Reach, Resume, Live
<1>6. Noticed' \subseteq Noticed \cup {cur, awaited}
  BY <1>1 DEF Noticed
<1>7. Stored' \subseteq Stored \cup {cur, Done}
  BY <1>1 DEF Stored
<1>8. Unsaid' = Unsaid
  BY <1>1 DEF Unsaid
<1>9. LoopRuns' => LoopRuns /\ Stored' = Stored
  BY <1>1 DEF LoopRuns, Handling, Stored
<1>10. accepted <= accepted' /\ accepted \in Nat
  BY <1>1, <1>2, Typed
<1>11. Passage' /\ LineOrder' /\ StoredFirst' /\ AwaitedLast'
  BY <1>1, <1>2, <1>3, <1>5, <1>6, <1>7, <1>8, <1>9, <1>10, NothingSent DEF Resume
<1>12. Steering'
  BY <1>1, <1>2, <1>8 DEF Steering
<1>13. Synced'
  BY <1>1, <1>2 DEF Synced, Quiet, Live, LoopRuns, Handling
<1>14. Leaving'
  BY <1>1, <1>2 DEF Leaving, Stored, LoopRuns, Handling
<1> QED BY <1>3, <1>4, <1>11, <1>12, <1>13, <1>14 DEF IInv

LEMMA EmitFailsKeeps ==
  ASSUME IInv, EmitFails
  PROVE  IInv'
<1>1. /\ lpc = "emit" /\ lpc' \in {"select", "exit"} /\ cur' = NoEvent /\ flushing' = FALSE
      /\ ask' \in {ask, "acked"}
      /\ fpc' = fpc /\ round' = round /\ pending' = pending /\ awaited' = awaited
      /\ woken' = woken /\ late' = late /\ flowCh' = flowCh /\ agentCh' = agentCh
      /\ outCh' = outCh /\ closed' = closed /\ notice' = notice /\ session' = session
      /\ failed' = failed /\ attached' = attached /\ ctx' = ctx
      /\ queue' = queue /\ qopen' = qopen /\ accepted' = accepted /\ discarded' = discarded
      /\ reading' = reading
  BY DEF EmitFails, LoopOnly, stored, Acknowledge
<1>2. /\ TypeOK /\ Places /\ Passage /\ Steering /\ LineOrder
      /\ StoredFirst /\ AwaitedLast /\ Synced /\ Leaving
  BY DEF IInv
<1>3. TypeOK'
  <2>1. FlowType'
    BY <1>1, <1>2 DEF TypeOK, FlowType, FlowPlaces
  <2>2. ChannelType'
    BY <1>1, <1>2 DEF TypeOK, ChannelType
  <2>3. LoopType'
    BY <1>1, <1>2 DEF TypeOK, LoopType, LoopPlaces, Handling
  <2>4. QueueType'
    BY <1>1, <1>2 DEF TypeOK, QueueType
  <2>5. Switches'
    BY <1>1, <1>2 DEF TypeOK, Switches
  <2> QED BY <2>1, <2>2, <2>3, <2>4, <2>5 DEF TypeOK
<1>4. Places'
  BY <1>1, <1>2, Constructed DEF Places, Resume
<1>5. Reach <= Reach'
  BY <1>1 DEF Reach, Resume, Live
<1>6. Noticed' \subseteq Noticed \cup {cur, awaited}
  BY <1>1 DEF Noticed
<1>7. Stored' \subseteq Stored \cup {cur, Done}
  BY <1>1 DEF Stored
<1>8. Unsaid' = Unsaid
  BY <1>1 DEF Unsaid
<1>9. LoopRuns' => LoopRuns /\ Stored' = Stored
  BY <1>1 DEF LoopRuns, Handling, Stored
<1>10. accepted <= accepted' /\ accepted \in Nat
  BY <1>1, <1>2, Typed
<1>11. Passage' /\ LineOrder' /\ StoredFirst' /\ AwaitedLast'
  BY <1>1, <1>2, <1>3, <1>5, <1>6, <1>7, <1>8, <1>9, <1>10, NothingSent DEF Resume
<1>12. Steering'
  BY <1>1, <1>2, <1>8 DEF Steering
<1>13. Synced'
  BY <1>1, <1>2 DEF Synced, Quiet, Live, LoopRuns, Handling
<1>14. Leaving'
  BY <1>1, <1>2 DEF Leaving, Stored, LoopRuns, Handling
<1> QED BY <1>3, <1>4, <1>11, <1>12, <1>13, <1>14 DEF IInv

LEMMA CompleteKeeps ==
  ASSUME IInv, Complete
  PROVE  IInv'
<1>1. /\ lpc = "exit" /\ lpc' \in {"announce", "withdraw"} /\ qopen' = FALSE
      /\ (session' = Append(session, Done) /\ failed' = failed)
         \/ (session' = session /\ failed' = failed \cup {Done})
      /\ fpc' = fpc /\ round' = round /\ pending' = pending /\ ask' = ask
      /\ awaited' = awaited /\ woken' = woken /\ late' = late /\ flowCh' = flowCh
      /\ agentCh' = agentCh /\ outCh' = outCh /\ closed' = closed /\ cur' = cur
      /\ flushing' = flushing /\ notice' = notice /\ attached' = attached
      /\ ctx' = ctx /\ queue' = queue /\ accepted' = accepted
      /\ discarded' = discarded /\ reading' = reading
  <2>1. /\ lpc = "exit" /\ lpc' \in {"announce", "withdraw"} /\ qopen' = FALSE
      /\ fpc' = fpc /\ round' = round /\ pending' = pending /\ ask' = ask
      /\ awaited' = awaited /\ woken' = woken /\ late' = late /\ flowCh' = flowCh
      /\ agentCh' = agentCh /\ outCh' = outCh /\ closed' = closed /\ cur' = cur
      /\ flushing' = flushing /\ notice' = notice /\ attached' = attached
      /\ ctx' = ctx /\ queue' = queue /\ accepted' = accepted
      /\ discarded' = discarded /\ reading' = reading
    BY DEF Complete, LoopOnly, stored
  <2>2. (session' = Append(session, Done) /\ failed' = failed)
         \/ (session' = session /\ failed' = failed \cup {Done})
    BY DEF Complete, stored
  <2> QED BY <2>1, <2>2
<1>2. /\ TypeOK /\ Places /\ Passage /\ Steering /\ LineOrder
      /\ StoredFirst /\ AwaitedLast /\ Synced /\ Leaving
  BY DEF IInv
<1>3. TypeOK'
  <2>1. FlowType'
    BY <1>1, <1>2 DEF TypeOK, FlowType, FlowPlaces
  <2>2. ChannelType'
    BY <1>1, <1>2 DEF TypeOK, ChannelType
  <2>3. LoopType'
    <3>1. Done \in Events /\ session \in Seq(Events) /\ failed \subseteq Events
      BY <1>2, EventFacts DEF TypeOK, LoopType
    <3>2. session' \in Seq(Events) /\ failed' \subseteq Events
      BY <1>1, <3>1
    <3> QED BY <3>2, <1>1, <1>2 DEF TypeOK, LoopType, LoopPlaces, Handling
  <2>4. QueueType'
    BY <1>1, <1>2 DEF TypeOK, QueueType
  <2>5. Switches'
    BY <1>1, <1>2 DEF TypeOK, Switches
  <2> QED BY <2>1, <2>2, <2>3, <2>4, <2>5 DEF TypeOK
<1>4. Places'
  BY <1>1, <1>2, Constructed DEF Places, Resume
<1>5. Reach <= Reach'
  BY <1>1 DEF Reach, Resume, Live
<1>6. Noticed' \subseteq Noticed \cup {cur, awaited}
  BY <1>1 DEF Noticed
<1>7. Stored' = Stored \cup {Done}
  <2>1. Done \in Events /\ session \in Seq(Events)
    BY <1>2, EventFacts DEF TypeOK, LoopType
  <2>2. Range(Append(session, Done)) = Range(session) \cup {Done}
    BY <2>1, Ranges
  <2>3. CASE session' = Append(session, Done) /\ failed' = failed
    BY <2>2, <2>3 DEF Stored
  <2>4. CASE session' = session /\ failed' = failed \cup {Done}
    BY <2>4 DEF Stored
  <2> QED BY <1>1, <2>3, <2>4
<1>8. Unsaid' = Unsaid
  BY <1>1 DEF Unsaid
<1>9. LoopRuns' => LoopRuns /\ Stored' = Stored
  BY <1>1 DEF LoopRuns, Handling, Stored
<1>10. accepted <= accepted' /\ accepted \in Nat
  BY <1>1, <1>2, Typed
<1>11. Passage' /\ LineOrder' /\ StoredFirst' /\ AwaitedLast'
  BY <1>1, <1>2, <1>3, <1>5, <1>6, <1>7, <1>8, <1>9, <1>10, NothingSent DEF Resume
<1>12. Steering'
  BY <1>1, <1>2, <1>8 DEF Steering
<1>13. Synced'
  BY <1>1, <1>2 DEF Synced, Quiet, Live, LoopRuns, Handling
<1>14. Leaving'
  BY <1>1, <1>2, <1>7 DEF Leaving, LoopRuns, Handling
<1> QED BY <1>3, <1>4, <1>11, <1>12, <1>13, <1>14 DEF IInv

LEMMA AnnounceKeeps ==
  ASSUME IInv, Announce
  PROVE  IInv'
<1>1. /\ lpc = "announce" /\ lpc' = "withdraw"
      /\ outCh' = outCh \/ (Len(outCh) < Cap /\ outCh' = Append(outCh, Done))
      /\ fpc' = fpc /\ round' = round /\ pending' = pending /\ ask' = ask
      /\ awaited' = awaited /\ woken' = woken /\ late' = late /\ flowCh' = flowCh
      /\ agentCh' = agentCh /\ closed' = closed /\ cur' = cur /\ flushing' = flushing
      /\ notice' = notice /\ session' = session /\ failed' = failed /\ attached' = attached
      /\ ctx' = ctx /\ queue' = queue /\ qopen' = qopen
      /\ accepted' = accepted /\ discarded' = discarded /\ reading' = reading
  BY DEF Announce, LoopOnly, stored
<1>2. /\ TypeOK /\ Places /\ Passage /\ Steering /\ LineOrder
      /\ StoredFirst /\ AwaitedLast /\ Synced /\ Leaving
  BY DEF IInv
<1>3. TypeOK'
  <2>1. FlowType'
    BY <1>1, <1>2 DEF TypeOK, FlowType, FlowPlaces
  <2>2. ChannelType'
    <3>1. Done \in Events /\ outCh \in Seq(Events) /\ Len(outCh) <= Cap
      BY <1>2, EventFacts DEF TypeOK, ChannelType
    <3>2. outCh' \in Seq(Events) /\ Len(outCh') <= Cap
      <4>1. CASE outCh' = outCh
        BY <3>1, <4>1
      <4>2. CASE Len(outCh) < Cap /\ outCh' = Append(outCh, Done)
        BY <3>1, <4>2, RunAssumption
      <4> QED BY <1>1, <4>1, <4>2
    <3> QED BY <3>2, <1>1, <1>2 DEF TypeOK, ChannelType
  <2>3. LoopType'
    BY <1>1, <1>2 DEF TypeOK, LoopType, LoopPlaces, Handling
  <2>4. QueueType'
    BY <1>1, <1>2 DEF TypeOK, QueueType
  <2>5. Switches'
    BY <1>1, <1>2 DEF TypeOK, Switches
  <2> QED BY <2>1, <2>2, <2>3, <2>4, <2>5 DEF TypeOK
<1>4. Places'
  BY <1>1, <1>2, Constructed DEF Places, Resume
<1>5. Reach <= Reach'
  BY <1>1 DEF Reach, Resume, Live
<1>6. Noticed' \subseteq Noticed \cup {cur, awaited}
  BY <1>1 DEF Noticed
<1>7. Stored' \subseteq Stored \cup {cur, Done}
  BY <1>1 DEF Stored
<1>8. Unsaid' = Unsaid
  BY <1>1 DEF Unsaid
<1>9. LoopRuns' => LoopRuns /\ Stored' = Stored
  BY <1>1 DEF LoopRuns, Handling, Stored
<1>10. accepted <= accepted' /\ accepted \in Nat
  BY <1>1, <1>2, Typed
<1>11. Passage' /\ LineOrder' /\ StoredFirst' /\ AwaitedLast'
  BY <1>1, <1>2, <1>3, <1>5, <1>6, <1>7, <1>8, <1>9, <1>10, NothingSent DEF Resume
<1>12. Steering'
  BY <1>1, <1>2, <1>8 DEF Steering
<1>13. Synced'
  BY <1>1, <1>2 DEF Synced, Quiet, Live, LoopRuns, Handling
<1>14. Leaving'
  BY <1>1, <1>2 DEF Leaving, Stored, LoopRuns, Handling
<1> QED BY <1>3, <1>4, <1>11, <1>12, <1>13, <1>14 DEF IInv

LEMMA WithdrawKeeps ==
  ASSUME IInv, Withdraw
  PROVE  IInv'
<1>1. /\ lpc = "withdraw" /\ lpc' = "closeOut"
      /\ attached' = FALSE /\ qopen' = FALSE
      /\ fpc' = fpc /\ round' = round /\ pending' = pending /\ ask' = ask
      /\ awaited' = awaited /\ woken' = woken /\ late' = late /\ flowCh' = flowCh
      /\ agentCh' = agentCh /\ outCh' = outCh /\ closed' = closed /\ cur' = cur
      /\ flushing' = flushing /\ notice' = notice /\ session' = session /\ failed' = failed
      /\ ctx' = ctx /\ queue' = queue /\ accepted' = accepted /\ discarded' = discarded
      /\ reading' = reading
  BY DEF Withdraw, LoopOnly, stored
<1>2. /\ TypeOK /\ Places /\ Passage /\ Steering /\ LineOrder
      /\ StoredFirst /\ AwaitedLast /\ Synced /\ Leaving
  BY DEF IInv
<1>3. TypeOK'
  <2>1. FlowType'
    BY <1>1, <1>2 DEF TypeOK, FlowType, FlowPlaces
  <2>2. ChannelType'
    BY <1>1, <1>2 DEF TypeOK, ChannelType
  <2>3. LoopType'
    BY <1>1, <1>2 DEF TypeOK, LoopType, LoopPlaces, Handling
  <2>4. QueueType'
    BY <1>1, <1>2 DEF TypeOK, QueueType
  <2>5. Switches'
    BY <1>1, <1>2 DEF TypeOK, Switches
  <2> QED BY <2>1, <2>2, <2>3, <2>4, <2>5 DEF TypeOK
<1>4. Places'
  BY <1>1, <1>2, Constructed DEF Places, Resume
<1>5. Reach <= Reach'
  BY <1>1 DEF Reach, Resume, Live
<1>6. Noticed' \subseteq Noticed \cup {cur, awaited}
  BY <1>1 DEF Noticed
<1>7. Stored' \subseteq Stored \cup {cur, Done}
  BY <1>1 DEF Stored
<1>8. Unsaid' = Unsaid
  BY <1>1 DEF Unsaid
<1>9. LoopRuns' => LoopRuns /\ Stored' = Stored
  BY <1>1 DEF LoopRuns, Handling, Stored
<1>10. accepted <= accepted' /\ accepted \in Nat
  BY <1>1, <1>2, Typed
<1>11. Passage' /\ LineOrder' /\ StoredFirst' /\ AwaitedLast'
  BY <1>1, <1>2, <1>3, <1>5, <1>6, <1>7, <1>8, <1>9, <1>10, NothingSent DEF Resume
<1>12. Steering'
  BY <1>1, <1>2, <1>8 DEF Steering
<1>13. Synced'
  BY <1>1, <1>2 DEF Synced, Quiet, Live, LoopRuns, Handling
<1>14. Leaving'
  BY <1>1, <1>2 DEF Leaving, Stored, LoopRuns, Handling
<1> QED BY <1>3, <1>4, <1>11, <1>12, <1>13, <1>14 DEF IInv

LEMMA CloseOutKeeps ==
  ASSUME IInv, CloseOut
  PROVE  IInv'
<1>1. /\ lpc = "closeOut" /\ lpc' = "cleanup" /\ closed' = closed \cup {"out"}
      /\ fpc' = fpc /\ round' = round /\ pending' = pending /\ ask' = ask
      /\ awaited' = awaited /\ woken' = woken /\ late' = late /\ flowCh' = flowCh
      /\ agentCh' = agentCh /\ outCh' = outCh /\ cur' = cur /\ flushing' = flushing
      /\ notice' = notice /\ session' = session /\ failed' = failed /\ attached' = attached
      /\ ctx' = ctx /\ queue' = queue /\ qopen' = qopen
      /\ accepted' = accepted /\ discarded' = discarded /\ reading' = reading
  BY DEF CloseOut, LoopOnly, stored
<1>2. /\ TypeOK /\ Places /\ Passage /\ Steering /\ LineOrder
      /\ StoredFirst /\ AwaitedLast /\ Synced /\ Leaving
  BY DEF IInv
<1>3. TypeOK'
  <2>1. FlowType'
    BY <1>1, <1>2 DEF TypeOK, FlowType, FlowPlaces
  <2>2. ChannelType'
    BY <1>1, <1>2 DEF TypeOK, ChannelType
  <2>3. LoopType'
    BY <1>1, <1>2 DEF TypeOK, LoopType, LoopPlaces, Handling
  <2>4. QueueType'
    BY <1>1, <1>2 DEF TypeOK, QueueType
  <2>5. Switches'
    BY <1>1, <1>2 DEF TypeOK, Switches
  <2> QED BY <2>1, <2>2, <2>3, <2>4, <2>5 DEF TypeOK
<1>4. Places'
  BY <1>1, <1>2, Constructed DEF Places, Resume
<1>5. Reach <= Reach'
  BY <1>1 DEF Reach, Resume, Live
<1>6. Noticed' \subseteq Noticed \cup {cur, awaited}
  BY <1>1 DEF Noticed
<1>7. Stored' \subseteq Stored \cup {cur, Done}
  BY <1>1 DEF Stored
<1>8. Unsaid' = Unsaid
  BY <1>1 DEF Unsaid
<1>9. LoopRuns' => LoopRuns /\ Stored' = Stored
  BY <1>1 DEF LoopRuns, Handling, Stored
<1>10. accepted <= accepted' /\ accepted \in Nat
  BY <1>1, <1>2, Typed
<1>11. Passage' /\ LineOrder' /\ StoredFirst' /\ AwaitedLast'
  BY <1>1, <1>2, <1>3, <1>5, <1>6, <1>7, <1>8, <1>9, <1>10, NothingSent DEF Resume
<1>12. Steering'
  BY <1>1, <1>2, <1>8 DEF Steering
<1>13. Synced'
  BY <1>1, <1>2 DEF Synced, Quiet, Live, LoopRuns, Handling
<1>14. Leaving'
  BY <1>1, <1>2 DEF Leaving, Stored, LoopRuns, Handling
<1> QED BY <1>3, <1>4, <1>11, <1>12, <1>13, <1>14 DEF IInv

LEMMA CleanupKeeps ==
  ASSUME IInv, Cleanup
  PROVE  IInv'
<1>1. /\ lpc = "cleanup" /\ lpc' = "cancel"
      /\ notice' = [e \in Awaited |-> "none"] /\ woken' = (woken \/ fpc = "wait")
      /\ fpc' = fpc /\ round' = round /\ pending' = pending /\ ask' = ask
      /\ awaited' = awaited /\ late' = late /\ flowCh' = flowCh /\ agentCh' = agentCh
      /\ outCh' = outCh /\ closed' = closed /\ cur' = cur /\ flushing' = flushing
      /\ session' = session /\ failed' = failed /\ attached' = attached
      /\ ctx' = ctx /\ queue' = queue /\ qopen' = qopen
      /\ accepted' = accepted /\ discarded' = discarded /\ reading' = reading
  BY DEF Cleanup, LoopOnly, stored
<1>2. /\ TypeOK /\ Places /\ Passage /\ Steering /\ LineOrder
      /\ StoredFirst /\ AwaitedLast /\ Synced /\ Leaving
  BY DEF IInv
<1>3. TypeOK'
  <2>1. FlowType'
    BY <1>1, <1>2 DEF TypeOK, FlowType, FlowPlaces
  <2>2. ChannelType'
    BY <1>1, <1>2 DEF TypeOK, ChannelType
  <2>3. LoopType'
    BY <1>1, <1>2 DEF TypeOK, LoopType, LoopPlaces, Handling
  <2>4. QueueType'
    BY <1>1, <1>2 DEF TypeOK, QueueType
  <2>5. Switches'
    BY <1>1, <1>2 DEF TypeOK, Switches
  <2> QED BY <2>1, <2>2, <2>3, <2>4, <2>5 DEF TypeOK
<1>4. Places'
  BY <1>1, <1>2, Constructed DEF Places, Resume
<1>5. Reach <= Reach'
  BY <1>1 DEF Reach, Resume, Live
<1>6. Noticed' \subseteq Noticed \cup {cur, awaited}
  BY <1>1 DEF Noticed
<1>7. Stored' \subseteq Stored \cup {cur, Done}
  BY <1>1 DEF Stored
<1>8. Unsaid' = Unsaid
  BY <1>1 DEF Unsaid
<1>9. LoopRuns' => LoopRuns /\ Stored' = Stored
  BY <1>1 DEF LoopRuns, Handling, Stored
<1>10. accepted <= accepted' /\ accepted \in Nat
  BY <1>1, <1>2, Typed
<1>11. Passage' /\ LineOrder' /\ StoredFirst' /\ AwaitedLast'
  BY <1>1, <1>2, <1>3, <1>5, <1>6, <1>7, <1>8, <1>9, <1>10, NothingSent DEF Resume
<1>12. Steering'
  BY <1>1, <1>2, <1>8 DEF Steering
<1>13. Synced'
  <2>1. fpc \in {"add", "wait"} => awaited \in Awaited
    BY <1>2 DEF TypeOK, FlowType
  <2>2. fpc \in {"add", "wait"} => notice'[awaited] # "closed"
    BY <1>1, <2>1
  <2>3. ~LoopRuns'
    BY <1>1 DEF LoopRuns, Handling
  <2> QED BY <1>1, <2>2, <2>3 DEF Synced
<1>14. Leaving'
  BY <1>1, <1>2 DEF Leaving, Stored, LoopRuns, Handling
<1> QED BY <1>3, <1>4, <1>11, <1>12, <1>13, <1>14 DEF IInv

LEMMA CancelRunKeeps ==
  ASSUME IInv, CancelRun
  PROVE  IInv'
<1>1. /\ lpc = "cancel" /\ lpc' = "ended" /\ ctx' = IF Live THEN "canceled" ELSE ctx
      /\ fpc' = fpc /\ round' = round /\ pending' = pending /\ ask' = ask
      /\ awaited' = awaited /\ woken' = woken /\ late' = late /\ flowCh' = flowCh
      /\ agentCh' = agentCh /\ outCh' = outCh /\ closed' = closed /\ cur' = cur
      /\ flushing' = flushing /\ notice' = notice /\ session' = session /\ failed' = failed
      /\ attached' = attached /\ queue' = queue /\ qopen' = qopen
      /\ accepted' = accepted /\ discarded' = discarded /\ reading' = reading
  BY DEF CancelRun, LoopOnly, stored
<1>2. /\ TypeOK /\ Places /\ Passage /\ Steering /\ LineOrder
      /\ StoredFirst /\ AwaitedLast /\ Synced /\ Leaving
  BY DEF IInv
<1>3. TypeOK'
  <2>1. FlowType'
    BY <1>1, <1>2 DEF TypeOK, FlowType, FlowPlaces
  <2>2. ChannelType'
    BY <1>1, <1>2 DEF TypeOK, ChannelType
  <2>3. LoopType'
    BY <1>1, <1>2 DEF TypeOK, LoopType, LoopPlaces, Handling
  <2>4. QueueType'
    BY <1>1, <1>2 DEF TypeOK, QueueType
  <2>5. Switches'
    BY <1>1, <1>2 DEF TypeOK, Switches
  <2> QED BY <2>1, <2>2, <2>3, <2>4, <2>5 DEF TypeOK
<1>4. Places'
  BY <1>1, <1>2, Constructed DEF Places, Resume
<1>5. Reach <= Reach'
  BY <1>1 DEF Reach, Resume, Live
<1>6. Noticed' \subseteq Noticed \cup {cur, awaited}
  BY <1>1 DEF Noticed
<1>7. Stored' \subseteq Stored \cup {cur, Done}
  BY <1>1 DEF Stored
<1>8. Unsaid' = Unsaid
  BY <1>1 DEF Unsaid
<1>9. LoopRuns' => LoopRuns /\ Stored' = Stored
  BY <1>1 DEF LoopRuns, Handling, Stored
<1>10. accepted <= accepted' /\ accepted \in Nat
  BY <1>1, <1>2, Typed
<1>11. Passage' /\ LineOrder' /\ StoredFirst' /\ AwaitedLast'
  BY <1>1, <1>2, <1>3, <1>5, <1>6, <1>7, <1>8, <1>9, <1>10, NothingSent DEF Live
<1>12. Steering'
  BY <1>1, <1>2, <1>8 DEF Steering
<1>13. Synced'
  BY <1>1, <1>2 DEF Synced, Quiet, Live, LoopRuns, Handling
<1>14. Leaving'
  BY <1>1, <1>2 DEF Leaving, Stored, LoopRuns, Handling
<1> QED BY <1>3, <1>4, <1>11, <1>12, <1>13, <1>14 DEF IInv

LEMMA EnqueueKeeps ==
  ASSUME IInv, Enqueue
  PROVE  IInv'
<1>1. /\ qopen /\ accepted < MaxMessages /\ accepted' = accepted + 1
      /\ queue' = Append(queue, accepted + 1)
      /\ fpc' = fpc /\ round' = round /\ pending' = pending /\ ask' = ask
      /\ awaited' = awaited /\ woken' = woken /\ late' = late /\ flowCh' = flowCh
      /\ agentCh' = agentCh /\ outCh' = outCh /\ closed' = closed /\ lpc' = lpc /\ cur' = cur
      /\ flushing' = flushing /\ notice' = notice /\ session' = session /\ failed' = failed
      /\ attached' = attached /\ ctx' = ctx /\ qopen' = qopen
      /\ discarded' = discarded /\ reading' = reading
  BY DEF Enqueue, UserOnly, flowing, waiting, looping, stored, steering
<1>2. /\ TypeOK /\ Places /\ Passage /\ Steering /\ LineOrder
      /\ StoredFirst /\ AwaitedLast /\ Synced /\ Leaving
  BY DEF IInv
<1>3. TypeOK'
  <2>1. FlowType'
    BY <1>1, <1>2 DEF TypeOK, FlowType, FlowPlaces
  <2>2. ChannelType'
    BY <1>1, <1>2 DEF TypeOK, ChannelType
  <2>3. LoopType'
    BY <1>1, <1>2 DEF TypeOK, LoopType, LoopPlaces, Handling
  <2>4. QueueType'
    <3>1. accepted + 1 \in Messages /\ accepted' \in 0..MaxMessages
      BY <1>1, <1>2, RunAssumption DEF TypeOK, QueueType, Messages
    <3> QED BY <3>1, <1>1, <1>2 DEF TypeOK, QueueType
  <2>5. Switches'
    BY <1>1, <1>2 DEF TypeOK, Switches
  <2> QED BY <2>1, <2>2, <2>3, <2>4, <2>5 DEF TypeOK
<1>4. Places'
  BY <1>1, <1>2, Constructed DEF Places, Resume
<1>5. Reach <= Reach'
  BY <1>1 DEF Reach, Resume, Live
<1>6. Noticed' \subseteq Noticed \cup {cur, awaited}
  BY <1>1 DEF Noticed
<1>7. Stored' \subseteq Stored \cup {cur, Done}
  BY <1>1 DEF Stored
<1>8. \A t \in Unsaid' : t \in Unsaid \/ t > accepted
  <2>1. accepted \in Nat /\ accepted + 1 \in Messages /\ queue \in Seq(Messages)
    BY <1>1, <1>2, RunAssumption DEF TypeOK, QueueType, Messages
  <2>2. Range(queue)' = Range(queue) \cup {accepted + 1}
    BY <1>1, <2>1, Ranges
  <2> QED BY <1>1, <2>1, <2>2 DEF Unsaid
<1>9. LoopRuns' => LoopRuns /\ Stored' = Stored
  BY <1>1 DEF LoopRuns, Handling, Stored
<1>10. accepted <= accepted' /\ accepted \in Nat
  BY <1>1, <1>2, Typed
<1>11. Passage' /\ LineOrder' /\ StoredFirst' /\ AwaitedLast'
  BY <1>1, <1>2, <1>3, <1>5, <1>6, <1>7, <1>8, <1>9, <1>10, NothingSent DEF Resume
<1>12. Steering'
  <2>1. accepted \in Nat /\ queue \in Seq(Messages) /\ Messages \subseteq Nat
    BY <1>2 DEF TypeOK, QueueType, Messages
  <2>2. /\ DOMAIN queue' = 1..(Len(queue) + 1) /\ DOMAIN queue = 1..Len(queue) /\ Len(queue) \in Nat
        /\ \A i \in DOMAIN queue : queue'[i] = queue[i] /\ queue[i] \in Unsaid
        /\ queue'[Len(queue) + 1] = accepted + 1
    BY <1>1, <2>1 DEF Unsaid, Range
  <2>3. \A i \in DOMAIN pending : pending[i] \in Unsaid
    BY DEF Unsaid, Range
  <2>4. \A t \in Unsaid : t \in Nat /\ t <= accepted
    BY <1>2, Typed DEF Steering
  <2>5. \A i, j \in DOMAIN queue' : i < j => queue'[i] < queue'[j]
    <3> SUFFICES ASSUME NEW i \in DOMAIN queue', NEW j \in DOMAIN queue', i < j
                 PROVE  queue'[i] < queue'[j]
      OBVIOUS
    <3>1. i \in DOMAIN queue
      BY <2>2
    <3>2. CASE j \in DOMAIN queue
      BY <1>2, <2>2, <3>1, <3>2 DEF Steering
    <3>3. CASE j = Len(queue) + 1
      BY <2>1, <2>2, <2>4, <3>1, <3>3
    <3> QED BY <2>2, <3>2, <3>3
  <2>6. \A i \in DOMAIN pending, j \in DOMAIN queue' : pending[i] < queue'[j]
    BY <1>2, <2>1, <2>2, <2>3, <2>4 DEF Steering
  <2>7. \A t \in Unsaid' : t = accepted + 1 \/ t \in Unsaid
    BY <1>1, <2>2 DEF Unsaid, Range
  <2>8. \A t \in discarded : t \in Nat /\ t <= accepted
    BY <1>2 DEF Steering, TypeOK, QueueType, Messages
  <2>9. \A t \in Unsaid' : t <= accepted' /\ t \notin discarded'
    BY <1>1, <1>2, <2>1, <2>4, <2>7, <2>8 DEF Steering
  <2> QED BY <1>1, <1>2, <2>1, <2>5, <2>6, <2>8, <2>9 DEF Steering
<1>13. Synced'
  BY <1>1, <1>2 DEF Synced, Quiet, Live, LoopRuns, Handling
<1>14. Leaving'
  BY <1>1, <1>2 DEF Leaving, Stored, LoopRuns, Handling
<1> QED BY <1>3, <1>4, <1>11, <1>12, <1>13, <1>14 DEF IInv

LEMMA DiscardKeeps ==
  ASSUME IInv, Discard
  PROVE  IInv'
<1>1. /\ queue' = <<>> /\ discarded' = discarded \cup Range(queue)
      /\ fpc' = fpc /\ round' = round /\ pending' = pending /\ ask' = ask
      /\ awaited' = awaited /\ woken' = woken /\ late' = late /\ flowCh' = flowCh
      /\ agentCh' = agentCh /\ outCh' = outCh /\ closed' = closed /\ lpc' = lpc /\ cur' = cur
      /\ flushing' = flushing /\ notice' = notice /\ session' = session /\ failed' = failed
      /\ attached' = attached /\ ctx' = ctx /\ qopen' = qopen
      /\ accepted' = accepted /\ reading' = reading
  BY DEF Discard, UserOnly, flowing, waiting, looping, stored, steering
<1>2. /\ TypeOK /\ Places /\ Passage /\ Steering /\ LineOrder
      /\ StoredFirst /\ AwaitedLast /\ Synced /\ Leaving
  BY DEF IInv
<1>3. TypeOK'
  <2>1. FlowType'
    BY <1>1, <1>2 DEF TypeOK, FlowType, FlowPlaces
  <2>2. ChannelType'
    BY <1>1, <1>2 DEF TypeOK, ChannelType
  <2>3. LoopType'
    BY <1>1, <1>2 DEF TypeOK, LoopType, LoopPlaces, Handling
  <2>4. QueueType'
    <3>1. Range(queue) \subseteq Messages
      BY <1>2 DEF TypeOK, QueueType, Range
    <3>2. <<>> \in Seq(Messages)
      OBVIOUS
    <3> QED BY <3>1, <3>2, <1>1, <1>2 DEF TypeOK, QueueType
  <2>5. Switches'
    BY <1>1, <1>2 DEF TypeOK, Switches
  <2> QED BY <2>1, <2>2, <2>3, <2>4, <2>5 DEF TypeOK
<1>4. Places'
  BY <1>1, <1>2, Constructed DEF Places, Resume
<1>5. Reach <= Reach'
  BY <1>1 DEF Reach, Resume, Live
<1>6. Noticed' \subseteq Noticed \cup {cur, awaited}
  BY <1>1 DEF Noticed
<1>7. Stored' \subseteq Stored \cup {cur, Done}
  BY <1>1 DEF Stored
<1>8. Unsaid' \subseteq Unsaid
  BY <1>1 DEF Unsaid, Range
<1>9. LoopRuns' => LoopRuns /\ Stored' = Stored
  BY <1>1 DEF LoopRuns, Handling, Stored
<1>10. accepted <= accepted' /\ accepted \in Nat
  BY <1>1, <1>2, Typed
<1>11. Passage' /\ LineOrder' /\ StoredFirst' /\ AwaitedLast'
  BY <1>1, <1>2, <1>3, <1>5, <1>6, <1>7, <1>8, <1>9, <1>10, NothingSent DEF Resume
<1>12. Steering'
  <2>1. Unsaid' = Range(pending) /\ DOMAIN queue' = {}
    BY <1>1 DEF Unsaid, Range
  <2>2. \A t \in Range(pending) : t \notin Range(queue)
    <3>1. \A i \in DOMAIN pending, j \in DOMAIN queue : pending[i] # queue[j]
      <4>1. \A i \in DOMAIN pending : pending[i] \in Nat
        BY Typed, <1>2 DEF Unsaid, Range
      <4> QED BY <4>1, <1>2 DEF Steering
    <3> QED BY <3>1 DEF Range
  <2>3. \A t \in Range(queue) : t <= accepted
    BY <1>2 DEF Steering, Unsaid
  <2> QED BY <1>1, <1>2, <2>1, <2>2, <2>3 DEF Steering, Unsaid
<1>13. Synced'
  BY <1>1, <1>2 DEF Synced, Quiet, Live, LoopRuns, Handling
<1>14. Leaving'
  BY <1>1, <1>2 DEF Leaving, Stored, LoopRuns, Handling
<1> QED BY <1>3, <1>4, <1>11, <1>12, <1>13, <1>14 DEF IInv

LEMMA ContextEndsKeeps ==
  ASSUME IInv, ContextEnds
  PROVE  IInv'
<1>1. /\ Live /\ ctx' \in {"canceled", "expired"}
      /\ fpc' = fpc /\ round' = round /\ pending' = pending /\ ask' = ask
      /\ awaited' = awaited /\ woken' = woken /\ late' = late /\ flowCh' = flowCh
      /\ agentCh' = agentCh /\ outCh' = outCh /\ closed' = closed /\ lpc' = lpc /\ cur' = cur
      /\ flushing' = flushing /\ notice' = notice /\ session' = session /\ failed' = failed
      /\ attached' = attached /\ queue' = queue /\ qopen' = qopen
      /\ accepted' = accepted /\ discarded' = discarded /\ reading' = reading
  BY DEF ContextEnds, UserOnly, flowing, waiting, looping, stored, steering
<1>2. /\ TypeOK /\ Places /\ Passage /\ Steering /\ LineOrder
      /\ StoredFirst /\ AwaitedLast /\ Synced /\ Leaving
  BY DEF IInv
<1>3. TypeOK'
  <2>1. FlowType'
    BY <1>1, <1>2 DEF TypeOK, FlowType, FlowPlaces
  <2>2. ChannelType'
    BY <1>1, <1>2 DEF TypeOK, ChannelType
  <2>3. LoopType'
    BY <1>1, <1>2 DEF TypeOK, LoopType, LoopPlaces, Handling
  <2>4. QueueType'
    BY <1>1, <1>2 DEF TypeOK, QueueType
  <2>5. Switches'
    BY <1>1, <1>2 DEF TypeOK, Switches
  <2> QED BY <2>1, <2>2, <2>3, <2>4, <2>5 DEF TypeOK
<1>4. Places'
  BY <1>1, <1>2, Constructed DEF Places, Resume
<1>5. Reach <= Reach'
  BY <1>1 DEF Reach, Resume, Live
<1>6. Noticed' \subseteq Noticed \cup {cur, awaited}
  BY <1>1 DEF Noticed
<1>7. Stored' \subseteq Stored \cup {cur, Done}
  BY <1>1 DEF Stored
<1>8. Unsaid' = Unsaid
  BY <1>1 DEF Unsaid
<1>9. LoopRuns' => LoopRuns /\ Stored' = Stored
  BY <1>1 DEF LoopRuns, Handling, Stored
<1>10. accepted <= accepted' /\ accepted \in Nat
  BY <1>1, <1>2, Typed
<1>11. Passage' /\ LineOrder' /\ StoredFirst' /\ AwaitedLast'
  BY <1>1, <1>2, <1>3, <1>5, <1>6, <1>7, <1>8, <1>9, <1>10, NothingSent DEF Live
<1>12. Steering'
  BY <1>1, <1>2, <1>8 DEF Steering
<1>13. Synced'
  BY <1>1, <1>2 DEF Synced, Quiet, Live, LoopRuns, Handling
<1>14. Leaving'
  BY <1>1, <1>2 DEF Leaving, Stored, LoopRuns, Handling
<1> QED BY <1>3, <1>4, <1>11, <1>12, <1>13, <1>14 DEF IInv

LEMMA ReadKeeps ==
  ASSUME IInv, Read
  PROVE  IInv'
<1>1. /\ outCh # <<>> /\ outCh' = Tail(outCh)
      /\ fpc' = fpc /\ round' = round /\ pending' = pending /\ ask' = ask
      /\ awaited' = awaited /\ woken' = woken /\ late' = late /\ flowCh' = flowCh
      /\ agentCh' = agentCh /\ closed' = closed /\ lpc' = lpc /\ cur' = cur
      /\ flushing' = flushing /\ notice' = notice /\ session' = session /\ failed' = failed
      /\ attached' = attached /\ ctx' = ctx /\ queue' = queue
      /\ qopen' = qopen /\ accepted' = accepted /\ discarded' = discarded
      /\ reading' = reading
  BY DEF Read, UserOnly, flowing, waiting, looping, stored, steering
<1>2. /\ TypeOK /\ Places /\ Passage /\ Steering /\ LineOrder
      /\ StoredFirst /\ AwaitedLast /\ Synced /\ Leaving
  BY DEF IInv
<1>3. TypeOK'
  <2>1. FlowType'
    BY <1>1, <1>2 DEF TypeOK, FlowType, FlowPlaces
  <2>2. ChannelType'
    BY <1>1, <1>2, RunAssumption DEF TypeOK, ChannelType
  <2>3. LoopType'
    BY <1>1, <1>2 DEF TypeOK, LoopType, LoopPlaces, Handling
  <2>4. QueueType'
    BY <1>1, <1>2 DEF TypeOK, QueueType
  <2>5. Switches'
    BY <1>1, <1>2 DEF TypeOK, Switches
  <2> QED BY <2>1, <2>2, <2>3, <2>4, <2>5 DEF TypeOK
<1>4. Places'
  BY <1>1, <1>2, Constructed DEF Places, Resume
<1>5. Reach <= Reach'
  BY <1>1 DEF Reach, Resume, Live
<1>6. Noticed' \subseteq Noticed \cup {cur, awaited}
  BY <1>1 DEF Noticed
<1>7. Stored' \subseteq Stored \cup {cur, Done}
  BY <1>1 DEF Stored
<1>8. Unsaid' = Unsaid
  BY <1>1 DEF Unsaid
<1>9. LoopRuns' => LoopRuns /\ Stored' = Stored
  BY <1>1 DEF LoopRuns, Handling, Stored
<1>10. accepted <= accepted' /\ accepted \in Nat
  BY <1>1, <1>2, Typed
<1>11. Passage' /\ LineOrder' /\ StoredFirst' /\ AwaitedLast'
  BY <1>1, <1>2, <1>3, <1>5, <1>6, <1>7, <1>8, <1>9, <1>10, NothingSent DEF Resume
<1>12. Steering'
  BY <1>1, <1>2, <1>8 DEF Steering
<1>13. Synced'
  BY <1>1, <1>2 DEF Synced, Quiet, Live, LoopRuns, Handling
<1>14. Leaving'
  BY <1>1, <1>2 DEF Leaving, Stored, LoopRuns, Handling
<1> QED BY <1>3, <1>4, <1>11, <1>12, <1>13, <1>14 DEF IInv

LEMMA StopReadingKeeps ==
  ASSUME IInv, StopReading
  PROVE  IInv'
<1>1. /\ reading' = FALSE
      /\ fpc' = fpc /\ round' = round /\ pending' = pending /\ ask' = ask
      /\ awaited' = awaited /\ woken' = woken /\ late' = late /\ flowCh' = flowCh
      /\ agentCh' = agentCh /\ outCh' = outCh /\ closed' = closed /\ lpc' = lpc /\ cur' = cur
      /\ flushing' = flushing /\ notice' = notice /\ session' = session /\ failed' = failed
      /\ attached' = attached /\ ctx' = ctx /\ queue' = queue
      /\ qopen' = qopen /\ accepted' = accepted /\ discarded' = discarded
  BY DEF StopReading, UserOnly, flowing, waiting, looping, stored, steering
<1>2. /\ TypeOK /\ Places /\ Passage /\ Steering /\ LineOrder
      /\ StoredFirst /\ AwaitedLast /\ Synced /\ Leaving
  BY DEF IInv
<1>3. TypeOK'
  <2>1. FlowType'
    BY <1>1, <1>2 DEF TypeOK, FlowType, FlowPlaces
  <2>2. ChannelType'
    BY <1>1, <1>2 DEF TypeOK, ChannelType
  <2>3. LoopType'
    BY <1>1, <1>2 DEF TypeOK, LoopType, LoopPlaces, Handling
  <2>4. QueueType'
    BY <1>1, <1>2 DEF TypeOK, QueueType
  <2>5. Switches'
    BY <1>1, <1>2 DEF TypeOK, Switches
  <2> QED BY <2>1, <2>2, <2>3, <2>4, <2>5 DEF TypeOK
<1>4. Places'
  BY <1>1, <1>2, Constructed DEF Places, Resume
<1>5. Reach <= Reach'
  BY <1>1 DEF Reach, Resume, Live
<1>6. Noticed' \subseteq Noticed \cup {cur, awaited}
  BY <1>1 DEF Noticed
<1>7. Stored' \subseteq Stored \cup {cur, Done}
  BY <1>1 DEF Stored
<1>8. Unsaid' = Unsaid
  BY <1>1 DEF Unsaid
<1>9. LoopRuns' => LoopRuns /\ Stored' = Stored
  BY <1>1 DEF LoopRuns, Handling, Stored
<1>10. accepted <= accepted' /\ accepted \in Nat
  BY <1>1, <1>2, Typed
<1>11. Passage' /\ LineOrder' /\ StoredFirst' /\ AwaitedLast'
  BY <1>1, <1>2, <1>3, <1>5, <1>6, <1>7, <1>8, <1>9, <1>10, NothingSent DEF Resume
<1>12. Steering'
  BY <1>1, <1>2, <1>8 DEF Steering
<1>13. Synced'
  BY <1>1, <1>2 DEF Synced, Quiet, Live, LoopRuns, Handling
<1>14. Leaving'
  BY <1>1, <1>2 DEF Leaving, Stored, LoopRuns, Handling
<1> QED BY <1>3, <1>4, <1>11, <1>12, <1>13, <1>14 DEF IInv

--------------------------------------------------------------------------------
(* The steps that send an event, or move one.                              *)

LEMMA EmitStartKeeps ==
  ASSUME IInv, EmitStart
  PROVE  IInv'
<1>1. /\ fpc = "start" /\ fpc' = "add" /\ woken' = FALSE
      /\ awaited' = Start(round)
      /\ flowCh' = flowCh \/ (Len(flowCh) <= Cap /\ flowCh' = Append(flowCh, Start(round)))
      /\ round' = round /\ pending' = pending /\ ask' = ask /\ late' = late
      /\ agentCh' = agentCh /\ outCh' = outCh /\ closed' = closed /\ lpc' = lpc
      /\ cur' = cur /\ flushing' = flushing /\ notice' = notice /\ session' = session
      /\ failed' = failed /\ attached' = attached
      /\ ctx' = ctx /\ queue' = queue /\ qopen' = qopen /\ accepted' = accepted
      /\ discarded' = discarded /\ reading' = reading
  BY DEF EmitStart, FlowOnly, Send, Drop, Await, waiting
<1>2. /\ TypeOK /\ Places /\ Passage /\ Steering /\ LineOrder
      /\ StoredFirst /\ AwaitedLast /\ Synced /\ Leaving
  BY DEF IInv
<1>3. /\ Start(round) \in Events /\ Start(round).round = round /\ Start(round).text = 0
      /\ Start(round).kind = "start" /\ T!Stage(Start(round).kind) = 1
  BY <1>2, EventFacts, Constructed, Stages DEF TypeOK, FlowType
<1>4. TypeOK'
  <2>1. FlowType'
    <3>1. Start(round) \in Awaited /\ Start(round) # NoEvent
      BY <1>2, EventFacts DEF TypeOK, FlowType
    <3> QED BY <3>1, <1>1, <1>2 DEF TypeOK, FlowType, FlowPlaces
  <2>2. ChannelType'
    <3>1. Start(round) \in Events /\ flowCh \in Seq(Events)
      BY <1>3, <1>2 DEF TypeOK, ChannelType
    <3>2. flowCh' \in Seq(Events) /\ Len(flowCh') <= Cap + 1
      <4>1. CASE flowCh' = flowCh
        BY <4>1, <1>2 DEF TypeOK, ChannelType
      <4>2. CASE flowCh' = Append(flowCh, Start(round)) /\ Len(flowCh) <= Cap
        BY <3>1, <4>2, RunAssumption
      <4> QED BY <1>1, <4>1, <4>2
    <3> QED BY <3>2, <1>1, <1>2 DEF TypeOK, ChannelType
  <2>3. LoopType'
    BY <1>1, <1>2 DEF TypeOK, LoopType, LoopPlaces, Handling
  <2>4. QueueType'
    BY <1>1, <1>2 DEF TypeOK, QueueType
  <2>5. Switches'
    BY <1>1, <1>2 DEF TypeOK, Switches
  <2> QED BY <2>1, <2>2, <2>3, <2>4, <2>5 DEF TypeOK
<1>5. Places'
  BY <1>1, <1>2, <1>3, Constructed DEF Places
<1>6. Steering'
  BY <1>1, <1>2 DEF Steering, Unsaid
<1>7. Reach < 1 /\ 1 <= Reach'
  BY <1>1, Constructed DEF Reach
<1>8. /\ Passage' /\ LineOrder' /\ StoredFirst' /\ AwaitedLast'
      /\ fpc' = "add" => notice'[awaited'] # "closed"
  <2>1. Passed(Start(round))'
    BY <1>1, <1>7, <1>3 DEF Passed, Behind
  <2>2. T!Stage(Start(round).kind) > Reach /\ Reach <= Reach' /\ accepted \in Nat
    BY <1>2, <1>4, <1>7, <1>3, Typed DEF Reach
  <2>3. Unsaid' = Unsaid
    BY <1>1 DEF Unsaid
  <2> QED BY <1>1, <1>2, <1>4, <1>3, <2>1, <2>2, <2>3, NextSent
<1>9. Synced' /\ Leaving'
  <2>1. Synced'
    BY <1>1, <1>8 DEF Synced
  <2>2. Leaving'
    BY <1>1, <1>2 DEF Leaving, Stored, LoopRuns, Handling
  <2> QED BY <2>1, <2>2
<1> QED BY <1>4, <1>5, <1>6, <1>8, <1>9 DEF IInv

LEMMA ComplainKeeps ==
  ASSUME IInv, Complain
  PROVE  IInv'
<1>1. /\ fpc = "complain" /\ fpc' = "next"
      /\ flowCh' = flowCh \/ (Len(flowCh) <= Cap /\ flowCh' = Append(flowCh, Error(round)))
      /\ round' = round /\ pending' = pending /\ ask' = ask /\ awaited' = awaited
      /\ woken' = woken /\ late' = late /\ agentCh' = agentCh /\ outCh' = outCh
      /\ closed' = closed /\ lpc' = lpc /\ cur' = cur /\ flushing' = flushing
      /\ notice' = notice /\ session' = session /\ failed' = failed
      /\ attached' = attached /\ ctx' = ctx
      /\ queue' = queue /\ qopen' = qopen /\ accepted' = accepted
      /\ discarded' = discarded /\ reading' = reading
  BY DEF Complain, FlowOnly, Send, Drop, Await, waiting
<1>2. /\ TypeOK /\ Places /\ Passage /\ Steering /\ LineOrder
      /\ StoredFirst /\ AwaitedLast /\ Synced /\ Leaving
  BY DEF IInv
<1>3. /\ Error(round) \in Events /\ Error(round).round = round /\ Error(round).text = 0
      /\ Error(round).kind = "error" /\ T!Stage(Error(round).kind) = 4
  BY <1>2, EventFacts, Constructed, Stages DEF TypeOK, FlowType
<1>4. TypeOK'
  <2>1. FlowType'
    BY <1>1, <1>2, <1>3 DEF TypeOK, FlowType, FlowPlaces
  <2>2. ChannelType'
    <3>1. Error(round) \in Events /\ flowCh \in Seq(Events)
      BY <1>3, <1>2 DEF TypeOK, ChannelType
    <3>2. flowCh' \in Seq(Events) /\ Len(flowCh') <= Cap + 1
      <4>1. CASE flowCh' = flowCh
        BY <4>1, <1>2 DEF TypeOK, ChannelType
      <4>2. CASE flowCh' = Append(flowCh, Error(round)) /\ Len(flowCh) <= Cap
        BY <3>1, <4>2, RunAssumption
      <4> QED BY <1>1, <4>1, <4>2
    <3> QED BY <3>2, <1>1, <1>2 DEF TypeOK, ChannelType
  <2>3. LoopType'
    BY <1>1, <1>2 DEF TypeOK, LoopType, LoopPlaces, Handling
  <2>4. QueueType'
    BY <1>1, <1>2 DEF TypeOK, QueueType
  <2>5. Switches'
    BY <1>1, <1>2 DEF TypeOK, Switches
  <2> QED BY <2>1, <2>2, <2>3, <2>4, <2>5 DEF TypeOK
<1>5. Places'
  BY <1>1, <1>2, <1>3, Constructed DEF Places
<1>6. Steering'
  BY <1>1, <1>2 DEF Steering, Unsaid
<1>7. Reach < 4 /\ 4 <= Reach'
  BY <1>1 DEF Reach
<1>8. /\ Passage' /\ LineOrder' /\ StoredFirst' /\ AwaitedLast'
      /\ fpc' = "add" => notice'[awaited'] # "closed"
  <2>1. Passed(Error(round))'
    BY <1>1, <1>7, <1>3 DEF Passed, Behind
  <2>2. T!Stage(Error(round).kind) > Reach /\ Reach <= Reach' /\ accepted \in Nat
    BY <1>2, <1>4, <1>7, <1>3, Typed DEF Reach
  <2>3. Unsaid' = Unsaid
    BY <1>1 DEF Unsaid
  <2> QED BY <1>1, <1>2, <1>4, <1>3, <2>1, <2>2, <2>3, NextSent
<1>9. Synced' /\ Leaving'
  <2>1. Synced'
    BY <1>1, <1>8 DEF Synced
  <2>2. Leaving'
    BY <1>1, <1>2 DEF Leaving, Stored, LoopRuns, Handling
  <2> QED BY <2>1, <2>2
<1> QED BY <1>4, <1>5, <1>6, <1>8, <1>9 DEF IInv

LEMMA FailKeeps ==
  ASSUME IInv, Fail
  PROVE  IInv'
<1>1. /\ fpc = "fail" /\ fpc' = "closing"
      /\ (Live /\ Len(flowCh) <= Cap /\ flowCh' = Append(flowCh, Error(round)))
         \/ (~Live /\ flowCh' = flowCh)
      /\ round' = round /\ pending' = pending /\ ask' = ask /\ awaited' = awaited
      /\ woken' = woken /\ late' = late /\ agentCh' = agentCh /\ outCh' = outCh
      /\ closed' = closed /\ lpc' = lpc /\ cur' = cur /\ flushing' = flushing
      /\ notice' = notice /\ session' = session /\ failed' = failed
      /\ attached' = attached /\ ctx' = ctx
      /\ queue' = queue /\ qopen' = qopen /\ accepted' = accepted
      /\ discarded' = discarded /\ reading' = reading
  BY DEF Fail, FlowOnly, Send, Drop, Await, waiting
<1>2. /\ TypeOK /\ Places /\ Passage /\ Steering /\ LineOrder
      /\ StoredFirst /\ AwaitedLast /\ Synced /\ Leaving
  BY DEF IInv
<1>3. /\ Error(round) \in Events /\ Error(round).round = round /\ Error(round).text = 0
      /\ Error(round).kind = "error" /\ T!Stage(Error(round).kind) = 4
  BY <1>2, EventFacts, Constructed, Stages DEF TypeOK, FlowType
<1>4. TypeOK'
  <2>1. FlowType'
    BY <1>1, <1>2, <1>3 DEF TypeOK, FlowType, FlowPlaces
  <2>2. ChannelType'
    <3>1. Error(round) \in Events /\ flowCh \in Seq(Events)
      BY <1>3, <1>2 DEF TypeOK, ChannelType
    <3>2. flowCh' \in Seq(Events) /\ Len(flowCh') <= Cap + 1
      <4>1. CASE flowCh' = flowCh
        BY <4>1, <1>2 DEF TypeOK, ChannelType
      <4>2. CASE flowCh' = Append(flowCh, Error(round)) /\ Len(flowCh) <= Cap
        BY <3>1, <4>2, RunAssumption
      <4> QED BY <1>1, <4>1, <4>2
    <3> QED BY <3>2, <1>1, <1>2 DEF TypeOK, ChannelType
  <2>3. LoopType'
    BY <1>1, <1>2 DEF TypeOK, LoopType, LoopPlaces, Handling
  <2>4. QueueType'
    BY <1>1, <1>2 DEF TypeOK, QueueType
  <2>5. Switches'
    BY <1>1, <1>2 DEF TypeOK, Switches
  <2> QED BY <2>1, <2>2, <2>3, <2>4, <2>5 DEF TypeOK
<1>5. Places'
  BY <1>1, <1>2, <1>3, Constructed DEF Places
<1>6. Steering'
  BY <1>1, <1>2 DEF Steering, Unsaid
<1>7. Unsaid' = Unsaid /\ accepted \in Nat /\ Noticed' = Noticed /\ Stored' = Stored
  BY <1>1, <1>2, Typed DEF Unsaid, Noticed, Stored
<1>8. Passage' /\ LineOrder' /\ StoredFirst' /\ AwaitedLast'
  <2>1. CASE Live
    <3>1. Reach = 3 /\ Reach' = 4
      BY <1>1, <2>1 DEF Reach
    <3>2. Passed(Error(round))'
      BY <1>1, <3>1, <1>3 DEF Passed, Behind
    <3> QED BY <1>1, <1>2, <1>4, <1>7, <1>3, <3>1, <3>2, NextSent
  <2>2. CASE ~Live
    <3>1. Reach = 4 /\ Reach' = 4 /\ flowCh' = flowCh
      BY <1>1, <2>2 DEF Reach
    <3>2. LoopRuns' = LoopRuns
      BY <1>1 DEF LoopRuns, Handling
    <3> QED BY <1>1, <1>2, <1>4, <1>7, <3>1, <3>2, NothingSent
  <2> QED BY <2>1, <2>2
<1>9. Synced' /\ Leaving'
  <2>1. Synced'
    BY <1>1 DEF Synced
  <2>2. Leaving'
    BY <1>1, <1>2 DEF Leaving, Stored, LoopRuns, Handling
  <2> QED BY <2>1, <2>2
<1> QED BY <1>4, <1>5, <1>6, <1>8, <1>9 DEF IInv

LEMMA ModelAnswersKeeps ==
  ASSUME IInv, ModelAnswers
  PROVE  IInv'
<1>1. /\ fpc = "model" /\ Len(flowCh) <= Cap
      /\ \/ round < MaxRounds /\ fpc' = "tools" /\ flowCh' = Append(flowCh, Calls(round))
         \/ fpc' = "closing" /\ flowCh' = Append(flowCh, Final(round))
      /\ round' = round /\ pending' = pending /\ ask' = ask /\ awaited' = awaited
      /\ woken' = woken /\ late' = late /\ agentCh' = agentCh /\ outCh' = outCh
      /\ closed' = closed /\ lpc' = lpc /\ cur' = cur /\ flushing' = flushing
      /\ notice' = notice /\ session' = session /\ failed' = failed
      /\ attached' = attached /\ ctx' = ctx
      /\ queue' = queue /\ qopen' = qopen /\ accepted' = accepted
      /\ discarded' = discarded /\ reading' = reading
  BY DEF ModelAnswers, FlowOnly, Send, waiting
<1>2. /\ TypeOK /\ Places /\ Passage /\ Steering /\ LineOrder
      /\ StoredFirst /\ AwaitedLast /\ Synced /\ Leaving
  BY DEF IInv
<1>3. PICK e \in {Calls(round), Final(round)} : flowCh' = Append(flowCh, e)
  BY <1>1
<1>4. e \in Events /\ e.round = round /\ e.text = 0 /\ T!Stage(e.kind) = 3
  BY <1>2, EventFacts, Constructed, Stages DEF TypeOK, FlowType
<1>5. TypeOK'
  <2>1. FlowType'
    BY <1>1, <1>2 DEF TypeOK, FlowType, FlowPlaces
  <2>2. ChannelType'
    <3>1. flowCh' \in Seq(Events) /\ Len(flowCh') <= Cap + 1
      BY <1>1, <1>2, <1>3, <1>4, RunAssumption DEF TypeOK, ChannelType
    <3> QED BY <3>1, <1>1, <1>2 DEF TypeOK, ChannelType
  <2>3. LoopType'
    BY <1>1, <1>2 DEF TypeOK, LoopType
  <2>4. QueueType'
    BY <1>1, <1>2 DEF TypeOK, QueueType
  <2>5. Switches'
    BY <1>1, <1>2 DEF TypeOK, Switches
  <2> QED BY <2>1, <2>2, <2>3, <2>4, <2>5 DEF TypeOK
<1>6. Places'
  BY <1>1, <1>2 DEF Places
<1>7. Steering'
  BY <1>1, <1>2 DEF Steering, Unsaid
<1>8. Reach = 2 /\ 3 <= Reach'
  BY <1>1 DEF Reach
<1>9. Passage' /\ LineOrder' /\ StoredFirst' /\ AwaitedLast'
  <2>1. Passed(e)'
    BY <1>1, <1>8, <1>4 DEF Passed, Behind
  <2>2. T!Stage(e.kind) > Reach /\ Reach <= Reach' /\ accepted \in Nat
    BY <1>2, <1>5, <1>8, <1>4, Typed DEF Reach
  <2>3. Unsaid' = Unsaid
    BY <1>1 DEF Unsaid
  <2> QED BY <1>1, <1>2, <1>5, <1>3, <1>4, <2>1, <2>2, <2>3, NextSent
<1>10. Synced' /\ Leaving'
  <2>1. Synced'
    BY <1>1 DEF Synced
  <2>2. Leaving'
    BY <1>1, <1>2 DEF Leaving, Stored, LoopRuns, Handling
  <2> QED BY <2>1, <2>2
<1> QED BY <1>5, <1>6, <1>7, <1>9, <1>10 DEF IInv


--------------------------------------------------------------------------------
(* The steps that move an event, or end with one.                          *)

\* Taking the first element of a sequence.
LEMMA Tails ==
  ASSUME NEW S, NEW s \in Seq(S), s # <<>>
  PROVE  /\ Head(s) \in S /\ Tail(s) \in Seq(S)
         /\ Len(s) \in Nat /\ Len(s) >= 1 /\ Len(Tail(s)) = Len(s) - 1
         /\ DOMAIN s = 1..Len(s) /\ DOMAIN Tail(s) = 1..Len(Tail(s))
         /\ 1 \in DOMAIN s /\ Head(s) = s[1]
         /\ \A i \in DOMAIN Tail(s) : i + 1 \in DOMAIN s /\ Tail(s)[i] = s[i + 1] /\ 1 < i + 1
         /\ Range(Tail(s)) \subseteq Range(s) /\ Head(s) \in Range(s)
         /\ \A x \in Range(Tail(s)) : \E i \in DOMAIN s : 1 < i /\ x = s[i]
<1>1. /\ Head(s) \in S /\ Tail(s) \in Seq(S) /\ Len(s) \in Nat /\ Len(s) >= 1
      /\ Len(Tail(s)) = Len(s) - 1
      /\ DOMAIN s = 1..Len(s) /\ DOMAIN Tail(s) = 1..Len(Tail(s))
      /\ 1 \in DOMAIN s /\ Head(s) = s[1]
  OBVIOUS
<1>2. \A i \in DOMAIN Tail(s) : i + 1 \in DOMAIN s /\ Tail(s)[i] = s[i + 1] /\ 1 < i + 1
  OBVIOUS
<1>3. \A x \in Range(Tail(s)) : \E i \in DOMAIN s : 1 < i /\ x = s[i]
  BY <1>2 DEF Range
<1>4. Range(Tail(s)) \subseteq Range(s) /\ Head(s) \in Range(s)
  BY <1>1, <1>3 DEF Range
<1> QED BY <1>1, <1>2, <1>3, <1>4

\* What a step that only moves an event along keeps of Passage and StoredFirst.
LEMMA Moved ==
  ASSUME TypeOK, TypeOK', Passage, StoredFirst,
         fpc' = fpc, round' = round, awaited' = awaited, ctx' = ctx, notice' = notice,
         pending' = pending, queue' = queue, accepted' = accepted, discarded' = discarded,
         session' = session, failed' = failed,
         InTransit' \subseteq InTransit, cur' \in InTransit \cup {cur}, LoopRuns' = LoopRuns
  PROVE  Passage' /\ StoredFirst'
<1>1. Reach' = Reach /\ Unsaid' = Unsaid /\ Noticed' = Noticed /\ Stored' = Stored
  BY DEF Reach, Live, Unsaid, Noticed, Stored
<1>2. round' \in Nat /\ round' > 0
  BY DEF TypeOK, FlowType, Rounds
<1>3. Passed(NoEvent)'
  BY <1>2, Constructed DEF Passed, Behind
<1>4. Reach \in 0..4 /\ accepted \in Nat
  BY Typed
<1>5. Passage'
  BY <1>1, <1>3, <1>4, PassageKept
<1>6. StoredFirst'
  BY <1>1 DEF StoredFirst, Early
<1> QED BY <1>5, <1>6

LEMMA ForwardKeeps ==
  ASSUME IInv, Forward
  PROVE  IInv'
<1>1. /\ flowCh # <<>> /\ Len(agentCh) < Cap
      /\ agentCh' = Append(agentCh, Head(flowCh)) /\ flowCh' = Tail(flowCh)
      /\ fpc' = fpc /\ round' = round /\ pending' = pending /\ ask' = ask
      /\ awaited' = awaited /\ woken' = woken /\ late' = late /\ outCh' = outCh
      /\ closed' = closed /\ lpc' = lpc /\ cur' = cur /\ flushing' = flushing
      /\ notice' = notice /\ session' = session /\ failed' = failed
      /\ attached' = attached /\ ctx' = ctx
      /\ queue' = queue /\ qopen' = qopen /\ accepted' = accepted
      /\ discarded' = discarded /\ reading' = reading
  BY DEF Forward, ForwarderOnly, flowing, waiting, looping, stored, steering, shared
<1>2. /\ TypeOK /\ Places /\ Passage /\ Steering /\ LineOrder
      /\ StoredFirst /\ AwaitedLast /\ Synced /\ Leaving
  BY DEF IInv
<1>3. /\ flowCh \in Seq(Events) /\ agentCh \in Seq(Events)
      /\ Len(flowCh) <= Cap + 1 /\ Cap \in Nat
  BY <1>2, RunAssumption DEF TypeOK, ChannelType
<1>4. /\ Head(flowCh) \in Events /\ flowCh' \in Seq(Events) /\ Len(flowCh') = Len(flowCh) - 1
      /\ agentCh' \in Seq(Events) /\ Len(agentCh') = Len(agentCh) + 1
      /\ Len(flowCh) \in Nat /\ Len(agentCh) \in Nat
      /\ 1 \in DOMAIN flowCh /\ Head(flowCh) = flowCh[1]
      /\ \A i \in DOMAIN flowCh' :
           i + 1 \in DOMAIN flowCh /\ flowCh'[i] = flowCh[i + 1] /\ 1 < i + 1
      /\ DOMAIN flowCh' = 1..Len(flowCh')
  BY <1>1, <1>3, Tails
<1>5. \A i \in DOMAIN agentCh' :
        \/ i \in DOMAIN agentCh /\ agentCh'[i] = agentCh[i]
        \/ /\ i = Len(agentCh') /\ agentCh'[i] = flowCh[1]
           /\ \A j \in DOMAIN agentCh' : j # i => j \in DOMAIN agentCh
  BY <1>1, <1>3, <1>4
<1>6. InTransit' \subseteq InTransit
  <2>1. Range(flowCh)' \subseteq Range(flowCh) /\ Head(flowCh) \in Range(flowCh)
    BY <1>1, <1>3, Tails
  <2>2. Range(agentCh)' = Range(agentCh) \cup {Head(flowCh)}
    BY <1>1, <1>3, <1>4, Ranges
  <2> QED BY <1>1, <2>1, <2>2 DEF InTransit
<1>7. TypeOK'
  <2>1. FlowType'
    BY <1>1, <1>2 DEF TypeOK, FlowType, FlowPlaces
  <2>2. ChannelType'
    BY <1>1, <1>2, <1>3, <1>4 DEF TypeOK, ChannelType
  <2>3. LoopType'
    BY <1>1, <1>2 DEF TypeOK, LoopType, LoopPlaces, Handling
  <2>4. QueueType'
    BY <1>1, <1>2 DEF TypeOK, QueueType
  <2>5. Switches'
    BY <1>1, <1>2 DEF TypeOK, Switches
  <2> QED BY <2>1, <2>2, <2>3, <2>4, <2>5 DEF TypeOK
<1>8. Places' /\ Steering'
  BY <1>1, <1>2 DEF Places, Steering, Unsaid
<1>9. Passage' /\ StoredFirst'
  <2>1. LoopRuns' = LoopRuns
    BY <1>1 DEF LoopRuns
  <2> QED BY <1>1, <1>2, <1>7, <1>6, <2>1, Moved
<1>10. LineOrder'
  <2>1. ASSUME NEW i \in DOMAIN flowCh', NEW j \in DOMAIN flowCh', i < j
        PROVE  T!Before(flowCh'[i], flowCh'[j])
    <3>1. i + 1 < j + 1
      BY <1>4, <2>1
    <3> QED BY <1>2, <1>4, <3>1 DEF LineOrder
  <2>2. ASSUME NEW i \in DOMAIN agentCh', NEW j \in DOMAIN agentCh', i < j
        PROVE  T!Before(agentCh'[i], agentCh'[j])
    <3>1. i \in DOMAIN agentCh /\ agentCh'[i] = agentCh[i]
      <4>1. DOMAIN agentCh' = 1..Len(agentCh') /\ i # Len(agentCh')
        BY <1>4, <2>2
      <4> QED BY <1>5, <4>1
    <3> QED BY <1>2, <1>4, <1>5, <2>2, <3>1 DEF LineOrder
  <2>3. ASSUME NEW i \in DOMAIN agentCh', NEW j \in DOMAIN flowCh'
        PROVE  T!Before(agentCh'[i], flowCh'[j])
    <3>1. CASE i \in DOMAIN agentCh /\ agentCh'[i] = agentCh[i]
      BY <1>2, <1>4, <3>1 DEF LineOrder
    <3>2. CASE agentCh'[i] = flowCh[1]
      BY <1>2, <1>4, <3>2 DEF LineOrder
    <3> QED BY <1>5, <3>1, <3>2
  <2>4. ASSUME lpc' = "persist", NEW x \in Range(agentCh)' \cup Range(flowCh)'
        PROVE  T!Before(cur', x)
    <3>1. Range(flowCh)' \subseteq Range(flowCh) /\ Head(flowCh) \in Range(flowCh)
      BY <1>1, <1>3, Tails
    <3>2. Range(agentCh)' = Range(agentCh) \cup {Head(flowCh)}
      BY <1>1, <1>3, <1>4, Ranges
    <3> QED BY <1>1, <1>2, <2>4, <3>1, <3>2 DEF LineOrder
  <2> QED BY <2>1, <2>2, <2>3, <2>4 DEF LineOrder
<1>11. AwaitedLast'
  <2> SUFFICES ASSUME fpc \in {"add", "wait"} PROVE AwaitedLast'
    BY <1>1 DEF AwaitedLast
  <2>1. ASSUME NEW i \in DOMAIN flowCh', flowCh'[i] = awaited
        PROVE  i = Len(flowCh')
    <3>1. i + 1 = Len(flowCh)
      BY <1>2, <1>4, <2>1 DEF AwaitedLast
    <3> QED BY <1>4, <3>1
  <2>2. ASSUME NEW i \in DOMAIN agentCh', agentCh'[i] = awaited
        PROVE  i = Len(agentCh') /\ flowCh' = <<>>
    <3>1. i = Len(agentCh') /\ flowCh[1] = awaited
      BY <1>1, <1>2, <1>5, <2>2 DEF AwaitedLast
    <3>2. Len(flowCh) = 1
      BY <1>2, <1>4, <3>1 DEF AwaitedLast
    <3>3. flowCh' = <<>>
      BY <1>4, <3>2
    <3> QED BY <3>1, <3>3
  <2>3. ~(lpc \in {"persist", "notify"} /\ cur = awaited)
    BY <1>1, <1>2 DEF AwaitedLast
  <2> QED BY <1>1, <2>1, <2>2, <2>3 DEF AwaitedLast
<1>12. Synced' /\ Leaving'
  <2>1. ~Quiet
    BY <1>1 DEF Quiet
  <2>2. Synced'
    BY <1>1, <1>2, <2>1 DEF Synced, Live, LoopRuns
  <2>3. Leaving'
    BY <1>1, <1>2 DEF Leaving, Stored, LoopRuns
  <2> QED BY <2>2, <2>3
<1> QED BY <1>7, <1>8, <1>9, <1>10, <1>11, <1>12 DEF IInv

LEMMA TakeEventKeeps ==
  ASSUME IInv, TakeEvent
  PROVE  IInv'
<1>1. /\ lpc \in {"select", "drain"} /\ lpc' = "persist" /\ agentCh # <<>>
      /\ cur' = Head(agentCh) /\ agentCh' = Tail(agentCh)
      /\ fpc' = fpc /\ round' = round /\ pending' = pending /\ ask' = ask
      /\ awaited' = awaited /\ woken' = woken /\ late' = late /\ flowCh' = flowCh
      /\ outCh' = outCh /\ closed' = closed /\ flushing' = flushing /\ notice' = notice
      /\ session' = session /\ failed' = failed /\ attached' = attached
      /\ ctx' = ctx /\ queue' = queue /\ qopen' = qopen
      /\ accepted' = accepted /\ discarded' = discarded /\ reading' = reading
  BY DEF TakeEvent, LoopOnly, stored
<1>2. /\ TypeOK /\ Places /\ Passage /\ Steering /\ LineOrder
      /\ StoredFirst /\ AwaitedLast /\ Synced /\ Leaving
  BY DEF IInv
<1>3. flowCh \in Seq(Events) /\ agentCh \in Seq(Events) /\ Len(agentCh) <= Cap /\ Cap \in Nat
  BY <1>2, RunAssumption DEF TypeOK, ChannelType
<1>4. /\ cur' \in Events /\ agentCh' \in Seq(Events) /\ Len(agentCh') = Len(agentCh) - 1
      /\ Len(agentCh) \in Nat /\ 1 \in DOMAIN agentCh /\ cur' = agentCh[1]
      /\ \A i \in DOMAIN agentCh' :
           i + 1 \in DOMAIN agentCh /\ agentCh'[i] = agentCh[i + 1] /\ 1 < i + 1
      /\ DOMAIN agentCh' = 1..Len(agentCh')
      /\ Range(agentCh)' \subseteq Range(agentCh) /\ cur' \in Range(agentCh)
      /\ \A x \in Range(agentCh)' : \E i \in DOMAIN agentCh : 1 < i /\ x = agentCh[i]
  BY <1>1, <1>3, Tails
<1>5. InTransit' \subseteq InTransit /\ cur' \in InTransit
  <2>1. InTransit = Range(flowCh) \cup Range(agentCh)
    BY <1>1 DEF InTransit
  <2>2. InTransit' = Range(flowCh) \cup Range(agentCh)' \cup {cur'}
    BY <1>1 DEF InTransit
  <2>3. Range(agentCh)' \subseteq Range(agentCh) /\ cur' \in Range(agentCh)
    BY <1>4
  <2> QED BY <2>1, <2>2, <2>3
<1>6. TypeOK'
  <2>1. FlowType'
    BY <1>1, <1>2 DEF TypeOK, FlowType, FlowPlaces
  <2>2. ChannelType'
    BY <1>1, <1>2, <1>3, <1>4 DEF TypeOK, ChannelType
  <2>3. LoopType'
    BY <1>1, <1>2, <1>4 DEF TypeOK, LoopType, LoopPlaces, Handling
  <2>4. QueueType'
    BY <1>1, <1>2 DEF TypeOK, QueueType
  <2>5. Switches'
    BY <1>1, <1>2 DEF TypeOK, Switches
  <2> QED BY <2>1, <2>2, <2>3, <2>4, <2>5 DEF TypeOK
<1>7. Places' /\ Steering'
  BY <1>1, <1>2 DEF Places, Steering, Unsaid
<1>8. Passage' /\ StoredFirst'
  <2>1. LoopRuns' = LoopRuns
    BY <1>1 DEF LoopRuns, Handling
  <2> QED BY <1>1, <1>2, <1>6, <1>5, <2>1, Moved
<1>9. LineOrder'
  <2>1. ASSUME NEW i \in DOMAIN agentCh', NEW j \in DOMAIN agentCh', i < j
        PROVE  T!Before(agentCh'[i], agentCh'[j])
    <3>1. i + 1 < j + 1
      BY <1>4, <2>1
    <3> QED BY <1>2, <1>4, <3>1 DEF LineOrder
  <2>2. ASSUME NEW i \in DOMAIN agentCh', NEW j \in DOMAIN flowCh
        PROVE  T!Before(agentCh'[i], flowCh[j])
    BY <1>2, <1>4 DEF LineOrder
  <2>3. ASSUME NEW x \in Range(agentCh)'
        PROVE  T!Before(cur', x)
    <3>1. PICK i \in DOMAIN agentCh : 1 < i /\ x = agentCh[i]
      BY <1>4
    <3>2. 1 \in DOMAIN agentCh /\ cur' = agentCh[1]
      BY <1>4
    <3> QED BY <1>2, <3>1, <3>2 DEF LineOrder
  <2>4. \A x \in Range(flowCh) : T!Before(cur', x)
    BY <1>2, <1>4 DEF LineOrder, Range
  <2>5. \A i, j \in DOMAIN flowCh : i < j => T!Before(flowCh[i], flowCh[j])
    BY <1>2 DEF LineOrder
  <2>6. Range(flowCh)' = Range(flowCh)
    BY <1>1
  <2> QED BY <1>1, <2>1, <2>2, <2>3, <2>4, <2>5, <2>6 DEF LineOrder
<1>10. AwaitedLast'
  <2> SUFFICES ASSUME fpc \in {"add", "wait"} PROVE AwaitedLast'
    BY <1>1 DEF AwaitedLast
  <2>1. \A i \in DOMAIN flowCh : flowCh[i] = awaited => i = Len(flowCh)
    BY <1>2 DEF AwaitedLast
  <2>2. ASSUME NEW i \in DOMAIN agentCh', agentCh'[i] = awaited
        PROVE  i = Len(agentCh') /\ flowCh = <<>>
    <3>1. i + 1 = Len(agentCh) /\ flowCh = <<>>
      BY <1>2, <1>4, <2>2 DEF AwaitedLast
    <3> QED BY <1>4, <3>1
  <2>3. ASSUME cur' = awaited
        PROVE  agentCh' = <<>> /\ flowCh = <<>>
    <3>1. Len(agentCh) = 1 /\ flowCh = <<>>
      BY <1>2, <1>4, <2>3 DEF AwaitedLast
    <3>2. agentCh' = <<>>
      BY <1>4, <3>1
    <3> QED BY <3>1, <3>2
  <2> QED BY <1>1, <2>1, <2>2, <2>3 DEF AwaitedLast
<1>11. Synced' /\ Leaving'
  <2>1. ~Quiet
    BY <1>1 DEF Quiet
  <2>2. Synced'
    BY <1>1, <1>2, <2>1 DEF Synced, Live, LoopRuns, Handling
  <2>3. Leaving'
    BY <1>1, <1>2 DEF Leaving, Stored, LoopRuns, Handling
  <2> QED BY <2>2, <2>3
<1> QED BY <1>6, <1>7, <1>8, <1>9, <1>10, <1>11 DEF IInv

\* The queued messages come one by one, then the model or the end.
LEMMA SayKeeps ==
  ASSUME IInv, Say
  PROVE  IInv'
<1>1. /\ fpc = "say"
      /\ round' = round /\ ask' = ask /\ agentCh' = agentCh /\ outCh' = outCh
      /\ closed' = closed /\ lpc' = lpc /\ cur' = cur /\ flushing' = flushing
      /\ notice' = notice /\ session' = session /\ failed' = failed
      /\ attached' = attached /\ ctx' = ctx
      /\ queue' = queue /\ qopen' = qopen /\ accepted' = accepted
      /\ discarded' = discarded /\ reading' = reading
  BY DEF Say, FlowOnly
<1>2. /\ TypeOK /\ Places /\ Passage /\ Steering /\ LineOrder
      /\ StoredFirst /\ AwaitedLast /\ Synced /\ Leaving
  BY DEF IInv
<1>3. Reach = 2 /\ accepted \in Nat
  BY <1>1, <1>2, Typed DEF Reach
<1>4. CASE /\ fpc' \in {"model", "closing"} /\ flowCh' = flowCh /\ pending' = pending
           /\ awaited' = awaited /\ woken' = woken /\ late' = late
  <2>1. TypeOK'
    <3>1. FlowType'
      BY <1>1, <1>2, <1>4 DEF TypeOK, FlowType, FlowPlaces
    <3>2. ChannelType' /\ LoopType' /\ QueueType' /\ Switches'
      BY <1>1, <1>2, <1>4 DEF TypeOK, ChannelType, LoopType, QueueType, Switches
    <3> QED BY <3>1, <3>2 DEF TypeOK
  <2>2. Places' /\ Steering'
    BY <1>1, <1>2, <1>4 DEF Places, Steering, Unsaid
  <2>3. Reach <= Reach'
    BY <1>3, <1>4 DEF Reach
  <2>4. Noticed' = Noticed /\ Stored' = Stored /\ Unsaid' = Unsaid /\ LoopRuns' = LoopRuns
    BY <1>1, <1>4 DEF Noticed, Stored, Unsaid, LoopRuns
  <2>5. Passage' /\ LineOrder' /\ StoredFirst' /\ AwaitedLast'
    BY <1>1, <1>2, <1>3, <1>4, <2>1, <2>3, <2>4, NothingSent
  <2>6. Synced' /\ Leaving'
    BY <1>1, <1>2, <1>4, <2>4 DEF Synced, Quiet, Live, Leaving
  <2> QED BY <2>1, <2>2, <2>5, <2>6 DEF IInv
<1>5. CASE /\ pending # <<>> /\ Len(flowCh) <= Cap
           /\ flowCh' = Append(flowCh, Says(round, Head(pending)))
           /\ pending' = Tail(pending) /\ fpc' = "add"
           /\ awaited' = Says(round, Head(pending)) /\ woken' = FALSE /\ late' = late
  <2>1. PICK m : m = Head(pending)
    OBVIOUS
  <2>2. PICK e : e = Says(round, m)
    OBVIOUS
  <2>3. /\ pending \in Seq(Messages) /\ m \in Messages /\ pending' \in Seq(Messages)
        /\ 1 \in DOMAIN pending /\ m = pending[1]
        /\ \A i \in DOMAIN pending' :
             i + 1 \in DOMAIN pending /\ pending'[i] = pending[i + 1] /\ 1 < i + 1
        /\ DOMAIN pending' = 1..Len(pending')
        /\ Range(pending)' \subseteq Range(pending) /\ m \in Range(pending)
        /\ \A x \in Range(pending)' : \E i \in DOMAIN pending : 1 < i /\ x = pending[i]
    <3>1. pending \in Seq(Messages)
      BY <1>2 DEF TypeOK, FlowType
    <3> QED BY <1>5, <2>1, <3>1, Tails
  <2>4. Unsaid' \subseteq Unsaid /\ m \in Unsaid
    BY <1>1, <2>3 DEF Unsaid
  <2>5. m \in Nat /\ m # 0
    BY <2>3, RunAssumption DEF Messages
  <2>6. /\ e \in Awaited /\ e \in Events /\ e # NoEvent /\ e.round = round /\ e.text = m
        /\ e.kind = "message" /\ T!Stage(e.kind) = 2
    BY <1>2, <2>3, <2>2, EventFacts, Constructed, Stages DEF TypeOK, FlowType
  <2>7. TypeOK'
    <3>1. FlowType'
      BY <1>1, <1>2, <1>5, <2>3, <2>6, <2>1, <2>2 DEF TypeOK, FlowType, FlowPlaces
    <3>2. ChannelType'
      <4>1. flowCh \in Seq(Events)
        BY <1>2 DEF TypeOK, ChannelType
      <4>2. flowCh' \in Seq(Events) /\ Len(flowCh') <= Cap + 1
        BY <1>5, <2>6, <2>1, <2>2, <4>1, RunAssumption
      <4> QED BY <1>1, <1>2, <4>2 DEF TypeOK, ChannelType
    <3>3. LoopType' /\ QueueType' /\ Switches'
      BY <1>1, <1>2, <1>5 DEF TypeOK, LoopType, QueueType, Switches
    <3> QED BY <3>1, <3>2, <3>3 DEF TypeOK
  <2>8. Steering'
    <3>1. ASSUME NEW i \in DOMAIN pending', NEW j \in DOMAIN pending', i < j
          PROVE  pending'[i] < pending'[j]
      <4>1. i + 1 < j + 1
        BY <2>3, <3>1
      <4> QED BY <1>2, <2>3, <4>1 DEF Steering
    <3>2. \A i \in DOMAIN pending', j \in DOMAIN queue : pending'[i] < queue[j]
      BY <1>2, <2>3 DEF Steering
    <3> QED BY <1>1, <1>2, <2>4, <3>1, <3>2 DEF Steering
  <2>9. Places' /\ Reach' = 2
    BY <1>1, <1>2, <1>5, <2>6, <2>1, <2>2 DEF Places, Reach
  <2>10. Passed(e)'
    <3>1. \A t \in Range(pending)' : m < t
      BY <1>2, <2>3 DEF Steering
    <3>2. \A t \in Range(queue) : m < t
      BY <1>2, <2>3 DEF Steering, Range
    <3>3. m <= accepted /\ m \notin discarded
      BY <1>2, <2>4 DEF Steering
    <3>4. Said(m)'
      BY <1>1, <3>1, <3>2, <3>3 DEF Said, Unsaid
    <3> QED BY <1>1, <2>6, <2>9, <3>4 DEF Passed, Behind
  <2>11. /\ Passage' /\ LineOrder' /\ StoredFirst' /\ AwaitedLast'
         /\ notice'[awaited'] # "closed"
    <3>1. /\ e.kind = "message" /\ Reach = 2 /\ e.text \in Unsaid /\ Reach <= Reach'
          /\ flowCh' = Append(flowCh, e) /\ awaited' = e
      BY <1>3, <1>5, <2>4, <2>6, <2>9, <2>1, <2>2
    <3> QED BY <1>1, <1>2, <1>5, <2>4, <2>6, <2>7, <2>10, <3>1, NextSent
  <2>12. Synced' /\ Leaving'
    BY <1>1, <1>2, <1>5, <2>11 DEF Synced, Leaving, Stored, LoopRuns
  <2> QED BY <2>7, <2>8, <2>9, <2>11, <2>12 DEF IInv
<1> QED
  <2>1. \/ /\ fpc' \in {"model", "closing"} /\ flowCh' = flowCh /\ pending' = pending
           /\ awaited' = awaited /\ woken' = woken /\ late' = late
        \/ /\ pending # <<>> /\ Len(flowCh) <= Cap
           /\ flowCh' = Append(flowCh, Says(round, Head(pending)))
           /\ pending' = Tail(pending) /\ fpc' = "add"
           /\ awaited' = Says(round, Head(pending)) /\ woken' = FALSE /\ late' = late
    BY DEF Say, Send, Drop, Await, waiting
  <2> QED BY <1>4, <1>5, <2>1

\* The result goes the way of all events, or past the deadline right to the session.
LEMMA AnswerKeeps ==
  ASSUME IInv, Answer
  PROVE  IInv'
<1>1. /\ fpc = "answer" /\ fpc' \in {"add", "next"}
      /\ IF fpc' = "add" THEN awaited' = Result(round) /\ woken' = FALSE /\ late' = late
                         ELSE awaited' = awaited /\ woken' = woken /\ late' = late
      /\ round' = round /\ pending' = pending /\ ask' = ask /\ agentCh' = agentCh
      /\ outCh' = outCh /\ closed' = closed /\ lpc' = lpc /\ cur' = cur
      /\ flushing' = flushing /\ notice' = notice /\ failed' = failed
      /\ attached' = attached /\ ctx' = ctx
      /\ queue' = queue /\ qopen' = qopen /\ accepted' = accepted
      /\ discarded' = discarded /\ reading' = reading
  BY DEF Answer, FlowOnly, Await, waiting
<1>2. \/ Len(flowCh) <= Cap /\ flowCh' = Append(flowCh, Result(round)) /\ session' = session
      \/ flowCh' = flowCh /\ session' = session
      \/ /\ flowCh' = flowCh /\ session' = Append(session, Result(round))
         /\ ctx = "expired" /\ fpc' = "next"
  BY DEF Answer, Send, Drop, waiting
<1>3. /\ TypeOK /\ Places /\ Passage /\ Steering /\ LineOrder
      /\ StoredFirst /\ AwaitedLast /\ Synced /\ Leaving
  BY DEF IInv
<1>4. PICK e : e = Result(round)
  OBVIOUS
<1>5. /\ e \in Awaited /\ e \in Events /\ e # NoEvent /\ e.round = round /\ e.text = 0
      /\ e.kind = "result" /\ T!Stage(e.kind) = 4
  BY <1>3, <1>4, EventFacts, Constructed, Stages DEF TypeOK, FlowType
<1>6. TypeOK'
  <2>1. FlowType'
    BY <1>1, <1>3, <1>5, <1>4 DEF TypeOK, FlowType, FlowPlaces
  <2>2. flowCh \in Seq(Events) /\ session \in Seq(Events) /\ Len(flowCh) <= Cap + 1
    BY <1>3 DEF TypeOK, ChannelType, LoopType
  <2>3. flowCh' \in Seq(Events) /\ Len(flowCh') <= Cap + 1 /\ session' \in Seq(Events)
    <3>1. CASE Len(flowCh) <= Cap /\ flowCh' = Append(flowCh, e) /\ session' = session
      BY <1>5, <2>2, <3>1, RunAssumption
    <3>2. CASE flowCh' = flowCh /\ session' = session
      BY <2>2, <3>2
    <3>3. CASE flowCh' = flowCh /\ session' = Append(session, e)
      BY <1>5, <2>2, <3>3
    <3> QED BY <1>2, <1>4, <3>1, <3>2, <3>3
  <2>4. ChannelType'
    BY <1>1, <1>3, <2>3 DEF TypeOK, ChannelType
  <2>5. LoopType'
    BY <1>1, <1>3, <2>3 DEF TypeOK, LoopType
  <2>6. QueueType' /\ Switches'
    BY <1>1, <1>3 DEF TypeOK, QueueType, Switches
  <2> QED BY <2>1, <2>4, <2>5, <2>6 DEF TypeOK
<1>7. Places' /\ Steering'
  BY <1>1, <1>3, <1>5, <1>4 DEF Places, Steering, Unsaid
<1>8. Reach = 3 /\ Reach' = 4 /\ Unsaid' = Unsaid /\ Noticed' = Noticed /\ LoopRuns' = LoopRuns
  BY <1>1, <1>5, <1>4 DEF Reach, Unsaid, Noticed, LoopRuns
<1>9. Passed(e)'
  BY <1>1, <1>5, <1>8 DEF Passed, Behind
<1>10. accepted \in Nat
  BY <1>3, Typed
<1>11. CASE session' = session
  <2>1. /\ Passage' /\ LineOrder' /\ StoredFirst' /\ AwaitedLast'
        /\ fpc' = "add" => notice'[awaited'] # "closed"
    <3>1. /\ T!Stage(e.kind) > Reach /\ e.text = 0 /\ Reach <= Reach'
          /\ flowCh' \in {flowCh, Append(flowCh, e)} /\ awaited' \in {awaited, e}
          /\ fpc' \in {"add", "wait"} => fpc' = "add" /\ awaited' = e
      BY <1>1, <1>2, <1>5, <1>8, <1>4
    <3> QED BY <1>1, <1>3, <1>5, <1>6, <1>8, <1>9, <1>11, <3>1, NextSent
  <2>2. Synced' /\ Leaving'
    BY <1>1, <1>3, <1>8, <1>11, <2>1 DEF Synced, Leaving, Stored
  <2> QED BY <1>6, <1>7, <2>1, <2>2 DEF IInv
<1>12. CASE /\ flowCh' = flowCh /\ session' = Append(session, e)
            /\ ctx = "expired" /\ fpc' = "next"
  <2>1. Stored' = Stored \cup {e}
    <3>1. session \in Seq(Events)
      BY <1>3, Typed
    <3> QED BY <1>1, <1>5, <1>12, <3>1, Ranges DEF Stored
  <2>2. InTransit' = InTransit /\ cur' = cur /\ awaited' = awaited
    BY <1>1, <1>12 DEF InTransit
  <2>3. Passage'
    BY <1>1, <1>3, <1>5, <1>6, <1>8, <1>9, <1>10, <2>1, <2>2, PassageKept
  <2>4. \A x \in InTransit : x # e
    <3>1. \A x \in InTransit : x \in Events /\ Passed(x)
      BY <1>3, Typed DEF Passage
    <3>2. T!Stage(e.kind) > Reach
      BY <1>5, <1>8
    <3> QED BY <1>3, <1>5, <3>1, <3>2, Ahead
  <2>5. StoredFirst'
    <3> SUFFICES ASSUME LoopRuns, NEW d \in Stored \cup {e}, NEW x \in InTransit
                 PROVE  Early(d, x)'
      BY <1>8, <2>1, <2>2 DEF StoredFirst
    <3>1. CASE d \in Stored
      BY <1>1, <1>3, <3>1 DEF StoredFirst, Early
    <3>2. CASE d = e
      BY <1>1, <1>5, <1>12, <2>4, <3>2 DEF Early
    <3> QED BY <3>1, <3>2
  <2>6. LineOrder' /\ AwaitedLast'
    BY <1>1, <1>3, <1>12 DEF LineOrder, AwaitedLast
  <2>7. e # Done
    BY <1>5, Constructed
  <2>8. Synced' /\ Leaving'
    BY <1>1, <1>3, <1>8, <1>12, <2>1, <2>7 DEF Synced, Leaving
  <2> QED BY <1>6, <1>7, <2>3, <2>5, <2>6, <2>8 DEF IInv
<1> QED BY <1>2, <1>11, <1>12, <1>4

--------------------------------------------------------------------------------
(* The invariant is inductive.                                             *)

LEMMA InitIInv ==
  Init => IInv
<1> SUFFICES ASSUME Init PROVE IInv
  OBVIOUS
<1>1. TypeOK
  <2>1. <<>> \in Seq(Events) /\ <<>> \in Seq(Messages) /\ Len(<<>>) = 0
    OBVIOUS
  <2>2. FlowType /\ ChannelType
    BY <2>1, RunAssumption DEF Init, FlowType, FlowPlaces, ChannelType, Rounds
  <2>3. LoopType
    BY <2>1 DEF Init, LoopType, LoopPlaces, Handling
  <2>4. QueueType
    BY <2>1, RunAssumption DEF Init, QueueType
  <2>5. Switches
    BY DEF Init, Switches
  <2> QED BY <2>2, <2>3, <2>4, <2>5 DEF TypeOK
<1>2. InTransit = {} /\ Noticed = {} /\ Stored = {} /\ Unsaid = {}
  BY DEF Init, InTransit, Noticed, Stored, Unsaid, Range
<1>3. Passed(NoEvent)
  BY Constructed DEF Init, Passed, Behind
<1>4. Places
  BY Constructed DEF Init, Places
<1>5. Passage /\ StoredFirst
  BY <1>2, <1>3 DEF Init, Passage, StoredFirst
<1>6. Steering
  BY <1>2 DEF Init, Steering
<1>7. LineOrder /\ AwaitedLast /\ Synced
  BY DEF Init, LineOrder, AwaitedLast, Synced, LoopRuns, Quiet
<1>8. Leaving
  BY <1>2 DEF Init, Leaving
<1> QED BY <1>1, <1>4, <1>5, <1>6, <1>7, <1>8 DEF IInv

LEMMA StepIInv ==
  IInv /\ [Next]_vars => IInv'
<1> SUFFICES ASSUME IInv, [Next]_vars PROVE IInv'
  OBVIOUS
<1>1. CASE FlowStep
  <2>1. CASE EmitStart
    BY <2>1, EmitStartKeeps
  <2>2. CASE AddNotice
    BY <2>2, AddNoticeKeeps
  <2>3. CASE Woken
    BY <2>3, WokenKeeps
  <2>4. CASE WaitEndsWithContext
    BY <2>4, WaitEndsWithContextKeeps
  <2>5. CASE Drain
    BY <2>5, DrainKeeps
  <2>6. CASE Say
    BY <2>6, SayKeeps
  <2>7. CASE ModelAnswers
    BY <2>7, ModelAnswersKeeps
  <2>8. CASE StepFails
    BY <2>8, StepFailsKeeps
  <2>9. CASE StepPanics
    BY <2>9, StepPanicsKeeps
  <2>10. CASE ToolFlushes
    BY <2>10, ToolFlushesKeeps
  <2>11. CASE FlushGivesUp
    BY <2>11, FlushGivesUpKeeps
  <2>12. CASE ToolsReturn
    BY <2>12, ToolsReturnKeeps
  <2>13. CASE Answer
    BY <2>13, AnswerKeeps
  <2>14. CASE Complain
    BY <2>14, ComplainKeeps
  <2>15. CASE NextRound
    BY <2>15, NextRoundKeeps
  <2>16. CASE StepEnds
    BY <2>16, StepEndsKeeps
  <2>17. CASE Fail
    BY <2>17, FailKeeps
  <2>18. CASE CloseFlow
    BY <2>18, CloseFlowKeeps
  <2> QED BY <1>1, <2>1, <2>2, <2>3, <2>4, <2>5, <2>6, <2>7, <2>8, <2>9, <2>10, <2>11, <2>12, <2>13, <2>14, <2>15, <2>16, <2>17, <2>18 DEF FlowStep
<1>2. CASE ForwarderStep
  BY <1>2, ForwardKeeps, CloseAgentKeeps DEF ForwarderStep
<1>3. CASE LoopStep
  <2>1. CASE TakeEvent
    BY <2>1, TakeEventKeeps
  <2>2. CASE TakeFlush
    BY <2>2, TakeFlushKeeps
  <2>3. CASE FlushEnds
    BY <2>3, FlushEndsKeeps
  <2>4. CASE LoopEnds
    BY <2>4, LoopEndsKeeps
  <2>5. CASE Persist
    BY <2>5, PersistKeeps
  <2>6. CASE PersistPanics
    BY <2>6, PersistPanicsKeeps
  <2>7. CASE Notify
    BY <2>7, NotifyKeeps
  <2>8. CASE Emit
    BY <2>8, EmitKeeps
  <2>9. CASE EmitFails
    BY <2>9, EmitFailsKeeps
  <2>10. CASE Complete
    BY <2>10, CompleteKeeps
  <2>11. CASE Announce
    BY <2>11, AnnounceKeeps
  <2>12. CASE Withdraw
    BY <2>12, WithdrawKeeps
  <2>13. CASE CloseOut
    BY <2>13, CloseOutKeeps
  <2>14. CASE Cleanup
    BY <2>14, CleanupKeeps
  <2>15. CASE CancelRun
    BY <2>15, CancelRunKeeps
  <2> QED BY <1>3, <2>1, <2>2, <2>3, <2>4, <2>5, <2>6, <2>7, <2>8, <2>9, <2>10, <2>11, <2>12, <2>13, <2>14, <2>15 DEF LoopStep
<1>4. CASE TimesOut
  BY <1>4, TimesOutKeeps
<1>5. CASE Enqueue \/ Discard \/ ContextEnds
  BY <1>5, EnqueueKeeps, DiscardKeeps, ContextEndsKeeps
<1>6. CASE Read \/ StopReading
  BY <1>6, ReadKeeps, StopReadingKeeps
<1>7. CASE UNCHANGED vars
  <2>1. /\ fpc' = fpc /\ round' = round /\ pending' = pending /\ ask' = ask
        /\ awaited' = awaited /\ woken' = woken /\ late' = late /\ flowCh' = flowCh
        /\ agentCh' = agentCh /\ outCh' = outCh /\ closed' = closed /\ lpc' = lpc
        /\ cur' = cur /\ flushing' = flushing /\ notice' = notice /\ session' = session
        /\ failed' = failed /\ attached' = attached
        /\ ctx' = ctx /\ queue' = queue /\ qopen' = qopen /\ accepted' = accepted
        /\ discarded' = discarded /\ reading' = reading
    BY <1>7 DEF vars, flowing, waiting, channels, looping, stored, steering, shared
  <2>2. TypeOK'
    BY <2>1 DEF IInv, TypeOK, FlowType, ChannelType, LoopType, QueueType, Switches
  <2>3. InTransit' = InTransit /\ Noticed' = Noticed /\ Stored' = Stored /\ Unsaid' = Unsaid
    BY <2>1 DEF InTransit, Noticed, Stored, Unsaid
  <2>4. LoopRuns' = LoopRuns /\ Reach' = Reach
    BY <2>1 DEF LoopRuns, Reach, Live
  <2>5. Passage'
    BY <2>1, <2>3, <2>4 DEF IInv, Passage, Passed, Behind, Said
  <2>6. Places' /\ Steering' /\ LineOrder'
    BY <2>1, <2>3 DEF IInv, Places, Steering, LineOrder
  <2>7. StoredFirst' /\ AwaitedLast'
    BY <2>1, <2>3, <2>4 DEF IInv, StoredFirst, AwaitedLast, Early
  <2>8. Synced' /\ Leaving'
    BY <2>1, <2>3, <2>4 DEF IInv, Synced, Quiet, Live, Leaving
  <2> QED BY <2>2, <2>5, <2>6, <2>7, <2>8 DEF IInv
<1> QED BY <1>1, <1>2, <1>3, <1>4, <1>5, <1>6, <1>7 DEF Next

\* The invariant holds in every state of every run.
THEOREM Inductive == Spec => []IInv
BY InitIInv, StepIInv, PTL DEF Spec

\* For any capacity of the channels: types, bounds, and the loop has an event in hand
\* exactly while handleEventPersistence, NotifyCompletion and the emission handle it.
THEOREM TypeCorrect == Spec => []TypeOK
<1>1. IInv => TypeOK
  BY DEF IInv
<1> QED BY <1>1, Inductive, PTL

\* emitStartEventAndWait: however the flow, the forwarder and the loop interleave, a
\* step that no timeout and no cancel let pass builds its request on a session to which
\* the append of every earlier event was tried.
THEOREM HistoryTheorem == Spec => []StepSeesHistory
<1>1. IInv => StepSeesHistory
  BY DEF IInv, Synced, Quiet, StepSeesHistory, InTransit, Range
<1> QED BY <1>1, Inductive, PTL

--------------------------------------------------------------------------------
(* The run implements Transcript.                                          *)

LEMMA StoredIsRange == T!Stored = Range(session)
BY DEF T!Stored, Range

\* The event the loop is about to append may be appended.
LEMMA InHand ==
  ASSUME IInv, lpc = "persist"
  PROVE  cur \in Events /\ T!Acceptable(cur)
<1>1. TypeOK /\ Passage /\ StoredFirst /\ Leaving
  BY DEF IInv
<1>2. cur \in Events /\ cur \in InTransit /\ LoopRuns
  BY <1>1 DEF TypeOK, LoopType, Handling, InTransit, LoopRuns
<1>3. "out" \notin closed
  BY <1>1 DEF Leaving
<1>4. \A d \in Stored : Early(d, cur)
  BY <1>1, <1>2 DEF StoredFirst
<1>5. ~T!Before(cur, cur)
  <2>1. cur.round \in Nat /\ cur.text \in Nat /\ T!Stage(cur.kind) \in 1..4
    BY <1>2, EventFacts
  <2>2. cur.kind = "message" => cur.text # 0
    BY <1>2, EventFacts
  <2> QED BY <2>1, <2>2 DEF T!Before
<1>6. cur \notin Stored
  BY <1>4, <1>5 DEF Early
<1>7. cur.kind = "message" => cur.text <= accepted /\ cur.text \notin discarded
  BY <1>1, <1>2, EventFacts DEF Passage, Passed, Said
<1> QED BY <1>2, <1>3, <1>4, <1>6, <1>7, StoredIsRange DEF T!Acceptable, Stored, Early

\* So may the completion, after all the rest.
LEMMA DoneLast ==
  ASSUME IInv, lpc = "exit"
  PROVE  T!Acceptable(Done)
<1>1. TypeOK /\ Passage /\ Leaving
  BY DEF IInv
<1>2. "out" \notin closed /\ Done \notin Stored
  BY <1>1 DEF Leaving
<1>3. ASSUME NEW d \in Stored PROVE T!Before(d, Done)
  <2>1. Passed(d)
    BY <1>1, <1>2, <1>3 DEF Passage
  <2>2. round \in Nat /\ round <= MaxRounds /\ MaxRounds \in Nat
    BY <1>1, RunAssumption DEF TypeOK, FlowType, Rounds
  <2>3. d.round \in Nat
    BY <1>1, <1>3, Typed, EventFacts
  <2> QED BY <2>1, <2>2, <2>3, Constructed DEF Passed, Behind, T!Before
<1> QED BY <1>2, <1>3, StoredIsRange, Constructed DEF T!Acceptable, Stored

\* Most steps of the run leave the transcript alone.
LEMMA Stutters ==
  ASSUME session' = session, failed' = failed, accepted' = accepted,
         discarded' = discarded, ctx' = ctx, ("out" \in closed') = ("out" \in closed)
  PROVE  UNCHANGED T!vars
BY DEF T!vars

LEMMA AnswerRefines ==
  ASSUME IInv, Answer
  PROVE  T!Next \/ UNCHANGED T!vars
<1>1. failed' = failed /\ accepted' = accepted /\ discarded' = discarded /\ ctx' = ctx
      /\ closed' = closed /\ fpc = "answer"
  BY DEF Answer, FlowOnly
<1>2. CASE session' = session
  BY <1>1, <1>2, Stutters
<1>3. CASE ctx = "expired" /\ session' = Append(session, Result(round))
  <2>1. TypeOK /\ Passage
    BY DEF IInv
  <2>2. PICK e : e = Result(round)
    OBVIOUS
  <2>3. /\ e \in Events /\ e.round = round /\ e.text = 0 /\ e.kind = "result"
        /\ T!Stage(e.kind) = 4
    BY <2>1, <2>2, EventFacts, Constructed, Stages DEF TypeOK, FlowType
  <2>4. Reach = 3
    BY <1>1 DEF Reach
  <2>5. ASSUME NEW d \in Stored PROVE d # e
    <3>1. CASE d = Done
      BY <2>3, <3>1, Constructed
    <3>2. CASE Passed(d)
      <4>1. d \in Events /\ T!Stage(e.kind) > Reach
        BY <2>1, <2>3, <2>4, <2>5, Typed
      <4> QED BY <2>1, <2>3, <3>2, <4>1, Ahead
    <3> QED BY <2>1, <2>5, <3>1, <3>2 DEF Passage
  <2>6. e \notin T!Stored
    BY <2>5, StoredIsRange DEF Stored
  <2>7. T!Store(e)
    BY <1>1, <1>3, <2>2, <2>3, <2>6 DEF T!Store
  <2> QED BY <2>3, <2>7 DEF T!Next
<1> QED BY <1>2, <1>3 DEF Answer

LEMMA FlowRefines ==
  ASSUME IInv, FlowStep \/ TimesOut
  PROVE  T!Next \/ UNCHANGED T!vars
<1>1. CASE Answer
  BY <1>1, AnswerRefines
<1>2. CASE CloseFlow
  BY <1>2, Stutters DEF CloseFlow, FlowOnly
<1>3. CASE EmitStart \/ AddNotice \/ Woken \/ WaitEndsWithContext \/ Drain
  BY <1>3, Stutters DEF EmitStart, AddNotice, Woken, WaitEndsWithContext, Drain, FlowOnly
<1>4. CASE Say \/ ModelAnswers \/ StepFails \/ StepPanics \/ ToolFlushes
  BY <1>4, Stutters DEF Say, ModelAnswers, StepFails, StepPanics, ToolFlushes, FlowOnly
<1>5. CASE FlushGivesUp \/ ToolsReturn \/ Complain \/ NextRound \/ StepEnds \/ Fail \/ TimesOut
  BY <1>5, Stutters DEF FlushGivesUp, ToolsReturn, Complain, NextRound, StepEnds, Fail, TimesOut, FlowOnly
<1> QED BY <1>1, <1>2, <1>3, <1>4, <1>5 DEF FlowStep

LEMMA LoopRefines ==
  ASSUME IInv, LoopStep
  PROVE  T!Next \/ UNCHANGED T!vars
<1>1. CASE Persist
  <2>1. cur \in Events /\ T!Acceptable(cur)
    BY <1>1, InHand DEF Persist
  <2>2. /\ accepted' = accepted /\ discarded' = discarded /\ ctx' = ctx /\ closed' = closed
        /\ \/ session' = Append(session, cur) /\ failed' = failed
           \/ session' = session /\ failed' = failed
           \/ session' = session /\ failed' = failed \cup {cur}
    BY <1>1 DEF Persist, LoopOnly, stored
  <2>3. CASE session' = Append(session, cur) /\ failed' = failed
    BY <2>1, <2>2, <2>3 DEF T!Store, T!Next
  <2>4. CASE session' = session /\ failed' = failed
    BY <2>2, <2>4, Stutters
  <2>5. CASE session' = session /\ failed' = failed \cup {cur}
    BY <2>1, <2>2, <2>5 DEF T!Lose, T!Next
  <2> QED BY <2>2, <2>3, <2>4, <2>5
<1>2. CASE PersistPanics
  <2>1. cur \in Events /\ T!Acceptable(cur)
    BY <1>2, InHand DEF PersistPanics
  <2> QED BY <1>2, <2>1 DEF PersistPanics, LoopOnly, T!Lose, T!Next
<1>3. CASE Complete
  <2>1. T!Acceptable(Done) /\ Done \in Events
    BY <1>3, DoneLast, EventFacts DEF Complete
  <2>2. /\ accepted' = accepted /\ discarded' = discarded /\ ctx' = ctx /\ closed' = closed
        /\ \/ session' = Append(session, Done) /\ failed' = failed
           \/ session' = session /\ failed' = failed \cup {Done}
    BY <1>3 DEF Complete, LoopOnly
  <2>3. CASE session' = Append(session, Done) /\ failed' = failed
    BY <2>1, <2>2, <2>3 DEF T!Store, T!Next
  <2>4. CASE session' = session /\ failed' = failed \cup {Done}
    BY <2>1, <2>2, <2>4 DEF T!Lose, T!Next
  <2> QED BY <2>2, <2>3, <2>4
<1>4. CASE CloseOut
  <2>1. Done \in Stored
    BY <1>4 DEF CloseOut, IInv, Leaving
  <2>2. \E e \in T!Stored \cup failed : e.kind = "done"
    BY <2>1, StoredIsRange, Constructed DEF Stored
  <2> QED BY <1>4, <2>2 DEF CloseOut, LoopOnly, stored, T!End, T!Next
<1>5. CASE CancelRun
  BY <1>5 DEF CancelRun, LoopOnly, stored, Live, T!vars
<1>6. CASE TakeEvent \/ TakeFlush \/ FlushEnds \/ LoopEnds \/ Notify
  BY <1>6, Stutters DEF TakeEvent, TakeFlush, FlushEnds, LoopEnds, Notify,
     LoopOnly, stored
<1>7. CASE Emit \/ EmitFails \/ Announce \/ Withdraw \/ Cleanup
  BY <1>7, Stutters DEF Emit, EmitFails, Announce, Withdraw, Cleanup,
     LoopOnly, stored
<1> QED BY <1>1, <1>2, <1>3, <1>4, <1>5, <1>6, <1>7 DEF LoopStep

LEMMA DiscardRefines ==
  ASSUME IInv, Discard
  PROVE  T!Discard
<1>1. /\ TypeOK /\ Passage /\ Steering
  BY DEF IInv
<1>2. /\ discarded' = discarded \cup Range(queue)
      /\ session' = session /\ failed' = failed /\ accepted' = accepted /\ ctx' = ctx
      /\ closed' = closed
  BY DEF Discard, UserOnly, stored
<1>3. queue \in Seq(Messages) /\ discarded \subseteq Messages /\ accepted \in Nat
  BY <1>1, RunAssumption DEF TypeOK, QueueType
<1>4. Range(queue) \subseteq Messages /\ Range(queue) \subseteq Unsaid
  BY <1>3 DEF Range, Unsaid
<1>5. discarded' \subseteq Messages /\ \A t \in discarded' : t <= accepted
  BY <1>1, <1>2, <1>3, <1>4 DEF Steering
<1>6. Messages \subseteq Nat /\ \A t \in Messages : 1 <= t
  BY RunAssumption DEF Messages
<1>7. discarded' \subseteq 1..accepted
  BY <1>3, <1>5, <1>6
<1>8. ASSUME NEW e \in Stored PROVE e.text \notin discarded'
  <2>1. e \in Events
    BY <1>1, <1>8, Typed
  <2>2. CASE e.text = 0
    BY <1>5, <1>6, <2>2
  <2>3. CASE e.text # 0
    <3>1. e # Done
      BY <2>3, Constructed
    <3>2. Said(e.text)
      BY <1>1, <1>8, <2>3, <3>1 DEF Passage, Passed
    <3>3. e.text \in Nat
      BY <2>1, EventFacts
    <3> QED BY <1>2, <1>4, <3>2, <3>3 DEF Said
  <2> QED BY <2>2, <2>3
<1> QED BY <1>2, <1>7, <1>8, StoredIsRange DEF T!Discard, Stored

LEMMA UserRefines ==
  ASSUME IInv, Enqueue \/ Discard \/ ContextEnds \/ Read \/ StopReading \/ ForwarderStep
  PROVE  T!Next \/ UNCHANGED T!vars
<1>1. CASE Enqueue
  <2>1. "out" \notin closed
    BY <1>1 DEF IInv, Leaving, Enqueue
  <2> QED BY <1>1, <2>1 DEF Enqueue, UserOnly, stored, T!Accept, T!Next
<1>2. CASE Discard
  BY <1>2, DiscardRefines DEF T!Next
<1>3. CASE ContextEnds
  <2>1. /\ session' = session /\ failed' = failed /\ accepted' = accepted
        /\ discarded' = discarded /\ closed' = closed
        /\ ctx = "live" /\ ctx' \in {"canceled", "expired"}
    BY <1>3 DEF ContextEnds, UserOnly, stored, steering, Live
  <2>2. CASE ctx' = "canceled"
    BY <2>1, <2>2 DEF T!vars
  <2>3. CASE ctx' = "expired"
    BY <2>1, <2>3 DEF T!Expire, T!Next
  <2> QED BY <2>1, <2>2, <2>3
<1>4. CASE Read \/ StopReading
  BY <1>4, Stutters DEF Read, StopReading, UserOnly, stored, steering
<1>5. CASE ForwarderStep
  BY <1>5, Stutters DEF ForwarderStep, Forward, CloseAgent, ForwarderOnly, stored, steering,
     shared
<1> QED BY <1>1, <1>2, <1>3, <1>4, <1>5

LEMMA StepRefines ==
  IInv /\ [Next]_vars => [T!Next]_T!vars
<1> SUFFICES ASSUME IInv, [Next]_vars PROVE T!Next \/ UNCHANGED T!vars
  OBVIOUS
<1>1. CASE FlowStep \/ TimesOut
  BY <1>1, FlowRefines
<1>2. CASE LoopStep
  BY <1>2, LoopRefines
<1>3. CASE Enqueue \/ Discard \/ ContextEnds \/ Read \/ StopReading \/ ForwarderStep
  BY <1>3, UserRefines
<1>4. CASE UNCHANGED vars
  BY <1>4, Stutters DEF vars, stored, steering, shared, channels
<1> QED BY <1>1, <1>2, <1>3, <1>4 DEF Next

\* Whatever the run does, with any number of rounds, messages, failed appends and ends of
\* its context, the session it leaves is a transcript: nothing twice or out of order, no
\* message that was discarded, and the completion at the end.
THEOREM Implements == Spec => ImplementsTranscript
<1>1. Init => T!Init
  BY DEF Init, T!Init
<1> QED BY <1>1, StepRefines, Inductive, PTL DEF Spec, ImplementsTranscript, T!Spec
=================================================================================
