------------------------------ MODULE HedgeProofs ------------------------------
(***************************************************************************)
(* Proofs about Hedge, for any number of candidates and any streams.       *)
(***************************************************************************)
EXTENDS Hedge, FiniteSetTheorems, TLAPS

(* The inductive invariant. *)

TypeInv ==
  /\ pc \in {"begin", "drain", "launch", "drainAgain", "wait", "done"}
  /\ winner \in 0..N /\ active \in Int /\ failures \in Seq(Candidates)
  /\ next \in 1..(N + 1) /\ due \in Candidates /\ now \in Candidates
  /\ events \in Seq(Events) /\ Len(events) <= N
  /\ attempt \in [Candidates -> Attempts]
  /\ box \in [Candidates -> Events \cup {NoEvent}]
  /\ said \in [Candidates -> Seq(Kinds)]
  /\ canceled \subseteq Candidates /\ stopped \in BOOLEAN
  /\ heard \in Seq(Candidates \X Nat) /\ verdict \in Verdicts

\* Candidates are launched in order; one that could not start is a failure.
Launches ==
  /\ \A i \in Candidates : (attempt[i] = "idle") <=> (next <= i)
  /\ (pc = "begin") <=> (next = 1)
  /\ \A i \in Candidates : attempt[i] = "unstarted" => i \in Failed
  /\ \A i \in Candidates : ~Launched(i) => said[i] = <<>>
  /\ now <= due

\* A goroutine that sends holds its own last chunk, or how its stream ended.
BoxOf(i) ==
  /\ (attempt[i] = "sending") <=> (box[i] # NoEvent)
  /\ attempt[i] = "sending" => box[i].from = i
  /\ box[i].kind \in Kinds =>
       Len(said[i]) # 0 /\ box[i].at = Len(said[i]) /\ said[i][Len(said[i])] = box[i].kind
  /\ box[i].kind = "finished" => Says(i, "content")
Boxes == \A i \in Candidates : BoxOf(i)

\* What is in the channel was said, and comes from a candidate that has not failed.
Truthful(e) ==
  /\ Launched(e.from) /\ e.from \notin Failed
  /\ e.kind \in Kinds => /\ e.at \in DOMAIN said[e.from] /\ said[e.from][e.at] = e.kind
                         /\ box[e.from].kind \in Kinds => e.at < Len(said[e.from])
  /\ e.kind \in Terminal => attempt[e.from] = "gone"
  /\ e.kind = "finished" => Says(e.from, "content")
Channel == \A k \in DOMAIN events : Truthful(events[k])

\* The events of one candidate are in the order of its stream, its end the last.
Order ==
  \A k, l \in DOMAIN events : k < l /\ events[k].from = events[l].from =>
    /\ events[k].kind \in Kinds
    /\ events[l].kind \in Kinds => events[k].at < events[l].at

\* Failures are recorded once, and a failed candidate does nothing more.
Failures ==
  /\ \A k, l \in DOMAIN failures : failures[k] = failures[l] => k = l
  /\ \A i \in Failed : attempt[i] \in {"gone", "unstarted"}

InFlight(i, m) == \E k \in DOMAIN events :
  events[k].from = i /\ events[k].kind \in Kinds /\ events[k].at = m

\* Chunk m of i is still to be read, or is the last one and its send was given up.
Unread(i, m) ==
  \/ InFlight(i, m)
  \/ box[i].kind \in Kinds /\ m = Len(said[i])
  \/ attempt[i] = "gone" /\ i \notin Reported /\ m = Len(said[i])

\* The chunks after one that is in the channel are still to be read as well.
Follows ==
  \A i \in Candidates : \A m \in DOMAIN said[i] : \A k \in DOMAIN events :
    events[k].from = i /\ events[k].kind \in Kinds /\ m > events[k].at => Unread(i, m)

\* The position of the chunk heard last.
Position == heard[Len(heard)][2]

\* Without a winner no meaningful chunk has been read.
Race ==
  winner = 0 => \A i \in Candidates : \A m \in DOMAIN said[i] :
                  said[i][m] = "content" => Unread(i, m)

\* With a winner the chunks after the one heard last are still to be read.
Rest ==
  winner # 0 =>
    /\ Position \in DOMAIN said[winner]
    /\ \A m \in DOMAIN said[winner] : m > Position => Unread(winner, m)
    /\ \A k \in DOMAIN events :
         events[k].from = winner /\ events[k].kind \in Kinds => events[k].at > Position
    /\ box[winner].kind \in Kinds => Len(said[winner]) > Position

Voice ==
  /\ (winner = 0) <=> (heard = <<>>)
  /\ winner = 0 => canceled = {}
  /\ winner # 0 => Launched(winner) /\ heard[Len(heard)][1] = winner

Outcome ==
  /\ (pc = "done") <=> (verdict # "open")
  /\ pc = "done" => stopped
  /\ verdict # "silent"
  /\ verdict = "failed" => winner = 0 /\ Failed = Candidates
  /\ verdict = "answered" => /\ winner # 0 /\ attempt[winner] = "gone"
                             /\ Position = Len(said[winner])

Counting ==
  /\ active \in 0..N
  /\ winner = 0 => active = Cardinality(Pending)

Alive == winner = 0 /\ ~stopped => Pending \subseteq Working \cup Reported

IInv == /\ TypeInv /\ Launches /\ Boxes /\ Channel /\ Order /\ Failures
        /\ Follows /\ Race /\ Rest /\ Voice /\ Outcome /\ Counting /\ Alive

--------------------------------------------------------------------------------
(* Preservation: the steps of a candidate's goroutine.                     *)

LEMMA NoEventKind == /\ NoEvent.kind = "none" /\ NoEvent \notin Events
                     /\ \A e \in Events : e.kind \in Kinds \cup Terminal
BY DEF NoEvent, Events, Kinds, Terminal

\* What is in the sequences: candidates among the failures, events in the channel.
LEMMA Elements ==
  ASSUME TypeInv
  PROVE  /\ Failed \subseteq Candidates
         /\ \A k \in DOMAIN events : /\ events[k] \in Events /\ events[k].from \in Candidates
                                     /\ events[k].kind \in Kinds \cup Terminal /\ events[k].at \in Nat
         /\ \A i \in Candidates : /\ Len(said[i]) \in Nat /\ DOMAIN said[i] = 1..Len(said[i])
                                 /\ said[i] \in Seq(Kinds)
         /\ DOMAIN events = 1..Len(events) /\ Len(events) \in Nat
         /\ DOMAIN failures = 1..Len(failures) /\ Len(failures) \in Nat
<1> USE DEF TypeInv
<1>1. Failed \subseteq Candidates
  BY DEF Failed
<1>2. \A k \in DOMAIN events : events[k] \in Events
  OBVIOUS
<1>3. QED BY <1>1, <1>2 DEF Events

LEMMA SayPreserves ==
  ASSUME IInv, NEW i \in Candidates, NEW k \in Kinds, Say(i, k)
  PROVE  IInv'
<1> USE DEF IInv
<1>1. /\ attempt[i] = "running"
      /\ said' = [said EXCEPT ![i] = Append(@, k)]
      /\ box' = [box EXCEPT ![i] = Event(i, k, Len(said[i]) + 1)]
      /\ attempt' = [attempt EXCEPT ![i] = "sending"]
      /\ UNCHANGED <<loopVars, due, events, stopped>>
  BY DEF Say
<1>2. /\ said[i] \in Seq(Kinds) /\ said'[i] = Append(said[i], k)
      /\ Len(said'[i]) = Len(said[i]) + 1
      /\ \A m \in 1..Len(said[i]) : said'[i][m] = said[i][m]
      /\ said'[i][Len(said[i]) + 1] = k
      /\ DOMAIN said[i] = 1..Len(said[i]) /\ DOMAIN said'[i] = 1..(Len(said[i]) + 1)
  BY <1>1 DEF TypeInv
<1>3. /\ attempt[i] = "running" /\ box[i] = NoEvent /\ box'[i] = Event(i, k, Len(said[i]) + 1) /\ attempt'[i] = "sending"
      /\ \A j \in Candidates \ {i} :
            attempt'[j] = attempt[j] /\ box'[j] = box[j] /\ said'[j] = said[j]
  BY <1>1 DEF TypeInv, Boxes, BoxOf
<1>4. /\ pc' = pc /\ winner' = winner /\ active' = active /\ failures' = failures
      /\ next' = next /\ now' = now /\ canceled' = canceled /\ heard' = heard
      /\ verdict' = verdict /\ due' = due /\ events' = events /\ stopped' = stopped
      /\ Failed' = Failed /\ Reported' = Reported
  BY <1>1 DEF loopVars, Failed, Reported
<1> HIDE DEF IInv
<1>0. /\ TypeInv /\ Launches /\ Boxes /\ Channel /\ Order /\ Failures /\ Race /\ Rest /\ Voice
      /\ Outcome /\ Counting /\ Alive /\ Follows
  BY DEF IInv
<1>5. TypeInv'
  <2>1. Event(i, k, Len(said[i]) + 1) \in Events
    BY <1>2 DEF Event, Events
  <2>2. "sending" \in Attempts
    BY DEF Attempts
  <2>3. Append(said[i], k) \in Seq(Kinds)
    BY <1>2
  <2>4. /\ attempt' \in [Candidates -> Attempts] /\ said' \in [Candidates -> Seq(Kinds)]
        /\ box' \in [Candidates -> Events \cup {NoEvent}]
    BY <1>0, <1>1, <2>1, <2>2, <2>3 DEF TypeInv
  <2>5. QED BY <1>0, <1>4, <2>4 DEF TypeInv
<1>6. Launches'
  <2>1. ASSUME NEW j \in Candidates
        PROVE  /\ (attempt'[j] = "idle") <=> (attempt[j] = "idle")
               /\ attempt'[j] = "unstarted" => attempt[j] = "unstarted"
               /\ ~Launched(j)' => (said'[j] = said[j] /\ ~Launched(j))
    <3>1. CASE j = i
      BY <1>3, <3>1 DEF Launched
    <3>2. CASE j # i
      BY <1>3, <3>2 DEF Launched
    <3>3. QED BY <3>1, <3>2
  <2>2. QED BY <2>1, <1>0, <1>4 DEF Launches, TypeInv
<1>7. Boxes'
  BY <1>0, <1>2, <1>3, NoEventKind DEF Boxes, BoxOf, Event, Kinds, Says, NoEvent
<1>8. Channel'
  <2> SUFFICES ASSUME NEW l \in DOMAIN events PROVE Truthful(events[l])'
    BY <1>4 DEF Channel
  <2>1. Truthful(events[l]) /\ events[l].from \in Candidates
    BY <1>0, Elements DEF Channel, IInv
  <2>2. CASE events[l].from # i
    BY <2>1, <2>2, <1>3, <1>4 DEF Truthful, Launched, Says
  <2>3. CASE events[l].from = i
    BY <2>1, <2>3, <1>1, <1>2, <1>3, <1>4 DEF Truthful, Launched, Says, Terminal, Event
  <2>4. QED BY <2>2, <2>3
<1>9. Order' /\ Failures'
  <2>1. Order'
    BY <1>0, <1>4 DEF Order
  <2>2. i \notin Failed
    BY <1>0, <1>1 DEF Failures
  <2>3. Failures'
    BY <2>2, <1>0, <1>3, <1>4, Elements DEF Failures, IInv
  <2>4. QED BY <2>1, <2>3
<1>10. ASSUME NEW j \in Candidates, NEW m \in 1..Len(said[j]), Unread(j, m) PROVE Unread(j, m)'
  <2>1. CASE InFlight(j, m)
    BY <2>1, <1>4 DEF Unread, InFlight
  <2>2. CASE j = i
    BY <1>0, <1>1, <1>3, <2>1, <2>2, <1>10, NoEventKind DEF Unread, Kinds
  <2>3. CASE j # i
    BY <1>3, <1>4, <1>10, <2>3 DEF Unread, InFlight
  <2>4. QED BY <2>2, <2>3
<1>11. ASSUME NEW m \in Nat, m = Len(said[i]) + 1 PROVE Unread(i, m)'
  <2>1. box'[i].kind \in Kinds /\ Len(said'[i]) = m
    BY <1>2, <1>3, <1>11 DEF Event
  <2>2. QED BY <2>1 DEF Unread
<1>12. Race'
  <2> SUFFICES ASSUME winner = 0, NEW j \in Candidates, NEW m \in DOMAIN said'[j],
                      said'[j][m] = "content"
               PROVE  Unread(j, m)'
    BY <1>4 DEF Race
  <2>0. DOMAIN said[j] = 1..Len(said[j]) /\ Len(said[j]) \in Nat
    BY <1>0, Elements
  <2>1. CASE j = i /\ m = Len(said[i]) + 1
    BY <2>0, <2>1, <1>11
  <2>2. CASE j # i \/ m # Len(said[i]) + 1
    <3>1. m \in 1..Len(said[j]) /\ said[j][m] = "content"
      <4>1. CASE j = i
        BY <4>1, <2>0, <2>2, <1>2
      <4>2. CASE j # i
        BY <4>2, <2>0, <2>2, <1>3
      <4>3. QED BY <4>1, <4>2
    <3>2. Unread(j, m)
      BY <3>1, <1>0, Elements DEF Race
    <3>3. QED BY <3>1, <3>2, <1>10
  <2>3. QED BY <2>1, <2>2
<1>14. Rest'
  <2> SUFFICES ASSUME winner # 0 PROVE Rest'
    BY <1>4 DEF Rest
  <2>1. Rest!2 /\ Position' = Position /\ winner \in Candidates
    BY <1>0, <1>4 DEF Rest, Position, TypeInv, Candidates
  <2>2. ASSUME NEW m \in DOMAIN said'[winner], m > Position PROVE Unread(winner, m)'
    <3>0. DOMAIN said[winner] = 1..Len(said[winner]) /\ Len(said[winner]) \in Nat
      BY <2>1, <1>0, Elements
    <3>1. CASE winner = i /\ m = Len(said[i]) + 1
      BY <3>0, <3>1, <1>11, <1>4
    <3>2. CASE winner # i \/ m # Len(said[i]) + 1
      <4>1. m \in 1..Len(said[winner])
        <5>1. CASE winner = i
          BY <5>1, <3>0, <2>2, <3>2, <1>2
        <5>2. CASE winner # i
          BY <5>2, <3>0, <2>1, <2>2, <1>3
        <5>3. QED BY <5>1, <5>2
      <4>2. Unread(winner, m)
        BY <4>1, <3>0, <2>1, <2>2
      <4>3. QED BY <4>1, <4>2, <2>1, <1>4, <1>10
    <3>3. QED BY <3>1, <3>2
  <2>3. Position \in DOMAIN said'[winner]
    BY <2>1, <1>0, <1>2, <1>3, Elements
  <2>4. box'[winner].kind \in Kinds => Len(said'[winner]) > Position
    BY <2>1, <1>0, <1>2, <1>3, Elements
  <2>5. QED BY <2>1, <2>2, <2>3, <2>4, <1>4 DEF Rest
<1>15. Voice' /\ Outcome'
  <2>1. \A j \in Candidates : (Launched(j) <=> Launched(j)') /\
                             (attempt[j] = "gone" => attempt'[j] = "gone" /\ said'[j] = said[j])
    BY <1>3 DEF Launched
  <2>2. winner # 0 => winner \in Candidates
    BY <1>0 DEF TypeInv, Candidates
  <2>3. Voice'
    BY <2>1, <2>2, <1>0, <1>4 DEF Voice
  <2>4. Outcome'
    BY <2>1, <2>2, <1>0, <1>4 DEF Outcome, Position
  <2>5. QED BY <2>3, <2>4
<1>13. Counting' /\ Alive'
  <2>1. Pending' = Pending /\ Working' = Working
    BY <1>1, <1>3, <1>4 DEF Pending, Working, Launched
  <2>2. QED BY <2>1, <1>0, <1>4 DEF Counting, Alive
<1>17. Follows'
  <2> SUFFICES ASSUME NEW j \in Candidates, NEW m \in DOMAIN said'[j], NEW l \in DOMAIN events,
                      events[l].from = j, events[l].kind \in Kinds, m > events[l].at
               PROVE  Unread(j, m)'
    BY <1>4 DEF Follows
  <2>0. DOMAIN said[j] = 1..Len(said[j]) /\ Len(said[j]) \in Nat
    BY <1>0, Elements
  <2>1. CASE j = i /\ m = Len(said[i]) + 1
    BY <2>0, <2>1, <1>11
  <2>2. CASE j # i \/ m # Len(said[i]) + 1
    <3>1. m \in 1..Len(said[j])
      <4>1. CASE j = i
        BY <4>1, <2>0, <2>2, <1>2
      <4>2. CASE j # i
        BY <4>2, <2>0, <2>2, <1>3
      <4>3. QED BY <4>1, <4>2
    <3>2. Unread(j, m)
      BY <3>1, <2>0, <1>0 DEF Follows
    <3>3. QED BY <3>1, <3>2, <1>10
  <2>3. QED BY <2>1, <2>2
<1>16. QED
  BY <1>5, <1>6, <1>7, <1>8, <1>9, <1>12, <1>13, <1>14, <1>15, <1>17 DEF IInv

\* A goroutine's step that says nothing and sends nothing.
LEMMA QuietStep ==
  ASSUME IInv, NEW i \in Candidates, NEW a \in {"sending", "ending", "gone"},
         NEW b \in Events \cup {NoEvent},
         attempt[i] \in {"running", "sending", "ending"},
         attempt' = [attempt EXCEPT ![i] = a], box' = [box EXCEPT ![i] = b],
         BoxOf(i)', b.kind \notin Kinds,
         box[i].kind \in Kinds => a = "gone",
         a = "gone" => Done(i),
         UNCHANGED <<loopVars, due, events, said, stopped>>
  PROVE  IInv'
<1>0. /\ TypeInv /\ Launches /\ Boxes /\ Channel /\ Order /\ Failures /\ Race /\ Rest /\ Voice
      /\ Outcome /\ Counting /\ Alive /\ Follows
  BY DEF IInv
<1>3. /\ attempt'[i] = a /\ box'[i] = b /\ said'[i] = said[i]
      /\ \A j \in Candidates \ {i} :
            attempt'[j] = attempt[j] /\ box'[j] = box[j] /\ said'[j] = said[j]
  BY <1>0 DEF TypeInv
<1>4. /\ pc' = pc /\ winner' = winner /\ active' = active /\ failures' = failures
      /\ next' = next /\ now' = now /\ canceled' = canceled /\ heard' = heard
      /\ verdict' = verdict /\ due' = due /\ events' = events /\ stopped' = stopped
      /\ said' = said /\ Failed' = Failed /\ Reported' = Reported
  BY DEF loopVars, Failed, Reported
<1>5. TypeInv'
  <2>1. a \in Attempts
    BY DEF Attempts
  <2>2. /\ attempt' \in [Candidates -> Attempts]
        /\ box' \in [Candidates -> Events \cup {NoEvent}]
    BY <1>0, <2>1 DEF TypeInv
  <2>3. QED BY <1>0, <1>4, <2>2 DEF TypeInv
<1>6. Launches'
  <2>1. ASSUME NEW j \in Candidates
        PROVE  /\ (attempt'[j] = "idle") <=> (attempt[j] = "idle")
               /\ attempt'[j] = "unstarted" => attempt[j] = "unstarted"
               /\ ~Launched(j)' => ~Launched(j)
    <3>1. CASE j = i
      BY <1>3, <3>1 DEF Launched
    <3>2. CASE j # i
      BY <1>3, <3>2 DEF Launched
    <3>3. QED BY <3>1, <3>2
  <2>2. QED BY <2>1, <1>0, <1>4 DEF Launches
<1>7. Boxes'
  <2> SUFFICES ASSUME NEW j \in Candidates PROVE BoxOf(j)'
    BY DEF Boxes
  <2>1. CASE j # i
    BY <2>1, <1>0, <1>3 DEF Boxes, BoxOf, Says
  <2>2. QED BY <2>1
<1>8. Channel'
  <2> SUFFICES ASSUME NEW l \in DOMAIN events PROVE Truthful(events[l])'
    BY <1>4 DEF Channel
  <2>1. Truthful(events[l]) /\ events[l].from \in Candidates
    BY <1>0, Elements DEF Channel
  <2>2. CASE events[l].from # i
    BY <2>1, <2>2, <1>3, <1>4 DEF Truthful, Launched, Says
  <2>3. CASE events[l].from = i
    BY <2>1, <2>3, <1>3, <1>4 DEF Truthful, Launched, Says
  <2>4. QED BY <2>2, <2>3
<1>9. Order' /\ Failures'
  <2>1. Order'
    BY <1>0, <1>4 DEF Order
  <2>2. i \notin Failed
    BY <1>0 DEF Failures
  <2>3. Failures'
    BY <2>2, <1>0, <1>3, <1>4, Elements DEF Failures
  <2>4. QED BY <2>1, <2>3
<1>10. ASSUME NEW j \in Candidates, NEW m \in 1..Len(said[j]), Unread(j, m) PROVE Unread(j, m)'
  <2>1. CASE InFlight(j, m)
    BY <2>1, <1>4 DEF Unread, InFlight
  <2>2. CASE j = i /\ ~InFlight(j, m)
    <3>1. i \notin Reported
      BY <1>0, Elements DEF Channel, Truthful, Reported
    <3>2. box[i].kind \in Kinds /\ m = Len(said[i]) /\ attempt'[i] = "gone"
      BY <2>2, <1>3, <1>10 DEF Unread
    <3>3. QED BY <2>2, <3>1, <3>2, <1>4 DEF Unread
  <2>3. CASE j # i
    BY <1>3, <1>4, <1>10, <2>3 DEF Unread, InFlight
  <2>4. QED BY <2>1, <2>2, <2>3
<1>12. Race'
  <2> SUFFICES ASSUME winner = 0, NEW j \in Candidates, NEW m \in DOMAIN said[j],
                      said[j][m] = "content"
               PROVE  Unread(j, m)'
    BY <1>4 DEF Race
  <2>1. m \in 1..Len(said[j]) /\ Unread(j, m)
    BY <1>0, Elements DEF Race
  <2>2. QED BY <2>1, <1>10
<1>14. Rest'
  <2> SUFFICES ASSUME winner # 0 PROVE Rest'
    BY <1>4 DEF Rest
  <2>1. Rest!2 /\ Position' = Position /\ winner \in Candidates
    BY <1>0, <1>4 DEF Rest, Position, TypeInv, Candidates
  <2>2. ASSUME NEW m \in DOMAIN said[winner], m > Position PROVE Unread(winner, m)'
    <3>1. m \in 1..Len(said[winner]) /\ Unread(winner, m)
      BY <2>1, <2>2, <1>0, Elements
    <3>2. QED BY <3>1, <2>1, <1>4, <1>10
  <2>4. box'[winner].kind \in Kinds => Len(said[winner]) > Position
    BY <2>1, <1>3
  <2>5. QED BY <2>1, <2>2, <2>4, <1>4 DEF Rest
<1>15. Voice' /\ Outcome'
  <2>1. ASSUME NEW j \in Candidates
        PROVE  (Launched(j) <=> Launched(j)') /\ (attempt[j] = "gone" => attempt'[j] = "gone")
    <3>1. CASE j = i
      BY <1>3, <3>1 DEF Launched
    <3>2. CASE j # i
      BY <1>3, <3>2 DEF Launched
    <3>3. QED BY <3>1, <3>2
  <2>2. winner # 0 => winner \in Candidates
    BY <1>0 DEF TypeInv, Candidates
  <2>3. Voice'
    BY <2>1, <2>2, <1>0, <1>4 DEF Voice
  <2>4. Outcome'
    BY <2>1, <2>2, <1>0, <1>4 DEF Outcome, Position
  <2>5. QED BY <2>3, <2>4
<1>13. Counting' /\ Alive'
  <2>1. Pending' = Pending
    <3>1. ASSUME NEW j \in Candidates PROVE Launched(j) <=> Launched(j)'
      <4>1. CASE j = i
        BY <1>3, <4>1 DEF Launched
      <4>2. CASE j # i
        BY <1>3, <4>2 DEF Launched
      <4>3. QED BY <4>1, <4>2
    <3>2. QED BY <3>1, <1>4 DEF Pending
  <2>2. winner = 0 /\ ~stopped => Working' = Working
    <3>1. SUFFICES ASSUME winner = 0, ~stopped PROVE Working' = Working
      OBVIOUS
    <3>2. a # "gone"
      BY <3>1, <1>0 DEF Done, Voice
    <3>3. ASSUME NEW j \in Candidates PROVE j \in Working <=> j \in Working'
      <4>1. CASE j = i
        BY <1>3, <3>2, <4>1 DEF Working
      <4>2. CASE j # i
        BY <1>3, <4>2 DEF Working
      <4>3. QED BY <4>1, <4>2
    <3>4. QED BY <3>3 DEF Working
  <2>3. QED BY <2>1, <2>2, <1>0, <1>4 DEF Counting, Alive
<1>17. Follows'
  <2> SUFFICES ASSUME NEW j \in Candidates, NEW m \in DOMAIN said[j], NEW l \in DOMAIN events,
                      events[l].from = j, events[l].kind \in Kinds, m > events[l].at
               PROVE  Unread(j, m)'
    BY <1>4 DEF Follows
  <2>1. m \in 1..Len(said[j]) /\ Unread(j, m)
    BY <1>0, Elements DEF Follows
  <2>2. QED BY <2>1, <1>10
<1>16. QED
  BY <1>5, <1>6, <1>7, <1>8, <1>9, <1>12, <1>13, <1>14, <1>15, <1>17 DEF IInv

LEMMA GoroutinePreserves ==
  ASSUME IInv, NEW i \in Candidates, EndStream(i) \/ GiveUp(i) \/ Report(i)
  PROVE  IInv'
<1>0. TypeInv /\ BoxOf(i) /\ box[i] \in Events \cup {NoEvent}
  BY DEF IInv, Boxes, TypeInv
<1>1. CASE EndStream(i)
  <2>1. /\ attempt[i] = "running" /\ attempt' = [attempt EXCEPT ![i] = "ending"]
        /\ UNCHANGED <<loopVars, due, events, box, said, stopped>>
    BY <1>1 DEF EndStream
  <2>2. box[i] = NoEvent /\ NoEvent.kind \notin Kinds
    BY <2>1, <1>0 DEF BoxOf, NoEvent, Kinds
  <2>3. box' = [box EXCEPT ![i] = NoEvent]
    BY <2>1, <2>2, <1>0 DEF TypeInv
  <2>4. BoxOf(i)'
    BY <2>1, <2>2, <1>0 DEF BoxOf, TypeInv, NoEvent, Kinds
  <2>5. QED
    BY <2>1, <2>2, <2>3, <2>4, QuietStep
<1>2. CASE GiveUp(i)
  <2>1. /\ attempt[i] = "sending" /\ Done(i) /\ attempt' = [attempt EXCEPT ![i] = "gone"]
        /\ box' = [box EXCEPT ![i] = NoEvent]
        /\ UNCHANGED <<loopVars, due, events, said, stopped>>
    BY <1>2 DEF GiveUp
  <2>2. NoEvent.kind \notin Kinds
    BY DEF NoEvent, Kinds
  <2>4. BoxOf(i)'
    BY <2>1, <1>0 DEF BoxOf, TypeInv, NoEvent, Kinds
  <2>5. QED
    BY <2>1, <2>2, <2>4, QuietStep
<1>3. CASE Report(i) /\ Done(i)
  <2>1. /\ attempt[i] = "ending" /\ attempt' = [attempt EXCEPT ![i] = "gone"]
        /\ UNCHANGED <<loopVars, due, events, box, said, stopped>>
    BY <1>3 DEF Report
  <2>2. box[i] = NoEvent /\ NoEvent.kind \notin Kinds
    BY <2>1, <1>0 DEF BoxOf, NoEvent, Kinds
  <2>3. box' = [box EXCEPT ![i] = NoEvent]
    BY <2>1, <2>2, <1>0 DEF TypeInv
  <2>4. BoxOf(i)'
    BY <2>1, <2>2, <1>0 DEF BoxOf, TypeInv, NoEvent, Kinds
  <2>5. QED
    BY <2>1, <2>2, <2>3, <2>4, <1>3, QuietStep
<1>4. CASE Report(i) /\ ~Done(i)
  <2> DEFINE b == Event(i, IF Says(i, "error") \/ ~Says(i, "content") THEN "failure" ELSE "finished", 0)
  <2>1. /\ attempt[i] = "ending" /\ attempt' = [attempt EXCEPT ![i] = "sending"]
        /\ box' = [box EXCEPT ![i] = b]
        /\ UNCHANGED <<loopVars, due, events, said, stopped>>
    BY <1>4 DEF Report
  <2>2. /\ b \in Events /\ b # NoEvent /\ b.from = i /\ b.kind \notin Kinds
        /\ b.kind = "finished" => Says(i, "content")
    BY DEF Event, Events, Terminal, Kinds, NoEvent
  <2> HIDE DEF b
  <2>3. box[i].kind \notin Kinds
    BY <2>1, <1>0 DEF BoxOf, NoEvent, Kinds
  <2>4. BoxOf(i)'
    <3>1. attempt'[i] = "sending" /\ box'[i] = b /\ said' = said
      BY <2>1, <1>0 DEF TypeInv
    <3>2. QED BY <3>1, <2>2 DEF BoxOf, Says
  <2>5. QED
    BY <2>1, <2>2, <2>3, <2>4, QuietStep
<1>5. QED BY <1>1, <1>2, <1>3, <1>4

LEMMA SendPreserves ==
  ASSUME IInv, NEW i \in Candidates, Send(i)
  PROVE  IInv'
<1>e. PICK e : e = box[i]
  OBVIOUS
<1>a. PICK a : a = CASE e.kind \in Terminal -> "gone" [] e.kind = "error" -> "ending" [] OTHER -> "running"
  OBVIOUS
<1>n. PICK n : n = Len(events) + 1
  OBVIOUS
<1>0. /\ TypeInv /\ Launches /\ Boxes /\ Channel /\ Order /\ Failures /\ Race /\ Rest /\ Voice
      /\ Outcome /\ Counting /\ Alive /\ Follows
  BY DEF IInv
<1>1. /\ attempt[i] = "sending" /\ Len(events) < N /\ events' = Append(events, e)
      /\ box' = [box EXCEPT ![i] = NoEvent] /\ attempt' = [attempt EXCEPT ![i] = a]
      /\ UNCHANGED <<loopVars, due, said, stopped>>
  BY <1>e, <1>a DEF Send
<1>2. /\ e \in Events /\ e.from = i /\ e.kind \in Kinds \cup Terminal
      /\ e.kind \in Kinds => Len(said[i]) # 0 /\ e.at = Len(said[i]) /\ said[i][Len(said[i])] = e.kind
      /\ e.kind = "finished" => Says(i, "content")
      /\ NoEvent.kind \notin Kinds
  <2>1. BoxOf(i) /\ e \in Events \cup {NoEvent}
    BY <1>0, <1>e DEF Boxes, TypeInv
  <2>2. e \in Events
    BY <2>1, <1>1, <1>e DEF BoxOf
  <2>3. QED BY <1>1, <1>e, <2>1, <2>2, NoEventKind DEF BoxOf, NoEvent, Kinds
<1>3. /\ e.kind \in Terminal => a = "gone"
      /\ e.kind \notin Terminal => a \in {"running", "ending"}
      /\ a \in {"gone", "running", "ending"}
      /\ Terminal \cap Kinds = {}
  BY <1>a DEF Terminal, Kinds
<1>4. /\ attempt'[i] = a /\ box'[i] = NoEvent
      /\ \A j \in Candidates \ {i} : attempt'[j] = attempt[j] /\ box'[j] = box[j]
  BY <1>0, <1>1 DEF TypeInv
<1>5. /\ pc' = pc /\ winner' = winner /\ active' = active /\ failures' = failures
      /\ next' = next /\ now' = now /\ canceled' = canceled /\ heard' = heard
      /\ verdict' = verdict /\ due' = due /\ said' = said /\ stopped' = stopped
      /\ Failed' = Failed
  BY <1>1 DEF loopVars, Failed
<1>6. /\ Len(events) \in Nat /\ n \in Nat /\ DOMAIN events = 1..Len(events) /\ DOMAIN events' = 1..n
      /\ events' \in Seq(Events) /\ Len(events') = n /\ n <= N
      /\ events'[n] = e
      /\ \A k \in 1..Len(events) : events'[k] = events[k] /\ k \in 1..n
  <2>1. events \in Seq(Events)
    BY <1>0 DEF TypeInv
  <2>2. N \in Nat
    BY HedgeAssumption
  <2>3. QED BY <2>1, <2>2, <1>n, <1>1, <1>2
<1>7. \A k \in DOMAIN events : events[k].from = i => events[k].kind \in Kinds
  BY <1>0, <1>1, Elements DEF Channel, Truthful
<1>8. TypeInv'
  <2>1. /\ attempt' \in [Candidates -> Attempts] /\ a \in Attempts
        /\ box' \in [Candidates -> Events \cup {NoEvent}]
    BY <1>0, <1>1, <1>3 DEF TypeInv, Attempts
  <2>3. QED BY <1>0, <1>5, <1>6, <2>1 DEF TypeInv
<1>9. ASSUME NEW j \in Candidates
      PROVE  /\ (attempt'[j] = "idle") <=> (attempt[j] = "idle")
             /\ attempt'[j] = "unstarted" => attempt[j] = "unstarted"
             /\ Launched(j)' <=> Launched(j)
             /\ attempt[j] = "gone" => attempt'[j] = "gone"
  <2>1. CASE j = i
    BY <1>1, <1>3, <1>4, <2>1 DEF Launched
  <2>2. CASE j # i
    BY <1>4, <2>2 DEF Launched
  <2>3. QED BY <2>1, <2>2
<1>10. Launches'
  BY <1>9, <1>0, <1>5 DEF Launches
<1>11. Boxes'
  <2> SUFFICES ASSUME NEW j \in Candidates PROVE BoxOf(j)'
    BY DEF Boxes
  <2>1. CASE j # i
    BY <2>1, <1>0, <1>4, <1>5 DEF Boxes, BoxOf, Says
  <2>2. CASE j = i
    BY <2>2, <1>2, <1>3, <1>4 DEF BoxOf, NoEvent
  <2>3. QED BY <2>1, <2>2
<1>12. i \notin Failed
  BY <1>0, <1>1 DEF Failures
<1>13. Channel'
  <2> SUFFICES ASSUME NEW l \in 1..n, NEW x, x = events'[l] PROVE Truthful(x)'
    BY <1>6 DEF Channel, Truthful
  <2>1. CASE l = n
    <3>1. Truthful(e)'
      <4>1. Launched(i)'
        BY <1>9, <1>1 DEF Launched
      <4>2. Len(said[i]) \in Nat /\ DOMAIN said[i] = 1..Len(said[i])
        BY <1>0, Elements
      <4>3. (box'[i].kind \in Kinds) = FALSE
        BY <1>2, <1>4
      <4>4. QED BY <4>1, <4>2, <4>3, <1>2, <1>3, <1>4, <1>5, <1>12 DEF Truthful, Says
    <3>2. QED BY <3>1, <2>1, <1>6
  <2>2. CASE l # n
    <3>1. l \in DOMAIN events /\ x = events[l] /\ Truthful(x) /\ x.from \in Candidates
      BY <2>2, <1>n, <1>0, <1>6, Elements DEF Channel
    <3>2. CASE x.from # i
      BY <3>1, <3>2, <1>4, <1>5 DEF Truthful, Launched, Says
    <3>3. CASE x.from = i
      <4>1. x.kind \in Kinds /\ x.kind \notin Terminal /\ x.kind # "finished"
        BY <3>1, <3>3, <1>3, <1>7 DEF Terminal, Kinds
      <4>2. Launched(x.from)' /\ box'[x.from].kind \notin Kinds
        BY <3>1, <3>3, <1>2, <1>4, <1>9 DEF Truthful
      <4>3. QED BY <3>1, <4>1, <4>2, <1>5 DEF Truthful
    <3>4. QED BY <3>1, <3>2, <3>3
  <2>3. QED BY <2>1, <2>2
<1>14. Order'
  <2> SUFFICES ASSUME NEW k \in 1..n, NEW l \in 1..n, k < l, events'[k].from = events'[l].from
               PROVE  /\ events'[k].kind \in Kinds
                      /\ events'[l].kind \in Kinds => events'[k].at < events'[l].at
    BY <1>6 DEF Order
  <2>1. k \in DOMAIN events /\ events'[k] = events[k]
    BY <1>n, <1>6
  <2>2. CASE l = n
    <3>1. events[k].from = i
      BY <2>1, <2>2, <1>2, <1>6
    <3>2. Truthful(events[k]) /\ events[k].kind \in Kinds
      BY <2>1, <3>1, <1>0, <1>7 DEF Channel
    <3>3. QED BY <2>1, <2>2, <3>1, <3>2, <1>2, <1>6, <1>e DEF Truthful
  <2>3. CASE l # n
    <3>1. l \in DOMAIN events /\ events'[l] = events[l]
      BY <2>3, <1>n, <1>6
    <3>2. QED BY <2>1, <3>1, <1>0 DEF Order
  <2>4. QED BY <2>2, <2>3
<1>15. Failures'
  BY <1>9, <1>12, <1>0, <1>4, <1>5, Elements DEF Failures
<1>16. ASSUME NEW j \in Candidates PROVE j \in Reported' <=> j \in Reported \/ (j = i /\ e.kind \in Terminal)
  <2>1. ASSUME j \in Reported PROVE j \in Reported'
    BY <2>1, <1>6 DEF Reported
  <2>2. ASSUME j = i, e.kind \in Terminal PROVE j \in Reported'
    <3>1. n \in DOMAIN events' /\ events'[n].from = j /\ events'[n].kind \in Terminal
      BY <2>2, <1>n, <1>2, <1>6
    <3>2. QED BY <3>1 DEF Reported
  <2>3. ASSUME j \in Reported' PROVE j \in Reported \/ (j = i /\ e.kind \in Terminal)
    <3>1. PICK k \in 1..n : events'[k].from = j /\ events'[k].kind \in Terminal
      BY <2>3, <1>6 DEF Reported
    <3>2. CASE k = n
      BY <3>1, <3>2, <1>2, <1>6
    <3>3. CASE k # n
      BY <3>1, <3>3, <1>6, <1>n DEF Reported
    <3>4. QED BY <3>2, <3>3
  <2>4. QED BY <2>1, <2>2, <2>3
<1>17. ASSUME NEW j \in Candidates, NEW m \in 1..Len(said[j]), Unread(j, m) PROVE Unread(j, m)'
  <2>1. CASE InFlight(j, m)
    BY <2>1, <1>6 DEF Unread, InFlight
  <2>2. CASE j = i /\ ~InFlight(j, m)
    <3>1. e.kind \in Kinds /\ m = e.at
      BY <2>2, <1>1, <1>2, <1>17, <1>e DEF Unread
    <3>2. n \in DOMAIN events' /\ events'[n].from = j /\ events'[n].kind \in Kinds /\ events'[n].at = m
      BY <2>2, <3>1, <1>n, <1>2, <1>6
    <3>3. QED BY <3>2 DEF Unread, InFlight
  <2>3. CASE j # i /\ ~InFlight(j, m)
    BY <1>4, <1>5, <1>16, <1>17, <2>3 DEF Unread
  <2>4. QED BY <2>1, <2>2, <2>3
<1>18. Race'
  <2> SUFFICES ASSUME winner = 0, NEW j \in Candidates, NEW m \in DOMAIN said[j],
                      said[j][m] = "content"
               PROVE  Unread(j, m)'
    BY <1>5 DEF Race
  <2>1. m \in 1..Len(said[j]) /\ Unread(j, m)
    BY <1>0, Elements DEF Race
  <2>2. QED BY <2>1, <1>17
<1>19. Rest'
  <2> SUFFICES ASSUME winner # 0 PROVE Rest'
    BY <1>5 DEF Rest
  <2>1. Rest!2 /\ Position' = Position /\ winner \in Candidates
    BY <1>0, <1>5 DEF Rest, Position, TypeInv, Candidates
  <2>2. ASSUME NEW m \in DOMAIN said[winner], m > Position PROVE Unread(winner, m)'
    <3>1. m \in 1..Len(said[winner]) /\ Unread(winner, m)
      BY <2>1, <2>2, <1>0, Elements
    <3>2. QED BY <3>1, <2>1, <1>5, <1>17
  <2>3. ASSUME NEW k \in 1..n, events'[k].from = winner, events'[k].kind \in Kinds
        PROVE  events'[k].at > Position
    <3>1. CASE k = n
      BY <3>1, <2>1, <2>3, <1>2, <1>6, <1>e
    <3>2. CASE k # n
      BY <3>2, <2>1, <2>3, <1>6, <1>n
    <3>3. QED BY <3>1, <3>2
  <2>4. box'[winner].kind \in Kinds => Len(said[winner]) > Position
    BY <2>1, <1>2, <1>4
  <2>5. QED BY <2>1, <2>2, <2>3, <2>4, <1>5, <1>6 DEF Rest
<1>20. Voice' /\ Outcome'
  <2>2. winner # 0 => winner \in Candidates
    BY <1>0 DEF TypeInv, Candidates
  <2>3. Voice'
    BY <1>9, <2>2, <1>0, <1>5 DEF Voice
  <2>4. Outcome'
    BY <1>9, <2>2, <1>0, <1>5 DEF Outcome, Position
  <2>5. QED BY <2>3, <2>4
<1>21. Counting' /\ Alive'
  <2>1. Pending' = Pending
    BY <1>9, <1>5 DEF Pending
  <2>2. Working \cup Reported \subseteq Working' \cup Reported'
    <3> SUFFICES ASSUME NEW j \in Candidates, j \in Working \cup Reported
                 PROVE  j \in Working' \cup Reported'
      BY DEF Working, Reported
    <3>1. CASE j \in Reported
      BY <3>1, <1>16
    <3>2. CASE j # i /\ j \in Working
      BY <3>2, <1>4 DEF Working
    <3>3. CASE j = i
      BY <3>3, <1>3, <1>4, <1>16 DEF Working
    <3>4. QED BY <3>1, <3>2, <3>3
  <2>3. QED BY <2>1, <2>2, <1>0, <1>5 DEF Counting, Alive
<1>23. Follows'
  <2> SUFFICES ASSUME NEW j \in Candidates, NEW m \in DOMAIN said[j], NEW l \in 1..n,
                      events'[l].from = j, events'[l].kind \in Kinds, m > events'[l].at
               PROVE  Unread(j, m)'
    BY <1>5, <1>6 DEF Follows
  <2>0. m \in 1..Len(said[j])
    BY <1>0, Elements
  <2>1. l # n
    BY <2>0, <1>2, <1>6, <1>0, Elements
  <2>2. l \in DOMAIN events /\ events'[l] = events[l]
    BY <2>1, <1>n, <1>6
  <2>3. Unread(j, m)
    BY <2>2, <1>0 DEF Follows
  <2>4. QED BY <2>0, <2>3, <1>17
<1>22. QED
  BY <1>23, <1>8, <1>10, <1>11, <1>13, <1>14, <1>15, <1>18, <1>19, <1>20, <1>21 DEF IInv

--------------------------------------------------------------------------------
(* Preservation: the steps of the loop and of the environment.             *)

\* A step that moves the loop, the clock or the context, and nothing else.
LEMMA ControlStep ==
  ASSUME IInv, TypeInv', Outcome', stopped => stopped', now' <= due',
         (pc' = "begin") <=> (pc = "begin"),
         UNCHANGED <<winner, active, failures, next, canceled, heard, attempt, box, said, events>>
  PROVE  IInv'
<1>0. /\ TypeInv /\ Launches /\ Boxes /\ Channel /\ Order /\ Failures /\ Race /\ Rest /\ Voice
      /\ Outcome /\ Counting /\ Alive /\ Follows
  BY DEF IInv
<1>1. /\ winner' = winner /\ active' = active /\ failures' = failures /\ next' = next
      /\ canceled' = canceled /\ heard' = heard /\ attempt' = attempt /\ box' = box
      /\ said' = said /\ events' = events
  OBVIOUS
<1>2. /\ Failed' = Failed /\ Reported' = Reported /\ Pending' = Pending /\ Working' = Working
  BY <1>1 DEF Failed, Reported, Pending, Working, Launched
<1>3. Launches'
  BY <1>0, <1>1, <1>2 DEF Launches, Launched
<1>4. Boxes' /\ Order' /\ Failures'
  BY <1>0, <1>1, <1>2 DEF Boxes, BoxOf, Order, Failures, Says
<1>5. Channel'
  BY <1>0, <1>1, <1>2 DEF Channel, Truthful, Launched, Says
<1>6. Race' /\ Rest' /\ Follows'
  BY <1>0, <1>1, <1>2 DEF Race, Rest, Follows, Unread, InFlight, Position
<1>7. Voice' /\ Counting' /\ Alive'
  BY <1>0, <1>1, <1>2 DEF Voice, Counting, Alive, Launched
<1>8. QED BY <1>3, <1>4, <1>5, <1>6, <1>7 DEF IInv

\* The candidates are finitely many, and so are those among them that are pending.
LEMMA Finite ==
  ASSUME NEW S \in SUBSET Candidates
  PROVE  IsFiniteSet(S) /\ Cardinality(S) \in 0..N
<1>1. N \in Nat /\ N >= 1
  BY HedgeAssumption
<1>2. IsFiniteSet(1..N) /\ Cardinality(1..N) = N
  BY <1>1, FS_Interval
<1>3. S \subseteq 1..N
  BY DEF Candidates
<1>4. IsFiniteSet(S) /\ Cardinality(S) <= Cardinality(1..N)
  BY <1>2, <1>3, FS_Subset
<1>5. Cardinality(S) \in Nat
  BY <1>4, FS_CardinalityType
<1>6. QED BY <1>1, <1>2, <1>4, <1>5

LEMMA ControlPreserves ==
  ASSUME IInv, \/ Drained \/ NoneToLaunch \/ TimerFires \/ ContextDone
               \/ TimePasses \/ CallerCancels
  PROVE  IInv'
<1>0. /\ TypeInv /\ Outcome /\ Launches
  BY DEF IInv
<1>1. CASE Drained \/ NoneToLaunch
  <2>1. /\ pc \in {"drain", "launch"} /\ pc' \in {"launch", "drainAgain"}
        /\ UNCHANGED <<winner, active, failures, next, canceled, heard, attempt, box, said, events>>
        /\ now' = now /\ due' = due /\ stopped' = stopped /\ verdict' = verdict
    BY <1>1 DEF Drained, NoneToLaunch, attemptVars
  <2>2. TypeInv'
    BY <1>0, <2>1 DEF TypeInv
  <2>3. Outcome'
    BY <1>0, <2>1 DEF Outcome, Failed, Position
  <2>4. QED BY <1>0, <2>1, <2>2, <2>3, ControlStep DEF Launches
<1>2. CASE TimerFires
  <2>1. /\ pc = "wait" /\ pc' = "drain"
        /\ UNCHANGED <<winner, active, failures, next, canceled, heard, attempt, box, said, events>>
        /\ now' = due /\ due' = due /\ stopped' = stopped /\ verdict' = verdict
    BY <1>2 DEF TimerFires, GoOn, attemptVars
  <2>2. TypeInv'
    BY <1>0, <2>1 DEF TypeInv
  <2>3. Outcome'
    BY <1>0, <2>1 DEF Outcome, Failed, Position
  <2>4. now' <= due'
    BY <1>0, <2>1, HedgeAssumption DEF TypeInv, Candidates
  <2>5. QED BY <2>1, <2>2, <2>3, <2>4, ControlStep
<1>3. CASE ContextDone
  <2>1. /\ pc = "wait" /\ pc' = "done" /\ stopped' = TRUE /\ verdict' = "canceled"
        /\ UNCHANGED <<winner, active, failures, next, canceled, heard, attempt, box, said, events>>
        /\ now' = now /\ due' = due
    BY <1>3 DEF ContextDone, End, attemptVars
  <2>2. TypeInv'
    BY <1>0, <2>1 DEF TypeInv, Verdicts
  <2>3. Outcome'
    BY <1>0, <2>1 DEF Outcome
  <2>5. QED BY <1>0, <2>1, <2>2, <2>3, ControlStep DEF Launches
<1>4. CASE TimePasses
  <2>1. /\ due' \in Candidates /\ due < due'
        /\ UNCHANGED <<winner, active, failures, next, canceled, heard, attempt, box, said, events>>
        /\ pc' = pc /\ now' = now /\ stopped' = stopped /\ verdict' = verdict
    BY <1>0, <1>4, HedgeAssumption DEF TimePasses, attemptVars, loopVars, TypeInv, Candidates
  <2>2. TypeInv'
    BY <1>0, <2>1 DEF TypeInv
  <2>3. Outcome'
    BY <1>0, <2>1 DEF Outcome, Failed, Position
  <2>4. now' <= due'
    BY <1>0, <2>1, HedgeAssumption DEF TypeInv, Candidates, Launches
  <2>5. QED BY <2>1, <2>2, <2>3, <2>4, ControlStep
<1>5. CASE CallerCancels
  <2>1. /\ stopped' = TRUE
        /\ UNCHANGED <<winner, active, failures, next, canceled, heard, attempt, box, said, events>>
        /\ pc' = pc /\ now' = now /\ due' = due /\ verdict' = verdict
    BY <1>5 DEF CallerCancels, attemptVars, loopVars
  <2>2. TypeInv'
    BY <1>0, <2>1 DEF TypeInv
  <2>3. Outcome'
    BY <1>0, <2>1 DEF Outcome, Failed, Position
  <2>5. QED BY <1>0, <2>1, <2>2, <2>3, ControlStep DEF Launches
<1>6. QED BY <1>1, <1>2, <1>3, <1>4, <1>5

\* The end of advance: with nobody active and nobody left to launch, all have failed.
LEMMA CheckPreserves ==
  ASSUME IInv, Check
  PROVE  IInv'
<1>0. /\ TypeInv /\ Outcome /\ Launches /\ Counting
  BY DEF IInv
<1>1. /\ pc = "drainAgain" /\ now' = now /\ due' = due
      /\ UNCHANGED <<winner, active, failures, next, canceled, heard, attempt, box, said, events>>
  BY DEF Check, attemptVars
<1>2. CASE winner = 0 /\ active = 0 /\ next > N
  <2>1. /\ pc' = "done" /\ stopped' = TRUE
        /\ verdict' = IF failures = <<>> THEN "silent" ELSE "failed"
    BY <1>2 DEF Check, End
  <2>2. Pending = {}
    <3>1. Pending \in SUBSET Candidates
      BY DEF Pending
    <3>2. IsFiniteSet(Pending) /\ Cardinality(Pending) = 0
      BY <3>1, <1>0, <1>2, Finite DEF Counting
    <3>3. QED BY <3>2, FS_EmptySet
  <2>3. Failed = Candidates
    <3>1. ASSUME NEW j \in Candidates PROVE j \in Failed
      <4>1. attempt[j] # "idle"
        BY <1>0, <1>2, HedgeAssumption DEF Launches, TypeInv, Candidates
      <4>2. QED BY <4>1, <2>2, <1>0 DEF Pending, Launches, Launched
    <3>2. QED BY <3>1, <1>0, Elements
  <2>4. failures # <<>>
    <3>1. 1 \in Candidates
      BY HedgeAssumption DEF Candidates
    <3>2. QED BY <3>1, <2>3 DEF Failed
  <2>5. TypeInv'
    BY <1>0, <1>1, <2>1 DEF TypeInv, Verdicts
  <2>6. Outcome'
    BY <1>1, <1>2, <2>1, <2>3, <2>4 DEF Outcome, Failed
  <2>7. QED BY <1>0, <1>1, <2>1, <2>5, <2>6, ControlStep DEF Launches
<1>3. CASE ~(winner = 0 /\ active = 0 /\ next > N)
  <2>1. pc' = "wait" /\ stopped' = stopped /\ verdict' = verdict
    BY <1>3 DEF Check
  <2>5. TypeInv'
    BY <1>0, <1>1, <2>1 DEF TypeInv
  <2>6. Outcome'
    BY <1>0, <1>1, <2>1 DEF Outcome, Failed, Position
  <2>7. QED BY <1>0, <1>1, <2>1, <2>5, <2>6, ControlStep DEF Launches
<1>4. QED BY <1>2, <1>3

\* Begin and Launch: the next candidate runs, or is a failure at once.
LEMMA LaunchStep ==
  ASSUME IInv, winner = 0, next <= N, LaunchAttempt(next), next' = next + 1,
         pc # "done", pc' \in {"drain", "launch"}, now' \in {now, due},
         UNCHANGED <<winner, due, events, box, said, canceled, stopped, heard, verdict>>
  PROVE  IInv'
<1>0. /\ TypeInv /\ Launches /\ Boxes /\ Channel /\ Order /\ Failures /\ Race /\ Rest /\ Voice
      /\ Outcome /\ Counting /\ Alive /\ Follows
  BY DEF IInv
<1>1. PICK i \in Candidates : i = next
  BY <1>0, HedgeAssumption DEF TypeInv, Candidates
<1>2. PICK a \in {"running", "unstarted"} :
        /\ attempt' = [attempt EXCEPT ![i] = a]
        /\ a = "running" => active' = active + 1 /\ failures' = failures
        /\ a = "unstarted" => active' = active /\ failures' = Append(failures, i)
  BY <1>1 DEF LaunchAttempt
<1>3. /\ winner' = winner /\ due' = due /\ events' = events /\ box' = box /\ said' = said
      /\ canceled' = canceled /\ stopped' = stopped /\ heard' = heard /\ verdict' = verdict
      /\ Reported' = Reported
  BY DEF Reported
<1>4. /\ attempt'[i] = a
      /\ \A j \in Candidates \ {i} : attempt'[j] = attempt[j]
  BY <1>0, <1>2 DEF TypeInv
<1>5. /\ attempt[i] = "idle" /\ i \notin Failed /\ ~Launched(i)
      /\ said[i] = <<>> /\ box[i] = NoEvent
      /\ \A k \in DOMAIN events : events[k].from # i
  <2>0. next <= i
    BY <1>0, <1>1, HedgeAssumption DEF TypeInv, Candidates
  <2>1. attempt[i] = "idle"
    BY <2>0, <1>0, <1>1 DEF Launches
  <2>2. i \notin Failed /\ ~Launched(i)
    BY <2>1, <1>0 DEF Failures, Launched
  <2>3. said[i] = <<>>
    BY <2>2, <1>0 DEF Launches
  <2>4. box[i] = NoEvent
    BY <2>1, <1>0 DEF Boxes, BoxOf
  <2>5. \A k \in DOMAIN events : events[k].from # i
    BY <2>2, <1>0 DEF Channel, Truthful
  <2>6. QED BY <2>1, <2>2, <2>3, <2>4, <2>5
<1>6. /\ a = "running" => Failed' = Failed
      /\ a = "unstarted" => Failed' = Failed \cup {i}
  <2>1. failures \in Seq(Candidates) /\ Len(failures) \in Nat /\ DOMAIN failures = 1..Len(failures)
    BY <1>0 DEF TypeInv
  <2>2. CASE a = "running"
    BY <2>2, <1>2 DEF Failed
  <2>3. CASE a = "unstarted"
    <3>1. /\ DOMAIN failures' = 1..(Len(failures) + 1) /\ failures'[Len(failures) + 1] = i
          /\ \A k \in 1..Len(failures) : failures'[k] = failures[k]
      BY <2>1, <2>3, <1>2
    <3>2. ASSUME NEW x PROVE x \in Failed' <=> x \in Failed \cup {i}
      BY <3>1, <2>1 DEF Failed
    <3>3. QED BY <3>2, <2>3
  <2>4. QED BY <2>2, <2>3
<1>7. TypeInv'
  <2>1. attempt' \in [Candidates -> Attempts]
    BY <1>0, <1>2 DEF TypeInv, Attempts
  <2>2. failures' \in Seq(Candidates) /\ active' \in Int
    <3>1. failures \in Seq(Candidates) /\ active \in Int
      BY <1>0 DEF TypeInv
    <3>2. CASE a = "running"
      BY <3>1, <3>2, <1>2
    <3>3. CASE a = "unstarted"
      BY <3>1, <3>3, <1>2
    <3>4. QED BY <3>2, <3>3
  <2>3. next' \in 1..(N + 1)
    BY <1>0, HedgeAssumption DEF TypeInv
  <2>4. QED BY <1>0, <1>3, <2>1, <2>2, <2>3 DEF TypeInv
<1>8. Launches'
  <2>1. ASSUME NEW j \in Candidates
        PROVE  /\ (attempt'[j] = "idle") <=> (next' <= j)
               /\ attempt'[j] = "unstarted" => j \in Failed'
               /\ ~Launched(j)' => said'[j] = <<>>
    <3>1. CASE j = i
      BY <3>1, <1>0, <1>1, <1>3, <1>4, <1>5, <1>6, HedgeAssumption DEF Candidates
    <3>2. CASE j # i
      <4>1. (next' <= j) <=> (next <= j)
        BY <3>2, <1>0, <1>1, HedgeAssumption DEF TypeInv, Candidates
      <4>2. QED BY <4>1, <3>2, <1>0, <1>3, <1>4, <1>6 DEF Launches, Launched
    <3>3. QED BY <3>1, <3>2
  <2>2. ((pc' = "begin") <=> (next' = 1)) /\ now' <= due'
    BY <1>0, <1>3, HedgeAssumption DEF Launches, TypeInv, Candidates
  <2>3. QED BY <2>1, <2>2 DEF Launches
<1>9. Boxes'
  <2> SUFFICES ASSUME NEW j \in Candidates PROVE BoxOf(j)'
    BY DEF Boxes
  <2>1. CASE j = i
    BY <2>1, <1>3, <1>4, <1>5, NoEventKind DEF BoxOf, NoEvent, Kinds
  <2>2. CASE j # i
    BY <2>2, <1>0, <1>3, <1>4 DEF Boxes, BoxOf, Says
  <2>3. QED BY <2>1, <2>2
<1>10. Channel'
  <2> SUFFICES ASSUME NEW l \in DOMAIN events PROVE Truthful(events[l])'
    BY <1>3 DEF Channel
  <2>1. Truthful(events[l]) /\ events[l].from \in Candidates /\ events[l].from # i
    BY <1>0, <1>5, Elements DEF Channel
  <2>2. QED BY <2>1, <1>2, <1>3, <1>4, <1>6 DEF Truthful, Launched, Says
<1>11. Order'
  BY <1>0, <1>3 DEF Order
<1>12. Failures'
  <2>1. \A k, l \in DOMAIN failures' : failures'[k] = failures'[l] => k = l
    <3>1. CASE a = "running"
      BY <3>1, <1>0, <1>2 DEF Failures
    <3>2. CASE a = "unstarted"
      <4>1. /\ DOMAIN failures' = 1..(Len(failures) + 1) /\ failures'[Len(failures) + 1] = i
            /\ \A k \in 1..Len(failures) : failures'[k] = failures[k] /\ failures[k] # i
            /\ Len(failures) \in Nat /\ DOMAIN failures = 1..Len(failures)
        <5>1. /\ failures \in Seq(Candidates) /\ Len(failures) \in Nat
              /\ DOMAIN failures = 1..Len(failures)
          BY <1>0 DEF TypeInv
        <5>2. \A k \in 1..Len(failures) : failures[k] # i
          BY <5>1, <1>5 DEF Failed
        <5>3. QED BY <5>1, <5>2, <3>2, <1>2
      <4>2. QED BY <4>1, <1>0 DEF Failures
    <3>3. QED BY <3>1, <3>2
  <2>2. ASSUME NEW j \in Failed' PROVE attempt'[j] \in {"gone", "unstarted"}
    BY <1>0, <1>2, <1>4, <1>5, <1>6, Elements DEF Failures
  <2>3. QED BY <2>1, <2>2 DEF Failures
<1>13. Race'
  <2> SUFFICES ASSUME NEW j \in Candidates, NEW m \in DOMAIN said[j], said[j][m] = "content"
               PROVE  Unread(j, m)'
    BY <1>3 DEF Race
  <2>1. j # i
    BY <1>5
  <2>2. Unread(j, m)
    BY <1>0 DEF Race
  <2>3. QED BY <2>1, <2>2, <1>3, <1>4 DEF Unread, InFlight
<1>14. Rest' /\ Voice' /\ Outcome'
  <2>1. Rest' /\ Voice'
    BY <1>0, <1>3 DEF Rest, Voice
  <2>2. Outcome'
    BY <1>0, <1>3 DEF Outcome
  <2>3. QED BY <2>1, <2>2
<1>15. /\ a = "running" => Pending' = Pending \cup {i}
       /\ a = "unstarted" => Pending' = Pending
  <2>1. ASSUME NEW j \in Candidates PROVE Launched(j)' <=> Launched(j) \/ (j = i /\ a = "running")
    <3>1. CASE j = i
      BY <3>1, <1>2, <1>4, <1>5 DEF Launched
    <3>2. CASE j # i
      BY <3>2, <1>4 DEF Launched
    <3>3. QED BY <3>1, <3>2
  <2>2. CASE a = "running"
    BY <2>1, <2>2, <1>5, <1>6 DEF Pending
  <2>3. CASE a = "unstarted"
    BY <2>1, <2>3, <1>5, <1>6 DEF Pending
  <2>4. QED BY <2>2, <2>3
<1>16. Counting'
  <2>1. Pending \in SUBSET Candidates /\ i \notin Pending /\ Pending \cup {i} \in SUBSET Candidates
    BY <1>5 DEF Pending
  <2>2. IsFiniteSet(Pending) /\ Cardinality(Pending) \in Nat
    BY <2>1, Finite, HedgeAssumption
  <2>3. Cardinality(Pending \cup {i}) = Cardinality(Pending) + 1
    BY <2>1, <2>2, FS_AddElement
  <2>4. Cardinality(Pending \cup {i}) \in 0..N
    BY <2>1, Finite
  <2>5. QED BY <2>3, <2>4, <1>0, <1>2, <1>3, <1>15 DEF Counting
<1>17. Alive'
  <2>1. ASSUME NEW j \in Working PROVE j \in Working'
    <3>1. j # i
      BY <1>5 DEF Working
    <3>2. QED BY <3>1, <1>4 DEF Working
  <2>2. a = "running" => i \in Working'
    BY <1>4 DEF Working
  <2>3. QED BY <2>1, <2>2, <1>0, <1>2, <1>3, <1>15 DEF Alive
<1>19. Follows'
  <2> SUFFICES ASSUME NEW j \in Candidates, NEW m \in DOMAIN said[j], NEW l \in DOMAIN events,
                      events[l].from = j, events[l].kind \in Kinds, m > events[l].at
               PROVE  Unread(j, m)'
    BY <1>3 DEF Follows
  <2>1. j # i
    BY <1>5
  <2>2. Unread(j, m)
    BY <1>0 DEF Follows
  <2>3. QED BY <2>1, <2>2, <1>3, <1>4 DEF Unread, InFlight
<1>18. QED
  BY <1>19, <1>7, <1>8, <1>9, <1>10, <1>11, <1>12, <1>13, <1>14, <1>16, <1>17 DEF IInv

LEMMA LaunchPreserves ==
  ASSUME IInv, Begin \/ Launch
  PROVE  IInv'
<1>0. TypeInv /\ Launches /\ Voice /\ Outcome /\ Rest /\ N \in Nat /\ N >= 1
  BY HedgeAssumption DEF IInv
<1>1. CASE Begin
  <2>1. pc = "begin" /\ next = 1
    BY <1>0, <1>1 DEF Begin, Launches
  <2>2. ~Launched(winner) \/ winner = 0
    BY <1>0, <2>1, HedgeAssumption DEF Launches, Launched, TypeInv, Candidates
  <2>3. winner = 0
    BY <2>2, <1>0 DEF Voice
  <2>4. QED BY <1>0, <1>1, <2>1, <2>3, LaunchStep DEF Begin
<1>2. CASE Launch
  <2>1. /\ pc = "launch" /\ pc' = pc /\ winner = 0 /\ next <= N
    BY <1>2 DEF Launch, MayLaunch
  <2>2. QED BY <1>0, <1>2, <2>1, LaunchStep DEF Launch
<1>3. QED BY <1>1, <1>2

--------------------------------------------------------------------------------
(* Preservation: the loop reads an event.                                  *)

\* What reading an event does to the channel.
LEMMA ReadEvent ==
  ASSUME IInv, events # <<>>, events' = Tail(events), NEW e, e = Head(events),
         UNCHANGED attemptVars
  PROVE  /\ e \in Events /\ e.from \in Candidates /\ Truthful(e) /\ 1 \in DOMAIN events /\ e = events[1]
         /\ events' \in Seq(Events) /\ Len(events') <= N
         /\ \A k \in DOMAIN events' : k \in Nat /\ k + 1 \in DOMAIN events /\ events'[k] = events[k + 1]
         /\ \A k \in DOMAIN events' : events'[k].from = e.from =>
               /\ e.kind \in Kinds
               /\ events'[k].kind \in Kinds => e.at < events'[k].at
         /\ \A j \in Reported : j \in Reported' \/ (j = e.from /\ e.kind \in Terminal)
         /\ Reported' \subseteq Reported
         /\ \A j \in Candidates : \A m \in DOMAIN said[j] :
              Unread(j, m) /\ ~(j = e.from /\ e.kind \in Kinds /\ m = e.at) => Unread(j, m)'
         /\ e.kind \in Terminal => \A m \in DOMAIN said[e.from] : ~Unread(e.from, m)
         /\ Boxes' /\ Order' /\ Follows'
<1>0. TypeInv /\ Boxes /\ Channel /\ Order /\ Follows
  BY DEF IInv
<1>1. attempt' = attempt /\ box' = box /\ said' = said
  BY DEF attemptVars
<1>2. /\ Len(events) \in Nat /\ Len(events) >= 1 /\ DOMAIN events = 1..Len(events)
      /\ e = events[1] /\ 1 \in DOMAIN events /\ e \in Events
      /\ events' \in Seq(Events) /\ Len(events') = Len(events) - 1
      /\ DOMAIN events' = 1..(Len(events) - 1)
      /\ \A k \in 1..(Len(events) - 1) : events'[k] = events[k + 1]
  BY <1>0 DEF TypeInv
<1>3. Len(events') <= N
  BY <1>0, <1>2, HedgeAssumption DEF TypeInv
<1>4. e.from \in Candidates /\ Truthful(e)
  BY <1>0, <1>2, Elements DEF Channel
<1>5. \A k \in DOMAIN events' : k \in Nat /\ k + 1 \in DOMAIN events /\ events'[k] = events[k + 1]
  BY <1>2
<1>6. \A k \in DOMAIN events : k # 1 => k - 1 \in DOMAIN events' /\ events'[k - 1] = events[k]
  BY <1>2
<1>7. ASSUME NEW k \in DOMAIN events', events'[k].from = e.from
      PROVE  e.kind \in Kinds /\ (events'[k].kind \in Kinds => e.at < events'[k].at)
  <2>1. k + 1 \in DOMAIN events /\ 1 < k + 1 /\ events'[k] = events[k + 1]
    BY <1>2, <1>5
  <2>2. QED BY <2>1, <1>0, <1>2, <1>7 DEF Order
<1>8. Reported' \subseteq Reported
  BY <1>5 DEF Reported
<1>9. ASSUME NEW j \in Reported PROVE j \in Reported' \/ (j = e.from /\ e.kind \in Terminal)
  <2>1. PICK k \in DOMAIN events : events[k].from = j /\ events[k].kind \in Terminal
    BY DEF Reported
  <2>2. CASE k = 1
    BY <2>1, <2>2, <1>2
  <2>3. CASE k # 1
    <3>1. k - 1 \in DOMAIN events' /\ events'[k - 1] = events[k]
      BY <2>3, <1>6
    <3>2. j \in Candidates
      BY DEF Reported
    <3>3. QED BY <2>1, <3>1, <3>2 DEF Reported
  <2>4. QED BY <2>2, <2>3
<1>10. ASSUME NEW j \in Candidates, NEW m \in DOMAIN said[j], Unread(j, m),
              ~(j = e.from /\ e.kind \in Kinds /\ m = e.at)
       PROVE  Unread(j, m)'
  <2>1. CASE InFlight(j, m)
    <3>1. PICK k \in DOMAIN events : events[k].from = j /\ events[k].kind \in Kinds /\ events[k].at = m
      BY <2>1 DEF InFlight
    <3>2. k - 1 \in DOMAIN events' /\ events'[k - 1] = events[k]
      BY <3>1, <1>2, <1>6, <1>10
    <3>3. QED BY <3>1, <3>2 DEF Unread, InFlight
  <2>2. CASE ~InFlight(j, m)
    BY <2>2, <1>1, <1>8, <1>10 DEF Unread
  <2>3. QED BY <2>1, <2>2
<1>11. ASSUME e.kind \in Terminal, NEW m \in DOMAIN said[e.from] PROVE ~Unread(e.from, m)
  <2>1. attempt[e.from] = "gone" /\ box[e.from] = NoEvent
    BY <1>0, <1>4, <1>11 DEF Truthful, Boxes, BoxOf
  <2>2. e.from \in Reported
    BY <1>2, <1>4, <1>11 DEF Reported
  <2>3. ~InFlight(e.from, m)
    <3>1. SUFFICES ASSUME NEW k \in DOMAIN events, events[k].from = e.from, events[k].kind \in Kinds
                   PROVE  FALSE
      BY DEF InFlight
    <3>2. e.kind \notin Kinds
      BY <1>11 DEF Terminal, Kinds
    <3>3. k # 1
      BY <3>1, <3>2, <1>2
    <3>4. QED BY <3>1, <3>2, <3>3, <1>0, <1>2 DEF Order
  <2>4. QED BY <2>1, <2>2, <2>3, NoEventKind DEF Unread, Kinds
<1>12. Boxes'
  BY <1>0, <1>1 DEF Boxes, BoxOf, Says
<1>13. Order'
  <2> SUFFICES ASSUME NEW k \in DOMAIN events', NEW l \in DOMAIN events', k < l,
                      events'[k].from = events'[l].from
               PROVE  /\ events'[k].kind \in Kinds
                      /\ events'[l].kind \in Kinds => events'[k].at < events'[l].at
    BY DEF Order
  <2>1. k + 1 < l + 1
    BY <1>5
  <2>2. QED BY <2>1, <1>0, <1>5 DEF Order
<1>14. Follows'
  <2> SUFFICES ASSUME NEW j \in Candidates, NEW m \in DOMAIN said[j], NEW l \in DOMAIN events',
                      events'[l].from = j, events'[l].kind \in Kinds, m > events'[l].at
               PROVE  Unread(j, m)'
    BY <1>1 DEF Follows
  <2>1. Unread(j, m)
    BY <1>0, <1>5 DEF Follows
  <2>2. CASE j = e.from
    <3>1. e.at < events'[l].at
      BY <2>2, <1>7
    <3>2. e.at \in Nat /\ events'[l].at \in Nat /\ m \in Nat
      BY <1>2, <1>5, <1>0, Elements
    <3>3. m # e.at
      BY <3>1, <3>2
    <3>4. QED BY <2>1, <3>3, <1>10
  <2>3. CASE j # e.from
    BY <2>1, <2>3, <1>10
  <2>4. QED BY <2>2, <2>3
<1>15. QED
  BY <1>2, <1>3, <1>4, <1>5, <1>7, <1>8, <1>9, <1>10, <1>11, <1>12, <1>13, <1>14

\* What GoOn and End leave true.
LEMMA Goes ==
  ASSUME IInv, pc \in {"drain", "drainAgain", "wait"},
         GoOn \/ \E v \in Verdicts : End(v) /\ now' = now,
         due' = due
  PROVE  /\ pc' \in {"drain", "drainAgain", "wait", "done"} /\ stopped' \in BOOLEAN
         /\ verdict' \in Verdicts /\ now' \in Candidates /\ due' \in Candidates /\ now' <= due'
         /\ stopped => stopped'
         /\ GoOn => pc' # "done" /\ verdict' = "open"
<1>0. TypeInv /\ Launches /\ Outcome /\ now \in Nat /\ due \in Nat
  BY HedgeAssumption DEF IInv, TypeInv, Candidates
<1>1. CASE GoOn
  BY <1>0, <1>1 DEF GoOn, TypeInv, Launches, Outcome, Verdicts
<1>2. CASE \E v \in Verdicts : End(v) /\ now' = now
  BY <1>0, <1>2 DEF GoOn, End, TypeInv, Launches, Outcome, Verdicts
<1>3. QED BY <1>1, <1>2

\* What an event leaves alone that records no failure, and what it then leaves true.
LEMMA NoFailure ==
  ASSUME IInv, pc \in {"drain", "drainAgain", "wait"}, events # <<>>, events' = Tail(events),
         NEW e, e = Head(events), UNCHANGED <<next, due, attemptVars, active, failures>>,
         GoOn \/ \E v \in Verdicts : End(v) /\ now' = now
  PROVE  /\ Launches' /\ Channel' /\ Failures' /\ Failed' = Failed /\ Pending' = Pending
         /\ Working' = Working
         /\ winner' \in 0..N /\ canceled' \subseteq Candidates /\ heard' \in Seq(Candidates \X Nat)
              => TypeInv'
<1>0. /\ TypeInv /\ Launches /\ Channel /\ Failures
  BY DEF IInv
<1>1. /\ attempt' = attempt /\ box' = box /\ said' = said /\ next' = next /\ due' = due
      /\ active' = active /\ failures' = failures /\ Failed' = Failed
  BY DEF attemptVars, Failed
<1>2. /\ pc' \in {"drain", "drainAgain", "wait", "done"} /\ stopped' \in BOOLEAN
      /\ verdict' \in Verdicts /\ now' \in Candidates /\ now' <= due'
  BY <1>1, Goes
<1>3. /\ events' \in Seq(Events) /\ Len(events') <= N
      /\ \A k \in DOMAIN events' : k + 1 \in DOMAIN events /\ events'[k] = events[k + 1]
  BY <1>1, ReadEvent
<1>4. Launches'
  BY <1>0, <1>1, <1>2 DEF Launches, Launched
<1>5. Channel'
  <2> SUFFICES ASSUME NEW l \in DOMAIN events', NEW x, x = events'[l] PROVE Truthful(x)'
    BY DEF Channel, Truthful
  <2>1. Truthful(x)
    BY <1>0, <1>3 DEF Channel
  <2>2. QED BY <2>1, <1>1 DEF Truthful, Launched, Says
<1>6. Failures' /\ Pending' = Pending /\ Working' = Working
  BY <1>0, <1>1 DEF Failures, Pending, Working, Launched
<1>7. ASSUME winner' \in 0..N, canceled' \subseteq Candidates, heard' \in Seq(Candidates \X Nat)
      PROVE  TypeInv'
  BY <1>0, <1>1, <1>2, <1>3, <1>7 DEF TypeInv
<1>8. QED BY <1>1, <1>4, <1>5, <1>6, <1>7

\* A chunk that is heard: the first meaningful one, or one of the winner's.
LEMMA HeardPreserves ==
  ASSUME IInv, pc \in {"drain", "drainAgain", "wait"}, events # <<>>, events' = Tail(events),
         NEW e, e = Head(events), UNCHANGED <<next, due, attemptVars, active, failures>>,
         e.kind \in Kinds, winner' = e.from, Yield(e), canceled' \subseteq Candidates,
         verdict' # "failed"
  PROVE  IInv'
<1>0. /\ TypeInv /\ Launches /\ Boxes /\ Channel /\ Order /\ Failures /\ Race /\ Rest /\ Voice
      /\ Outcome /\ Counting /\ Alive /\ Follows
  BY DEF IInv
<1>1. /\ attempt' = attempt /\ box' = box /\ said' = said /\ active' = active
      /\ heard' = Append(heard, <<e.from, e.at>>)
  BY DEF attemptVars, Yield
<1>2. GoOn \/ (End("unwanted") /\ now' = now)
  BY DEF Yield
<1>3. GoOn \/ \E v \in Verdicts : End(v) /\ now' = now
  BY <1>2 DEF Verdicts
<1>r. /\ e \in Events /\ e.from \in Candidates /\ Truthful(e) /\ 1 \in DOMAIN events /\ e = events[1]
      /\ \A k \in DOMAIN events' : events'[k].from = e.from =>
              (events'[k].kind \in Kinds => e.at < events'[k].at)
      /\ \A j \in Candidates : \A m \in DOMAIN said[j] :
              Unread(j, m) /\ ~(j = e.from /\ e.kind \in Kinds /\ m = e.at) => Unread(j, m)'
      /\ Boxes' /\ Order' /\ Follows'
  BY ReadEvent
<1>4. e.at \in Nat /\ e.from # 0 /\ e.from \in 0..N
  BY <1>r, HedgeAssumption DEF Events, Candidates
<1>5. /\ heard' \in Seq(Candidates \X Nat) /\ heard' # <<>>
      /\ heard'[Len(heard')][1] = e.from /\ Position' = e.at
  <2>1. heard \in Seq(Candidates \X Nat) /\ <<e.from, e.at>> \in Candidates \X Nat
    BY <1>0, <1>4, <1>r DEF TypeInv
  <2>2. /\ heard' \in Seq(Candidates \X Nat) /\ Len(heard') = Len(heard) + 1 /\ heard' # <<>>
        /\ heard'[Len(heard')] = <<e.from, e.at>>
    BY <2>1, <1>1
  <2>3. QED BY <2>1, <2>2 DEF Position
<1>n. /\ Launches' /\ Channel' /\ Failures' /\ Failed' = Failed /\ Pending' = Pending /\ TypeInv'
  BY <1>3, <1>4, <1>5, NoFailure
<1>6. Rest'
  <2>1. Position' \in DOMAIN said'[e.from]
    BY <1>1, <1>5, <1>r DEF Truthful
  <2>2. ASSUME NEW m \in DOMAIN said[e.from], m > e.at PROVE Unread(e.from, m)'
    <3>1. Unread(e.from, m)
      BY <2>2, <1>0, <1>r DEF Follows
    <3>2. m # e.at
      <4>1. m \in Nat
        BY <1>0, <1>r, Elements
      <4>2. QED BY <4>1, <2>2, <1>4
    <3>3. QED BY <3>1, <3>2, <1>r
  <2>3. ASSUME NEW k \in DOMAIN events', events'[k].from = e.from, events'[k].kind \in Kinds
        PROVE  events'[k].at > e.at
    <3>0. events' \in Seq(Events)
      BY <1>n DEF TypeInv
    <3>2. events'[k] \in Events
      BY <3>0
    <3>1. events'[k].at \in Nat
      BY <3>2 DEF Events
    <3>3. QED BY <2>3, <3>1, <1>4, <1>r
  <2>4. box[e.from].kind \in Kinds => Len(said[e.from]) > e.at
    BY <1>0, <1>4, <1>r, Elements DEF Truthful
  <2>5. QED BY <2>1, <2>2, <2>3, <2>4, <1>1, <1>5 DEF Rest
<1>7. Voice' /\ Race'
  <2>1. Launched(e.from)'
    BY <1>1, <1>r DEF Truthful, Launched
  <2>2. QED BY <2>1, <1>4, <1>5 DEF Voice, Race
<1>8. Outcome'
  <2>1. CASE GoOn
    <3>1. pc' # "done" /\ verdict' = "open"
      BY <2>1, Goes
    <3>2. QED BY <3>1 DEF Outcome
  <2>2. CASE End("unwanted")
    BY <2>2 DEF Outcome, End
  <2>3. QED BY <2>1, <2>2, <1>2
<1>9. Counting' /\ Alive'
  BY <1>0, <1>1, <1>4 DEF Counting, Alive
<1>10. QED BY <1>r, <1>n, <1>6, <1>7, <1>8, <1>9 DEF IInv

\* While the race is open: a chunk that is no content, or how a candidate ended.
LEMMA ChoosePreserves ==
  ASSUME IInv, HandleEvent, winner = 0
  PROVE  IInv'
<1>0. /\ TypeInv /\ Launches /\ Boxes /\ Channel /\ Order /\ Failures /\ Race /\ Rest /\ Voice
      /\ Outcome /\ Counting /\ Alive /\ Follows
  BY DEF IInv
<1>e. PICK e : e = Head(events)
  OBVIOUS
<1>1. /\ pc \in {"drain", "drainAgain", "wait"} /\ events # <<>> /\ events' = Tail(events)
      /\ next' = next /\ due' = due /\ UNCHANGED attemptVars /\ Choose(e)
  BY <1>e DEF HandleEvent
<1>2. attempt' = attempt /\ box' = box /\ said' = said
  BY <1>1 DEF attemptVars
<1>r. /\ e \in Events /\ e.from \in Candidates /\ Truthful(e) /\ 1 \in DOMAIN events /\ e = events[1]
      /\ events' \in Seq(Events) /\ Len(events') <= N
      /\ \A k \in DOMAIN events' : k + 1 \in DOMAIN events /\ events'[k] = events[k + 1]
      /\ \A k \in DOMAIN events' : events'[k].from = e.from => e.kind \in Kinds
      /\ \A j \in Reported : j \in Reported' \/ (j = e.from /\ e.kind \in Terminal)
      /\ \A j \in Candidates : \A m \in DOMAIN said[j] :
              Unread(j, m) /\ ~(j = e.from /\ e.kind \in Kinds /\ m = e.at) => Unread(j, m)'
      /\ e.kind \in Terminal => \A m \in DOMAIN said[e.from] : ~Unread(e.from, m)
      /\ Boxes' /\ Order' /\ Follows'
  BY <1>1, <1>e, ReadEvent
<1>3. CASE e.kind = "content" /\ winner' = e.from
  <2>1. /\ canceled' = Losers(e.from) /\ Yield(e) /\ active' = active /\ failures' = failures
    BY <1>1, <1>3, <1>0, <1>r, HedgeAssumption DEF Choose, Terminal, Candidates
  <2>2. canceled' \subseteq Candidates
    BY <2>1 DEF Losers
  <2>3. verdict' # "failed"
    BY <2>1, <1>0, <1>1 DEF Yield, GoOn, End, Outcome
  <2>4. QED BY <2>1, <2>2, <2>3, <1>1, <1>3, <1>e, HeardPreserves DEF Kinds
<1>4. CASE e.kind \in {"prelude", "error"} /\ active' = active /\ failures' = failures /\ GoOn
           /\ winner' = winner /\ canceled' = canceled /\ heard' = heard
  <2>1. /\ Launches' /\ Channel' /\ Failures' /\ Failed' = Failed /\ Pending' = Pending /\ TypeInv'
        /\ Working' = Working
    BY <1>0, <1>1, <1>4, <1>e, NoFailure DEF TypeInv
  <2>2. Race'
    <3> SUFFICES ASSUME NEW j \in Candidates, NEW m \in DOMAIN said[j], said[j][m] = "content"
                 PROVE  Unread(j, m)'
      BY <1>2 DEF Race
    <3>1. Unread(j, m)
      BY <1>0 DEF Race
    <3>2. ~(j = e.from /\ e.kind \in Kinds /\ m = e.at)
      BY <1>4, <1>r DEF Truthful
    <3>3. QED BY <3>1, <3>2, <1>r
  <2>3. Rest' /\ Voice'
    BY <1>0, <1>4 DEF Rest, Voice
  <2>4. Outcome'
    <3>1. pc' # "done" /\ verdict' = "open"
      BY <1>1, <1>4, Goes
    <3>2. QED BY <3>1 DEF Outcome
  <2>5. Counting' /\ Alive'
    <3>1. Reported \subseteq Reported'
      BY <1>4, <1>r DEF Terminal
    <3>2. stopped' = stopped
      BY <1>4 DEF GoOn
    <3>3. QED BY <3>1, <3>2, <2>1, <1>0, <1>4 DEF Counting, Alive
  <2>6. QED BY <2>1, <2>2, <2>3, <2>4, <2>5, <1>r DEF IInv
<1>5. CASE e.kind \in Terminal /\ active' = active - 1 /\ GoOn
           /\ failures' = (IF e.kind = "failure" THEN Append(failures, e.from) ELSE failures)
           /\ winner' = winner /\ canceled' = canceled /\ heard' = heard
  <2>1. /\ attempt[e.from] = "gone" /\ Launched(e.from) /\ e.from \notin Failed
        /\ \A m \in DOMAIN said[e.from] : said[e.from][m] # "content"
    BY <1>5, <1>r, <1>0 DEF Truthful, Race
  <2>2. failures' = Append(failures, e.from)
    <3>1. e.kind # "finished"
      BY <2>1, <1>r DEF Truthful, Says
    <3>2. QED BY <3>1, <1>5 DEF Terminal
  <2>3. /\ failures' \in Seq(Candidates) /\ DOMAIN failures' = 1..(Len(failures) + 1)
        /\ failures'[Len(failures) + 1] = e.from
        /\ \A k \in 1..Len(failures) : failures'[k] = failures[k] /\ failures[k] # e.from
        /\ Len(failures) \in Nat /\ DOMAIN failures = 1..Len(failures)
    <3>1. failures \in Seq(Candidates) /\ Len(failures) \in Nat /\ DOMAIN failures = 1..Len(failures)
      BY <1>0 DEF TypeInv
    <3>2. \A k \in 1..Len(failures) : failures[k] # e.from
      BY <3>1, <2>1 DEF Failed
    <3>3. QED BY <3>1, <3>2, <2>2, <1>r
  <2>4. Failed' = Failed \cup {e.from}
    <3>1. ASSUME NEW x PROVE x \in Failed' <=> x \in Failed \cup {e.from}
      BY <2>3 DEF Failed
    <3>2. QED BY <3>1
  <2>5. /\ pc' \in {"drain", "drainAgain", "wait"} /\ stopped' = stopped /\ verdict' = "open"
        /\ now' \in Candidates /\ now' <= due'
    <3>1. pc' \in {"drain", "drainAgain", "wait"} /\ stopped' = stopped
      BY <1>1, <1>5 DEF GoOn
    <3>2. QED BY <3>1, <1>1, <1>5, Goes
  <2>6. TypeInv'
    <3>1. active' \in Int
      BY <1>0, <1>5 DEF TypeInv
    <3>2. verdict' \in Verdicts
      BY <2>5 DEF Verdicts
    <3>3. QED BY <3>1, <3>2, <2>3, <2>5, <1>0, <1>1, <1>2, <1>5, <1>r DEF TypeInv
  <2>7. Launches'
    BY <2>4, <2>5, <1>0, <1>1, <1>2 DEF Launches, Launched
  <2>8. Channel'
    <3> SUFFICES ASSUME NEW l \in DOMAIN events', NEW x, x = events'[l] PROVE Truthful(x)'
      BY DEF Channel, Truthful
    <3>1. Truthful(x)
      BY <1>0, <1>r DEF Channel
    <3>2. x.from # e.from
      BY <1>5, <1>r DEF Kinds, Terminal
    <3>3. x.from \notin Failed'
      BY <3>1, <3>2, <2>4 DEF Truthful
    <3>4. QED BY <3>1, <3>3, <1>2 DEF Truthful, Launched, Says
  <2>9. Failures'
    <3>1. \A k, l \in DOMAIN failures' : failures'[k] = failures'[l] => k = l
      BY <2>3, <1>0 DEF Failures
    <3>2. \A j \in Failed' : attempt'[j] \in {"gone", "unstarted"}
      BY <2>1, <2>4, <1>0, <1>2 DEF Failures
    <3>3. QED BY <3>1, <3>2 DEF Failures
  <2>10. Race'
    <3> SUFFICES ASSUME NEW j \in Candidates, NEW m \in DOMAIN said[j], said[j][m] = "content"
                 PROVE  Unread(j, m)'
      BY <1>2 DEF Race
    <3>1. Unread(j, m) /\ j # e.from
      BY <2>1, <1>0 DEF Race
    <3>3. QED BY <3>1, <1>r
  <2>11. Rest' /\ Voice' /\ Outcome'
    BY <2>5, <1>0, <1>5 DEF Rest, Voice, Outcome
  <2>12. Pending' = Pending \ {e.from} /\ e.from \in Pending
    BY <2>1, <2>4, <1>2, <1>r DEF Pending, Launched
  <2>13. Counting'
    <3>1. Pending \in SUBSET Candidates /\ Pending \ {e.from} \in SUBSET Candidates
      BY DEF Pending
    <3>2. IsFiniteSet(Pending) /\ Cardinality(Pending) \in Nat
      BY <3>1, Finite, HedgeAssumption
    <3>3. Cardinality(Pending \ {e.from}) = Cardinality(Pending) - 1
      BY <3>1, <3>2, <2>12, FS_RemoveElement
    <3>4. Cardinality(Pending \ {e.from}) \in 0..N
      BY <3>1, Finite
    <3>5. QED BY <3>3, <3>4, <2>12, <1>0, <1>5 DEF Counting
  <2>14. Alive'
    <3>1. Working' = Working
      BY <1>2 DEF Working
    <3>2. QED BY <3>1, <2>5, <2>12, <1>0, <1>5, <1>r DEF Alive
  <2>15. QED
    BY <2>6, <2>7, <2>8, <2>9, <2>10, <2>11, <2>13, <2>14, <1>r DEF IInv
<1>6. QED BY <1>1, <1>3, <1>4, <1>5 DEF Choose

\* Once there is a winner: its chunks are heard, its end ends the run, the rest is dropped.
LEMMA ForwardPreserves ==
  ASSUME IInv, HandleEvent, winner # 0
  PROVE  IInv'
<1>0. /\ TypeInv /\ Launches /\ Boxes /\ Channel /\ Order /\ Failures /\ Race /\ Rest /\ Voice
      /\ Outcome /\ Counting /\ Alive /\ Follows
  BY DEF IInv
<1>e. PICK e : e = Head(events)
  OBVIOUS
<1>1. /\ pc \in {"drain", "drainAgain", "wait"} /\ events # <<>> /\ events' = Tail(events)
      /\ next' = next /\ due' = due /\ UNCHANGED attemptVars
      /\ winner' = winner /\ canceled' = canceled /\ active' = active /\ failures' = failures
      /\ \/ e.from # winner /\ GoOn /\ UNCHANGED heard
         \/ e.from = winner /\ e.kind \in Kinds /\ Yield(e)
         \/ e.from = winner /\ e.kind \in Terminal /\ End("answered") /\ UNCHANGED <<heard, now>>
  BY <1>e DEF HandleEvent, Forward
<1>2. attempt' = attempt /\ box' = box /\ said' = said
  BY <1>1 DEF attemptVars
<1>3. CASE e.from = winner /\ e.kind \in Kinds /\ Yield(e)
  <2>1. canceled' \subseteq Candidates
    BY <1>0, <1>1 DEF TypeInv
  <2>2. verdict' # "failed"
    BY <1>3, <1>0, <1>1 DEF Yield, GoOn, End, Outcome
  <2>3. QED BY <2>1, <2>2, <1>1, <1>3, <1>e, HeardPreserves
<1>4. CASE (\/ e.from # winner /\ GoOn
            \/ e.from = winner /\ e.kind \in Terminal /\ End("answered") /\ now' = now)
           /\ heard' = heard
  <2>r. /\ Truthful(e) /\ e.from \in Candidates
        /\ \A k \in DOMAIN events' : k + 1 \in DOMAIN events /\ events'[k] = events[k + 1]
        /\ \A j \in Candidates : \A m \in DOMAIN said[j] :
              Unread(j, m) /\ ~(j = e.from /\ e.kind \in Kinds /\ m = e.at) => Unread(j, m)'
        /\ e.kind \in Terminal => \A m \in DOMAIN said[e.from] : ~Unread(e.from, m)
        /\ Boxes' /\ Order' /\ Follows'
    BY <1>1, <1>e, ReadEvent
  <2>0. GoOn \/ \E v \in Verdicts : End(v) /\ now' = now
    BY <1>4 DEF Verdicts
  <2>1. /\ Launches' /\ Channel' /\ Failures' /\ Failed' = Failed /\ Pending' = Pending /\ TypeInv'
    BY <2>0, <1>0, <1>1, <1>4, <1>e, NoFailure DEF TypeInv
  <2>2. Rest!2 /\ Position' = Position /\ winner \in Candidates
    BY <1>0, <1>1, <1>4 DEF Rest, Position, TypeInv, Candidates
  <2>3. Rest'
    <3>1. ASSUME NEW m \in DOMAIN said[winner], m > Position PROVE Unread(winner, m)'
      <4>1. Unread(winner, m)
        BY <2>2, <3>1
      <4>2. ~(winner = e.from /\ e.kind \in Kinds /\ m = e.at)
        BY <1>4 DEF Kinds, Terminal
      <4>3. QED BY <4>1, <4>2, <2>2, <2>r, <1>1
    <3>2. ASSUME NEW k \in DOMAIN events', events'[k].from = winner, events'[k].kind \in Kinds
          PROVE  events'[k].at > Position
      BY <3>2, <2>2, <2>r
    <3>3. QED BY <3>1, <3>2, <2>2, <1>1, <1>2 DEF Rest
  <2>4. Voice' /\ Race' /\ Counting' /\ Alive'
    BY <1>0, <1>1, <1>2, <1>4, <2>2 DEF Voice, Race, Counting, Alive, Launched
  <2>5. Outcome'
    <3>1. CASE GoOn
      <4>1. pc' # "done" /\ verdict' = "open"
        BY <3>1, <1>1, Goes
      <4>2. QED BY <4>1 DEF Outcome
    <3>2. CASE e.from = winner /\ e.kind \in Terminal /\ End("answered")
      <4>1. attempt'[winner] = "gone"
        BY <3>2, <2>r, <1>2 DEF Truthful
      <4>2. Position = Len(said[winner])
        <5>1. /\ Len(said[winner]) \in Nat /\ DOMAIN said[winner] = 1..Len(said[winner])
          BY <1>0, <2>2, Elements
        <5>2. Position \in 1..Len(said[winner])
          BY <2>2, <5>1
        <5>3. CASE Len(said[winner]) > Position
          <6>1. Len(said[winner]) \in DOMAIN said[winner]
            BY <5>1, <5>2
          <6>2. Unread(winner, Len(said[winner]))
            BY <6>1, <5>3, <2>2
          <6>3. QED BY <6>1, <6>2, <3>2, <2>r
        <5>4. QED BY <5>1, <5>2, <5>3
      <4>3. QED BY <4>1, <4>2, <3>2, <2>2, <1>1, <1>2 DEF Outcome, End
    <3>3. QED BY <3>1, <3>2, <1>4
  <2>6. QED BY <2>r, <2>1, <2>3, <2>4, <2>5 DEF IInv
<1>5. QED BY <1>1, <1>3, <1>4

--------------------------------------------------------------------------------
(* The invariant.                                                          *)

LEMMA InitIInv == Init => IInv
<1> SUFFICES ASSUME Init PROVE IInv
  OBVIOUS
<1>1. /\ pc = "begin" /\ winner = 0 /\ active = 0 /\ failures = <<>> /\ next = 1
      /\ due = 1 /\ now = 1 /\ events = <<>> /\ canceled = {} /\ stopped = FALSE
      /\ heard = <<>> /\ verdict = "open"
      /\ \A i \in Candidates : attempt[i] = "idle" /\ box[i] = NoEvent /\ said[i] = <<>>
      /\ N \in Nat /\ N >= 1
  BY HedgeAssumption DEF Init
<1>2. TypeInv
  <2>1. /\ attempt \in [Candidates -> Attempts] /\ box \in [Candidates -> Events \cup {NoEvent}]
        /\ said \in [Candidates -> Seq(Kinds)]
    BY DEF Init, Attempts
  <2>2. /\ next \in 1..(N + 1) /\ due \in Candidates /\ now \in Candidates /\ winner \in 0..N
        /\ verdict \in Verdicts /\ canceled \subseteq Candidates /\ active \in Int
        /\ pc \in {"begin", "drain", "launch", "drainAgain", "wait", "done"}
    BY <1>1 DEF Candidates, Verdicts
  <2>3. /\ failures \in Seq(Candidates) /\ events \in Seq(Events) /\ Len(events) <= N
        /\ heard \in Seq(Candidates \X Nat)
    BY <1>1
  <2>4. stopped \in BOOLEAN
    BY DEF Init
  <2>5. QED BY <2>1, <2>2, <2>3, <2>4 DEF TypeInv
<1>3. Failed = {} /\ Pending = {} /\ DOMAIN events = {}
  BY <1>1 DEF Failed, Pending, Launched
<1>4. Launches
  BY <1>1 DEF Launches, Launched, Candidates
<1>5. Boxes /\ Channel /\ Order /\ Follows
  BY <1>1, <1>3, NoEventKind DEF Boxes, BoxOf, Channel, Order, Follows, Kinds
<1>6. Failures /\ Race /\ Rest /\ Voice /\ Outcome
  BY <1>1, <1>3 DEF Failures, Race, Rest, Voice, Outcome
<1>7. Counting /\ Alive
  BY <1>1, <1>3, FS_EmptySet DEF Counting, Alive
<1>8. QED BY <1>2, <1>4, <1>5, <1>6, <1>7 DEF IInv

LEMMA StepIInv == IInv /\ [Next]_vars => IInv'
<1> SUFFICES ASSUME IInv, [Next]_vars PROVE IInv'
  OBVIOUS
<1>1. ASSUME NEW i \in Candidates, Model(i) \/ Goroutine(i) PROVE IInv'
  BY <1>1, SayPreserves, SendPreserves, GoroutinePreserves DEF Model, Goroutine
<1>2. CASE Loop
  BY <1>2, LaunchPreserves, ControlPreserves, CheckPreserves, ChoosePreserves, ForwardPreserves
  DEF Loop
<1>3. CASE TimePasses \/ CallerCancels
  BY <1>3, ControlPreserves
<1>4. CASE UNCHANGED vars
  <2>1. TypeInv /\ Outcome /\ Launches
    BY DEF IInv
  <2>2. /\ UNCHANGED <<winner, active, failures, next, canceled, heard, attempt, box, said, events>>
        /\ pc' = pc /\ now' = now /\ due' = due /\ stopped' = stopped /\ verdict' = verdict
    BY <1>4 DEF vars, loopVars, attemptVars
  <2>3. TypeInv'
    BY <2>1, <2>2 DEF TypeInv
  <2>4. Outcome' /\ now' <= due'
    BY <2>1, <2>2 DEF Outcome, Failed, Position, Launches
  <2>5. QED BY <2>2, <2>3, <2>4, ControlStep
<1>5. QED BY <1>1, <1>2, <1>3, <1>4 DEF Next

THEOREM Inductive == Spec => []IInv
BY InitIInv, StepIInv, PTL DEF Spec

--------------------------------------------------------------------------------
(* What the invariant gives.                                               *)

LEMMA IInvImplies ==
  IInv => TypeOK /\ ActiveIsExact /\ FailureMeansAll /\ NeverSilent /\ WholeAnswer
<1> SUFFICES ASSUME IInv
             PROVE  TypeOK /\ ActiveIsExact /\ FailureMeansAll /\ NeverSilent /\ WholeAnswer
  OBVIOUS
<1>1. /\ TypeInv /\ Failures /\ Rest /\ Voice /\ Outcome /\ Counting /\ Alive
  BY DEF IInv
<1>2. TypeOK
  BY <1>1 DEF TypeOK, TypeInv, Counting
<1>3. ActiveIsExact /\ NeverSilent /\ FailureMeansAll
  BY <1>1 DEF ActiveIsExact, NeverSilent, FailureMeansAll, Counting, Alive, Outcome, Failures
<1>4. WholeAnswer
  <2> SUFFICES ASSUME verdict = "answered"
               PROVE  heard[Len(heard)] = <<winner, Len(said[winner])>>
    BY DEF WholeAnswer
  <2>1. heard # <<>> /\ heard \in Seq(Candidates \X Nat)
    BY <1>1 DEF Voice, Outcome, TypeInv
  <2>2. heard[Len(heard)] \in Candidates \X Nat
    BY <2>1
  <2>3. heard[Len(heard)][1] = winner /\ heard[Len(heard)][2] = Len(said[winner])
    BY <1>1 DEF Voice, Outcome, Position
  <2>4. QED BY <2>2, <2>3
<1>5. QED BY <1>2, <1>3, <1>4

\* For any number of candidates: types, and eventChan never holds more than N events.
THEOREM TypeCorrect == Spec => []TypeOK
BY Inductive, IInvImplies, PTL

\* activeCount of handleEvent is the number of launched candidates that have not
\* failed, and each of these is at work or has its last event unread.
THEOREM CountTheorem == Spec => []ActiveIsExact
BY Inductive, IInvImplies, PTL

\* buildFailureResponse is reached only when every candidate has failed, each once.
THEOREM FailureTheorem == Spec => []FailureMeansAll
BY Inductive, IInvImplies, PTL

\* advance never returns with nothing to report.
THEOREM SilentTheorem == Spec => []NeverSilent
BY Inductive, IInvImplies, PTL

\* The winner's end is read after its last chunk.
THEOREM WholeTheorem == Spec => []WholeAnswer
BY Inductive, IInvImplies, PTL

\* A candidate that could be launched and was not counted has failed.
LEMMA NobodyPending ==
  ASSUME IInv, winner = 0, active = 0, NEW j \in Candidates, j < next
  PROVE  j \in Failed
<1>0. /\ TypeInv /\ Launches /\ Counting
  BY DEF IInv
<1>1. Pending = {}
  <2>1. Pending \in SUBSET Candidates
    BY DEF Pending
  <2>2. IsFiniteSet(Pending) /\ Cardinality(Pending) = 0
    BY <2>1, <1>0, Finite DEF Counting
  <2>3. QED BY <2>2, FS_EmptySet
<1>2. attempt[j] # "idle"
  BY <1>0, HedgeAssumption DEF Launches, TypeInv, Candidates
<1>3. QED BY <1>0, <1>1, <1>2 DEF Pending, Launches, Launched

\* Only Begin and Launch make an idle candidate something else.
LEMMA IdleStep ==
  ASSUME IInv, Next, NEW i \in Candidates, attempt[i] = "idle", attempt'[i] # "idle"
  PROVE  (Begin /\ i = 1) \/ (Launch /\ i = next)
<1>0. TypeInv
  BY DEF IInv
<1>1. ASSUME NEW j \in Candidates, Model(j) \/ Goroutine(j) PROVE FALSE
  <2>1. attempt[j] \in {"running", "sending", "ending"} /\ \E b : attempt' = [attempt EXCEPT ![j] = b]
    BY <1>1 DEF Model, Goroutine, Say, EndStream, Send, GiveUp, Report
  <2>2. i # j
    BY <2>1
  <2>3. QED BY <2>1, <2>2, <1>0 DEF TypeInv
<1>2. CASE Loop
  <2>1. Begin \/ Launch
    BY <1>2 DEF Loop, HandleEvent, Drained, NoneToLaunch, Check, TimerFires, ContextDone, attemptVars
  <2>2. CASE Begin
    <3>1. \E b : attempt' = [attempt EXCEPT ![1] = b]
      BY <2>2 DEF Begin, LaunchAttempt
    <3>2. QED BY <2>2, <3>1, <1>0 DEF TypeInv
  <2>3. CASE Launch
    <3>1. \E b : attempt' = [attempt EXCEPT ![next] = b]
      BY <2>3 DEF Launch, LaunchAttempt
    <3>2. QED BY <2>3, <3>1, <1>0 DEF TypeInv
  <2>4. QED BY <2>1, <2>2, <2>3
<1>3. CASE TimePasses \/ CallerCancels
  BY <1>3 DEF TimePasses, CallerCancels, attemptVars
<1>4. QED BY <1>1, <1>2, <1>3 DEF Next

\* launchReadyAttempts: a candidate is launched ahead of its time only when all
\* candidates before it have failed, and none once there is a winner.
THEOREM EarlyTheorem == Spec => EarlyOnlyAfterFailures
<1>1. ASSUME IInv, [Next]_vars
      PROVE  [\A i \in Candidates : attempt[i] = "idle" /\ attempt'[i] # "idle" =>
                /\ winner = 0
                /\ i <= due \/ \A j \in 1..(i - 1) : j \in Failed]_vars
  <2> SUFFICES ASSUME Next, NEW i \in Candidates, attempt[i] = "idle", attempt'[i] # "idle"
               PROVE  /\ winner = 0
                      /\ i <= due \/ \A j \in 1..(i - 1) : j \in Failed
    BY <1>1
  <2>0. TypeInv /\ Launches /\ Voice /\ N \in Nat /\ N >= 1
    BY <1>1, HedgeAssumption DEF IInv
  <2>1. CASE Begin /\ i = 1
    <3>1. next = 1
      BY <2>0, <2>1 DEF Begin, Launches
    <3>2. ~Launched(winner) \/ winner = 0
      BY <2>0, <3>1 DEF Launches, Launched, TypeInv, Candidates
    <3>3. winner = 0 /\ 1 <= due
      BY <3>2, <2>0 DEF Voice, TypeInv, Candidates
    <3>4. QED BY <3>3, <2>1
  <2>2. CASE Launch /\ i = next
    <3>1. winner = 0 /\ (next <= now \/ active = 0)
      BY <2>2 DEF Launch, MayLaunch
    <3>2. CASE next <= now
      <4>1. next \in Nat /\ now \in Nat /\ due \in Nat /\ now <= due
        BY <2>0 DEF TypeInv, Launches, Candidates
      <4>2. QED BY <4>1, <3>1, <3>2, <2>2
    <3>3. CASE active = 0
      <4>1. ASSUME NEW j \in 1..(i - 1) PROVE j \in Failed
        <5>1. j \in Candidates /\ j < next
          BY <2>0, <2>2 DEF Candidates
        <5>2. QED BY <5>1, <3>1, <3>3, <1>1, NobodyPending
      <4>2. QED BY <4>1, <3>1
    <3>4. QED BY <3>1, <3>2, <3>3
  <2>3. QED BY <2>1, <2>2, <1>1, IdleStep
<1>2. QED BY Inductive, <1>1, PTL DEF Spec, EarlyOnlyAfterFailures

--------------------------------------------------------------------------------
(* The refinement: what a step of the code is for the caller.              *)

\* The chunk read by Choose is its candidate's first meaningful one, the chunk read by
\* Forward is the one after the chunk heard last.
LEMMA NothingBefore ==
  ASSUME IInv, events # <<>>, NEW e, e = Head(events), e.kind \in Kinds,
         NEW m \in DOMAIN said[e.from], m < e.at, e.from \in Candidates
  PROVE  ~Unread(e.from, m)
<1>0. TypeInv /\ Channel /\ Order
  BY DEF IInv
<1>1. /\ 1 \in DOMAIN events /\ e = events[1] /\ Truthful(e) /\ e.at \in Nat
      /\ DOMAIN events = 1..Len(events) /\ Len(events) \in Nat
      /\ \A k \in DOMAIN events : events[k].at \in Nat
      /\ DOMAIN said[e.from] = 1..Len(said[e.from]) /\ Len(said[e.from]) \in Nat
  BY SMTT(30), <1>0, Elements DEF Channel, TypeInv
<1>2. m # Len(said[e.from]) /\ m \in Nat
  BY <1>1 DEF Truthful
<1>3. ~InFlight(e.from, m)
  <2>1. SUFFICES ASSUME NEW k \in DOMAIN events, events[k].from = e.from, events[k].kind \in Kinds,
                        events[k].at = m
                 PROVE  FALSE
    BY DEF InFlight
  <2>2. k # 1
    BY <2>1, <1>1
  <2>3. e.at < events[k].at
    BY <2>1, <2>2, <1>0, <1>1 DEF Order
  <2>4. QED BY <2>1, <2>3, <1>1
<1>4. QED BY <1>2, <1>3 DEF Unread

\* What the caller sees of a launch: nothing, or a refusal.
LEMMA LaunchRefuses ==
  ASSUME IInv, NEW i \in Candidates, i = next, winner = 0, LaunchAttempt(i),
         UNCHANGED <<said, heard, verdict>>
  PROVE  [Promise!Next]_(Promise!vars)
<1>0. TypeInv /\ Launches /\ Failures
  BY DEF IInv
<1>1. attempt[i] = "idle" /\ i \notin Failed /\ said[i] = <<>>
  <2>1. i <= i
    BY HedgeAssumption DEF Candidates
  <2>2. attempt[i] = "idle"
    BY <2>1, <1>0 DEF Launches
  <2>3. QED BY <2>2, <1>0 DEF Launches, Launched, Failures
<1>2. CASE failures' = failures
  BY <1>2 DEF Promise!vars, Failed
<1>3. CASE failures' = Append(failures, i)
  <2>1. failures \in Seq(Candidates)
    BY <1>0 DEF TypeInv
  <2>2. /\ DOMAIN failures' = 1..(Len(failures) + 1) /\ failures'[Len(failures) + 1] = i
        /\ \A k \in 1..Len(failures) : failures'[k] = failures[k]
        /\ Len(failures) \in Nat /\ DOMAIN failures = 1..Len(failures)
    BY <2>1, <1>3
  <2>3. ASSUME NEW x PROVE x \in Failed' <=> x \in Failed \cup {i}
    BY <2>2 DEF Failed
  <2>4. Promise!Refuse(i)
    BY <2>3, <1>1 DEF Promise!Refuse
  <2>5. QED BY <2>4 DEF Promise!Next
<1>4. QED BY <1>2, <1>3 DEF LaunchAttempt

\* What the caller sees of an event: a chunk, a refusal, or nothing.
LEMMA HandleRefines ==
  ASSUME IInv, HandleEvent
  PROVE  [Promise!Next]_(Promise!vars)
<1>0. /\ TypeInv /\ Launches /\ Boxes /\ Channel /\ Order /\ Failures /\ Race /\ Rest /\ Voice
      /\ Outcome /\ Counting /\ Alive /\ Follows
  BY DEF IInv
<1>e. PICK e : e = Head(events)
  OBVIOUS
<1>1. /\ pc \in {"drain", "drainAgain", "wait"} /\ events # <<>> /\ events' = Tail(events)
      /\ UNCHANGED attemptVars /\ said' = said /\ verdict = "open"
      /\ winner = 0 => Choose(e)
      /\ winner # 0 => Forward(e)
  BY <1>0, <1>e DEF HandleEvent, attemptVars, Outcome
<1>r. /\ e \in Events /\ e.from \in Candidates /\ Truthful(e) /\ e.from \notin Failed
      /\ e.kind \in Terminal => \A m \in DOMAIN said[e.from] : ~Unread(e.from, m)
      /\ DOMAIN said[e.from] = 1..Len(said[e.from]) /\ Len(said[e.from]) \in Nat
      /\ e.at \in Nat
  <2>1. /\ e \in Events /\ e.from \in Candidates /\ Truthful(e)
        /\ e.kind \in Terminal => \A m \in DOMAIN said[e.from] : ~Unread(e.from, m)
    BY <1>1, <1>e, ReadEvent
  <2>2. QED BY <2>1, <1>0, Elements DEF Truthful, Events
<1>2. ASSUME failures' = failures, heard' = Append(heard, <<e.from, e.at>>), e.at \in DOMAIN said[e.from],
             \/ heard = <<>> /\ Promise!Starts(e.from, e.at)
             \/ Promise!Continues(e.from, e.at),
             verdict' # "failed"
      PROVE  Promise!Next
  BY <1>1, <1>2, <1>r DEF Promise!Next, Promise!Hear, Failed
<1>3. ASSUME failures' = failures, heard' = heard, verdict' # "failed" PROVE UNCHANGED Promise!vars
  BY <1>1, <1>3 DEF Promise!vars, Failed
<1>4. ASSUME Yield(e) PROVE verdict' # "failed" /\ heard' = Append(heard, <<e.from, e.at>>)
  BY <1>1, <1>4 DEF Yield, GoOn, End
<1>5. CASE winner = 0 /\ e.kind = "content" /\ Yield(e) /\ failures' = failures
  <2>1. heard = <<>> /\ e.at \in DOMAIN said[e.from] /\ said[e.from][e.at] = "content"
    BY <1>0, <1>5, <1>r DEF Voice, Truthful, Kinds
  <2>2. ASSUME NEW m \in 1..(e.at - 1) PROVE said[e.from][m] # "content"
    <3>1. m \in DOMAIN said[e.from] /\ m < e.at
      BY <2>1, <1>r
    <3>2. ~Unread(e.from, m)
      BY <3>1, <1>1, <1>e, <1>5, <1>r, NothingBefore DEF Kinds
    <3>3. QED BY <3>1, <3>2, <1>0, <1>5, <1>r DEF Race
  <2>3. Promise!Starts(e.from, e.at)
    BY <2>1, <2>2 DEF Promise!Starts
  <2>4. QED BY <2>1, <2>3, <1>2, <1>4, <1>5
<1>6. CASE winner = 0 /\ e.kind \in {"prelude", "error"} /\ failures' = failures /\ heard' = heard /\ GoOn
  BY <1>1, <1>3, <1>6 DEF GoOn
<1>7. CASE winner = 0 /\ e.kind \in Terminal /\ heard' = heard /\ GoOn
           /\ failures' = (IF e.kind = "failure" THEN Append(failures, e.from) ELSE failures)
  <2>1. \A m \in DOMAIN said[e.from] : said[e.from][m] # "content"
    BY <1>0, <1>7, <1>r DEF Race
  <2>2. failures' = Append(failures, e.from)
    <3>1. e.kind # "finished"
      BY <2>1, <1>r DEF Truthful, Says
    <3>2. QED BY <3>1, <1>7 DEF Terminal
  <2>3. failures \in Seq(Candidates)
    BY <1>0 DEF TypeInv
  <2>4. /\ DOMAIN failures' = 1..(Len(failures) + 1) /\ failures'[Len(failures) + 1] = e.from
        /\ \A k \in 1..Len(failures) : failures'[k] = failures[k]
        /\ Len(failures) \in Nat /\ DOMAIN failures = 1..Len(failures)
    BY <2>2, <2>3, <1>r
  <2>5. ASSUME NEW x PROVE x \in Failed' <=> x \in Failed \cup {e.from}
    BY <2>4 DEF Failed
  <2>6. Promise!Refuse(e.from)
    BY <2>1, <2>5, <1>1, <1>7, <1>r DEF Promise!Refuse, GoOn
  <2>7. QED BY <2>6, <1>r DEF Promise!Next
<1>8. CASE winner # 0 /\ e.from = winner /\ e.kind \in Kinds /\ Yield(e) /\ failures' = failures
  <2>1. heard # <<>> /\ heard \in Seq(Candidates \X Nat) /\ Rest!2
    BY <1>0, <1>8 DEF Voice, Rest, TypeInv
  <2>2. /\ heard[Len(heard)] \in Candidates \X Nat
        /\ heard[Len(heard)] = <<winner, Position>> /\ Position \in Nat
    <3>1. heard[Len(heard)] \in Candidates \X Nat
      BY <2>1
    <3>2. QED BY <3>1, <1>0, <1>8 DEF Voice, Position
  <2>3. e.at \in DOMAIN said[e.from] /\ e.at > Position
    <3>1. 1 \in DOMAIN events /\ events[1] = e
      BY <1>1, <1>e, ReadEvent
    <3>2. QED BY <3>1, <2>1, <1>8, <1>r DEF Truthful
  <2>4. e.at = Position + 1
    <3>1. SUFFICES ASSUME Position + 1 < e.at PROVE FALSE
      BY <2>2, <2>3, <1>r
    <3>2. Position + 1 \in DOMAIN said[e.from]
      BY <3>1, <2>2, <2>3, <1>r
    <3>3. Unread(winner, Position + 1)
      BY <3>2, <2>1, <2>2, <1>8
    <3>4. QED BY <3>1, <3>2, <3>3, <1>1, <1>e, <1>8, <1>r, NothingBefore
  <2>5. Promise!Continues(e.from, e.at)
    BY <2>1, <2>2, <2>3, <2>4, <1>8 DEF Promise!Continues
  <2>6. QED BY <2>3, <2>5, <1>2, <1>4, <1>8
<1>9. CASE winner # 0 /\ failures' = failures /\ heard' = heard /\ (GoOn \/ End("answered"))
  <2>1. verdict' # "failed"
    BY <1>1, <1>9 DEF GoOn, End
  <2>2. QED BY <2>1, <1>3, <1>9
<1>10. CASE winner = 0
  BY <1>1, <1>5, <1>6, <1>7, <1>10 DEF Choose
<1>11. CASE winner # 0
  BY <1>1, <1>8, <1>9, <1>11 DEF Forward
<1>12. QED BY <1>10, <1>11

LEMMA StepRefines == IInv /\ [Next]_vars => [Promise!Next]_(Promise!vars)
<1> SUFFICES ASSUME IInv, [Next]_vars PROVE [Promise!Next]_(Promise!vars)
  OBVIOUS
<1>0. TypeInv /\ Launches /\ Voice /\ Outcome /\ Failures /\ N \in Nat /\ N >= 1
  BY HedgeAssumption DEF IInv
<1>1. ASSUME said' = said, heard' = heard, failures' = failures,
             (verdict' = "failed") <=> (verdict = "failed")
      PROVE  UNCHANGED Promise!vars
  BY <1>1 DEF Promise!vars, Failed
<1>2. ASSUME NEW i \in Candidates, NEW k \in Kinds, Say(i, k) PROVE Promise!Next
  <2>1. i \notin Failed
    BY <1>0, <1>2 DEF Say, Failures
  <2>2. Promise!Say(i, k)
    BY <2>1, <1>2 DEF Say, Promise!Say, loopVars, Failed
  <2>3. QED BY <2>2 DEF Promise!Next
<1>3. ASSUME NEW i \in Candidates, EndStream(i) \/ Goroutine(i) PROVE UNCHANGED Promise!vars
  BY <1>1, <1>3 DEF EndStream, Goroutine, Send, GiveUp, Report, loopVars
<1>4. CASE Begin \/ Launch
  <2>1. CASE Begin
    <3>1. next = 1 /\ 1 \in Candidates
      BY <2>1, <1>0 DEF Begin, Launches, Candidates
    <3>2. ~Launched(winner) \/ winner = 0
      BY <3>1, <1>0 DEF Launches, Launched, TypeInv, Candidates
    <3>3. QED BY <3>1, <3>2, <2>1, <1>0, LaunchRefuses DEF Begin, Voice
  <2>2. CASE Launch
    <3>1. next \in Candidates
      BY <2>2, <1>0 DEF Launch, MayLaunch, TypeInv, Candidates
    <3>2. QED BY <3>1, <2>2, LaunchRefuses DEF Launch, MayLaunch
  <2>3. QED BY <2>1, <2>2, <1>4
<1>5. CASE Drained \/ NoneToLaunch \/ TimerFires \/ ContextDone \/ TimePasses \/ CallerCancels
           \/ UNCHANGED vars
  BY <1>0, <1>1, <1>5 DEF Drained, NoneToLaunch, TimerFires, ContextDone, TimePasses, CallerCancels,
     GoOn, End, Outcome, vars, loopVars, attemptVars
<1>6. CASE Check
  <2>1. said' = said /\ heard' = heard /\ failures' = failures /\ verdict = "open"
    BY <1>0, <1>6 DEF Check, attemptVars, Outcome
  <2>2. CASE verdict' = "failed"
    <3>1. /\ Failed' = Failed /\ heard = <<>>
      BY <2>1, <2>2, <1>0, <1>6 DEF Check, Voice, Failed
    <3>2. Outcome'
      BY <1>6, CheckPreserves DEF IInv
    <3>3. Failed = Candidates
      BY <3>1, <3>2, <2>2 DEF Outcome
    <3>4. Promise!TellFailure
      BY <3>1, <3>3, <2>1, <2>2 DEF Promise!TellFailure
    <3>5. QED BY <3>4 DEF Promise!Next
  <2>3. CASE verdict' # "failed"
    BY <2>1, <2>3, <1>1
  <2>4. QED BY <2>2, <2>3
<1>7. CASE HandleEvent
  BY <1>7, HandleRefines
<1>8. QED
  BY <1>2, <1>3, <1>4, <1>5, <1>6, <1>7 DEF Next, Loop, Model

\* For any number of candidates and any streams the caller hears one candidate, from its
\* first meaningful chunk on and without a gap, or is told of a failure when all have failed.
THEOREM Implements == Spec => ImplementsFirstAnswer
<1>1. Init => Promise!Init
  BY DEF Init, Promise!Init, Failed
<1>2. QED BY <1>1, StepRefines, Inductive, PTL DEF Spec, ImplementsFirstAnswer, Promise!Spec
================================================================================
