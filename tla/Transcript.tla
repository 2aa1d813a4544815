------------------------------ MODULE Transcript ------------------------------
(***************************************************************************)
(* What a run of the Runner promises about its session: whatever is stored *)
(* is stored once and in the order of the conversation; a queued message   *)
(* is stored at most once, in the order of acceptance, never inside a round*)
(* and never after it was discarded; the completion is the end of it.      *)
(*                                                                         *)
(* One exception: past its deadline a run may store a tool result out of   *)
(* its place, before the call it answers or after the end.                 *)
(***************************************************************************)
EXTENDS Naturals, Sequences

CONSTANT Entries   \* what may be stored, as records [kind, round, text]

VARIABLES
  session,     \* the stored entries
  lost,        \* the entries whose storing failed
  accepted,    \* how many messages were accepted; a message is its number
  discarded,   \* the messages that were discarded
  expired,     \* the deadline has passed
  over         \* the run has ended for its consumer

vars == <<session, lost, accepted, discarded, expired, over>>

Stored == {session[i] : i \in DOMAIN session}

\* Where in its round a kind of entry belongs.
Stage(k) == CASE k = "start"   -> 1
              [] k = "message" -> 2
              [] k \in {"call", "final"} -> 3
              [] OTHER -> 4

\* Rounds follow each other, stages within a round, messages as they were accepted.
Before(d, e) ==
  /\ d.text # 0 /\ e.text # 0 => d.text < e.text
  /\ \/ d.round < e.round
     \/ d.round = e.round /\ Stage(d.kind) < Stage(e.kind)
     \/ d.round = e.round /\ d.kind = "message" /\ e.kind = "message"

Acceptable(e) ==
  /\ ~over
  /\ e \notin Stored
  /\ \A d \in Stored \cup lost : Before(d, e) \/ (expired /\ d.kind = "result")
  /\ e.kind = "message" => e.text <= accepted /\ e.text \notin discarded

Init ==
  /\ session = <<>> /\ lost = {} /\ accepted = 0 /\ discarded = {}
  /\ expired = FALSE /\ over = FALSE

Store(e) ==
  /\ session' = Append(session, e)
  /\ \/ Acceptable(e)
     \/ expired /\ e.kind = "result" /\ e \notin Stored
  /\ UNCHANGED <<lost, accepted, discarded, expired, over>>

Lose(e) ==
  /\ lost' = lost \cup {e} /\ Acceptable(e)
  /\ UNCHANGED <<session, accepted, discarded, expired, over>>

Accept ==
  /\ ~over /\ accepted' = accepted + 1
  /\ UNCHANGED <<session, lost, discarded, expired, over>>

\* Only what is not stored can be discarded, during the run or after its end: a message
\* may have been accepted too late for the run to take it.
Discard ==
  /\ discarded \subseteq discarded' /\ discarded' \subseteq 1..accepted
  /\ \A e \in Stored \cup lost : e.text \notin discarded'
  /\ UNCHANGED <<session, lost, accepted, expired, over>>

Expire ==
  /\ expired' = TRUE
  /\ UNCHANGED <<session, lost, accepted, discarded, over>>

\* The consumer sees the end after the completion was stored, or could not be.
End ==
  /\ \E e \in Stored \cup lost : e.kind = "done"
  /\ over' = TRUE
  /\ UNCHANGED <<session, lost, accepted, discarded, expired>>

Next == (\E e \in Entries : Store(e) \/ Lose(e)) \/ Accept \/ Discard \/ Expire \/ End

Spec == Init /\ [][Next]_vars
===============================================================================
