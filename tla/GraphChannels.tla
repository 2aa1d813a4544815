--------------------------- MODULE GraphChannels ---------------------------
(***************************************************************************)
(* What the two engines of the graph executor share: the compiled graph,   *)
(* the channels its nodes write and are triggered by                       *)
(* (graph/internal/channel), the writes kept for the next checkpoint, and  *)
(* how a resumed execution rebuilds its channels from a checkpoint.        *)
(*                                                                         *)
(* A channel is reduced to what triggering depends on: its version, its    *)
(* availability and, for a join, the senders seen.  The virtual End node   *)
(* is never scheduled and is left out.                                     *)
(***************************************************************************)
EXTENDS Naturals, FiniteSets, FiniteSetsExt, Bags

CONSTANTS
  Graphs,   \* the graphs and options the executor may be created with
  MaxSteps  \* ExecutorOptions.MaxSteps

VARIABLES
  graph,    \* Executor.graph with its options; it never changes
  known,    \* Graph.triggerToNodes: the channels that trigger their node
  chan,     \* ExecutionContext.channels
  pendW     \* ExecutionContext.pendingWrites, a bag of <<channel, sender>>

(***************************************************************************)
(* The parts of a graph record.                                            *)
(***************************************************************************)
Nodes       == graph.nodes
Entry       == graph.entry
Edges       == graph.edges        \* AddEdge: pairs of nodes
JoinFrom    == graph.joinFrom     \* AddJoinEdge: the senders each node waits for
Outcomes    == graph.outcomes     \* what each node's function may do
BreakBefore == graph.breakBefore  \* nodes with WithInterruptBefore
BreakAfter  == graph.breakAfter   \* nodes with WithInterruptAfter
NodeBarrier == graph.nodeBarrier  \* nodes wait for their consumer (barrier.Enabled)
CanForce    == graph.canForce     \* the pause button has WithGraphInterruptTimeout
Once        == graph.once         \* every node is triggered exactly once and none can fail
\* Bounds on what the environment does.
MaxCrashes     == graph.maxCrashes
MaxFailedSaves == graph.maxFailedSaves
MaxPauses      == graph.maxPauses

Channels == {"branch", "trigger", "join"} \X Nodes
OutcomeKinds == {"state", "goto", "fan", "interrupt", "fail"}
OutcomeType(N) == [kind : OutcomeKinds, to : SUBSET N]

IsGraph(g) ==
  /\ IsFiniteSet(g.nodes) /\ g.entry \in g.nodes /\ g.edges \subseteq g.nodes \X g.nodes
  /\ g.joinFrom \in [g.nodes -> SUBSET g.nodes]
  /\ g.outcomes \in [g.nodes -> SUBSET OutcomeType(g.nodes)]
  /\ g.breakBefore \subseteq g.nodes /\ g.breakAfter \subseteq g.nodes
  /\ {g.nodeBarrier, g.canForce, g.once} \subseteq BOOLEAN
  /\ {g.maxCrashes, g.maxFailedSaves, g.maxPauses} \subseteq Nat
ASSUME GraphAssumption == \A g \in Graphs : IsGraph(g)
ASSUME StepAssumption == MaxSteps \in Nat

Target(c) == c[2]
IsJoin(c) == c[1] = "join"
-----------------------------------------------------------------------------
(***************************************************************************)
(* The compiled graph.  AddNode gives every node a trigger channel and     *)
(* AddEdge and AddJoinEdge map theirs to the node; the routes that nodes   *)
(* choose while running are added by the execution that first takes them.  *)
(***************************************************************************)
Compiled == {<<"branch", e[2]>> : e \in Edges}
              \cup {<<"join", n>> : n \in {m \in Nodes : JoinFrom[m] # {}}}
Triggers(n) == {c \in Compiled : Target(c) = n} \cup {<<"trigger", n>>}
Exists(c) == c \in known \/ c[1] = "trigger"
Writers(n) == {<<"branch", e[2]>> : e \in {d \in Edges : d[1] = n}}
                \cup {<<"join", m>> : m \in {k \in Nodes : n \in JoinFrom[k]}}

(***************************************************************************)
(* graph/internal/channel: Update, Acknowledge and SetBarrierSeen.         *)
(***************************************************************************)
EmptyChannel == [ver |-> 0, avail |-> FALSE, seen |-> {}]
Satisfied(c, seen) == JoinFrom[Target(c)] \subseteq seen
Update(c, k, senders) ==
  LET seen == IF IsJoin(c) THEN chan[c].seen \cup senders ELSE {}
  IN [ver |-> chan[c].ver + k, avail |-> IsJoin(c) => Satisfied(c, seen), seen |-> seen]
\* Mutant of Acknowledge: a barrier that keeps its senders for the next round.
AcknowledgeKeepsSet(c) == [chan[c] EXCEPT !.avail = FALSE]
Acknowledge(c) == [chan[c] EXCEPT !.avail = FALSE, !.seen = {}]

WriteAll(cs, n) == [c \in Channels |-> IF c \in cs THEN Update(c, 1, {n}) ELSE chan[c]]
PendingAll(cs, n) == pendW (+) SetToBag({<<c, n>> : c \in cs})
Available == {c \in Channels : chan[c].avail}
GetNextNodes == {Target(c) : c \in Available \cap known}
-----------------------------------------------------------------------------
(***************************************************************************)
(* restoreChannelVersions, restoreBarrierSets and applyPendingWrites for   *)
(* checkpoint k.                                                           *)
(***************************************************************************)
RestoredChannel(k, c) ==
  [ver |-> IF Exists(c) THEN k.vers[c] ELSE 0,
   seen |-> k.seen[c],
   avail |-> IsJoin(c) /\ k.seen[c] # {} /\ Satisfied(c, k.seen[c])]

\* applyPendingWrites: every write to a channel this process knows is done again.
Replayed(k, c) ==
  LET ws == {w \in BagToSet(k.writes) : w[1] = c}
      r == RestoredChannel(k, c)
      seen == IF IsJoin(c) THEN r.seen \cup {w[2] : w \in ws} ELSE {}
  IN IF ws = {} \/ ~Exists(c) THEN r
     ELSE [ver |-> r.ver + Cardinality(UNION {{w} \X (1..k.writes[w]) : w \in ws}),
           seen |-> seen, avail |-> IsJoin(c) => Satisfied(c, seen)]
=============================================================================
