---------------------------- MODULE GraphShapes ----------------------------
(***************************************************************************)
(* Graphs for model checking the graph executor's engines: what the        *)
(* function of a node may do, and a plain graph to start from.             *)
(***************************************************************************)
State(to) == [kind |-> "state", to |-> to]
GoTo(n)   == [kind |-> "goto", to |-> {n}]
FanOut(S) == [kind |-> "fan", to |-> S]
Asks      == [kind |-> "interrupt", to |-> {}]
Fails     == [kind |-> "fail", to |-> {}]

\* Nodes that only update the State, no join, no breakpoint, a quiet environment.
Plain(nodes, entry, edges) ==
  [nodes |-> nodes, entry |-> entry, edges |-> edges,
   joinFrom |-> [n \in nodes |-> {}], outcomes |-> [n \in nodes |-> {State({})}],
   breakBefore |-> {}, breakAfter |-> {},
   nodeBarrier |-> FALSE, canForce |-> FALSE, once |-> TRUE,
   maxCrashes |-> 0, maxFailedSaves |-> 0, maxPauses |-> 0]
=============================================================================
