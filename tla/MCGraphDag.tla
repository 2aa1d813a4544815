----------------------------- MODULE MCGraphDag -----------------------------
(***************************************************************************)
(* The graphs the DAG engine is checked on.                                *)
(***************************************************************************)
EXTENDS GraphDag, GraphShapes, TLC

\* A tree with breakpoints, a human and a pause that cuts tasks off.
Tree == [Plain({"split", "a", "b", "c"}, "split", {<<"split", "a">>, <<"split", "b">>, <<"a", "c">>})
           EXCEPT !.outcomes["b"] = {State({}), Asks}, !.breakBefore = {"c"}, !.breakAfter = {"a"},
                  !.canForce = TRUE, !.maxPauses = 1]
\* c is triggered by a, by b and by a route b chooses: its tasks queue up behind each other.
Twice == [Plain({"a", "b", "c"}, "a", {<<"a", "b">>, <<"a", "c">>, <<"b", "c">>})
            EXCEPT !.outcomes["b"] = {State({}), GoTo("c"), Fails}, !.once = FALSE,
                   !.canForce = TRUE, !.maxFailedSaves = 1, !.maxPauses = 1]
\* Scatter with fan-out commands, gather with a join, and a crash.
Scatter == [Plain({"split", "a", "b", "c", "j"}, "split", {})
              EXCEPT !.joinFrom["j"] = {"a", "b", "c"},
                     !.outcomes["split"] = {FanOut({"a", "b", "c"})}, !.maxCrashes = 1]
\* A conditional edge back to the start; the consumer may be late.
Ring == [Plain({"a", "b"}, "a", {<<"a", "b">>})
           EXCEPT !.outcomes["b"] = {State({"a"}), State({}), Fails}, !.nodeBarrier = TRUE,
                  !.once = FALSE, !.maxPauses = 1]
Single == Plain({"a"}, "a", {})

AllGraphs == {Tree, Twice, Scatter, Ring, Single}
Singles   == {Single}

\* A chain whose lineage is run again after it completed.
Chain  == Plain({"a", "b"}, "a", {<<"a", "b">>})
Chains == {Chain}
=============================================================================
