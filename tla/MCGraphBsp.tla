----------------------------- MODULE MCGraphBsp -----------------------------
(***************************************************************************)
(* The graphs the BSP engine is checked on.                                 *)
(***************************************************************************)
EXTENDS GraphBsp, GraphShapes, TLC

\* split -> a, b; a -> a2; b and a2 join in j: the barrier is half full between
\* steps.  a2 asks a human.
Fork == [Plain({"split", "a", "a2", "b", "j"}, "split",
               {<<"split", "a">>, <<"split", "b">>, <<"a", "a2">>})
           EXCEPT !.joinFrom["j"] = {"a2", "b"}, !.outcomes["a2"] = {State({}), Asks},
                  !.breakBefore = {"j"}, !.breakAfter = {"a"},
                  !.maxCrashes = 1, !.maxPauses = 2]

\* A tree whose sides have different lengths, with a pause that cuts tasks off.
Tree == [Plain({"split", "a", "b", "c", "d"}, "split",
               {<<"split", "a">>, <<"split", "b">>, <<"a", "c">>, <<"split", "d">>})
           EXCEPT !.breakAfter = {"b"}, !.canForce = TRUE, !.maxCrashes = 1, !.maxPauses = 1]

\* split -> a, b side by side; b fails or chooses c by a Command or by a condition.
Route == [Plain({"split", "a", "b", "c"}, "split", {<<"split", "a">>, <<"split", "b">>})
            EXCEPT !.outcomes["b"] = {GoTo("c"), State({"c"}), Fails}, !.breakAfter = {"b"},
                   !.canForce = TRUE, !.once = FALSE, !.maxFailedSaves = 2, !.maxPauses = 2]

\* split reaches a and b by edges or by fan-out commands; they join in j, which may
\* go back to split.
Round == [Plain({"split", "a", "b", "j"}, "split", {<<"split", "a">>, <<"split", "b">>})
            EXCEPT !.joinFrom["j"] = {"a", "b"},
                   !.outcomes["split"] = {State({}), FanOut({"a", "b"})},
                   !.outcomes["j"] = {State({"split"}), State({})},
                   !.outcomes["a"] = {State({}), Fails},
                   !.breakBefore = {"b"}, !.nodeBarrier = TRUE, !.once = FALSE,
                   !.maxPauses = 2]

\* split scatters with fan-out commands, j gathers; nothing interrupts it.
Scatter == [Plain({"split", "a", "b", "c", "j"}, "split", {})
              EXCEPT !.joinFrom["j"] = {"a", "b", "c"},
                     !.outcomes["split"] = {FanOut({"a", "b", "c"})},
                     !.nodeBarrier = TRUE, !.maxFailedSaves = 1]

\* Nothing stops a step at its end: only breakpoints before nodes, pauses that wait
\* and one crash, on a fork that joins and whose conditions follow its edges.
Paused == [Plain({"split", "a", "a2", "b", "j"}, "split",
                 {<<"split", "a">>, <<"split", "b">>, <<"a", "a2">>})
             EXCEPT !.joinFrom["j"] = {"a2", "b"}, !.outcomes["a"] = {State({}), State({"a2"})},
                    !.breakBefore = {"j", "b"}, !.maxCrashes = 1, !.maxPauses = 2]

AllGraphs == {Fork, Tree, Route, Round, Scatter, Paused}

\* Two branches that join in one step, with a breakpoint at its end.
JoinBreak == {[Plain({"split", "a", "b", "j"}, "split", {<<"split", "a">>, <<"split", "b">>})
                 EXCEPT !.joinFrom["j"] = {"a", "b"}, !.breakAfter = {"a"}]}
\* Two branches that both ask a human.
BothAsk   == {[Plain({"split", "a", "b"}, "split", {<<"split", "a">>, <<"split", "b">>})
                 EXCEPT !.outcomes["a"] = {State({}), Asks}, !.outcomes["b"] = {State({}), Asks}]}
\* Two crashes of a chain.
LineCrash == {[Plain({"a", "b", "c"}, "a", {<<"a", "b">>, <<"b", "c">>}) EXCEPT !.maxCrashes = 2]}
\* A chain whose last edge is conditional, and a crash.
ChosenCrash == {[Plain({"a", "b", "c"}, "a", {<<"a", "b">>})
                   EXCEPT !.outcomes["b"] = {State({"c"})}, !.maxCrashes = 1]}
=============================================================================
