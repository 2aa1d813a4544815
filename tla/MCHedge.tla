-------------------------------- MODULE MCHedge --------------------------------
(* An instance of Hedge for TLC: three candidates, of which the first two    *)
(* may hang.  Between them they open with an empty chunk, go on after the    *)
(* first meaningful one, fail before or after it, and say nothing at all.    *)
EXTENDS Hedge

Prefixes(s) == {SubSeq(s, 1, n) : n \in 1..Len(s)}

MCStreams == <<Prefixes(<<"content", "error">>),
               Prefixes(<<"prelude", "content">>),
               {<<"error">>}>>
MCHung == {1, 2}
================================================================================
