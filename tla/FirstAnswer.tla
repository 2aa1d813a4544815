------------------------------ MODULE FirstAnswer ------------------------------
(***************************************************************************)
(* What a model made of several candidate models promises its caller: the  *)
(* chunks the caller hears all come from one candidate, start at that      *)
(* candidate's first decisive chunk, and are that candidate's chunks in    *)
(* the order it said them, without a gap; a failure instead of an answer   *)
(* is reported only when every candidate has refused.                      *)
(*                                                                         *)
(* Which chunks are decisive is left to the implementation; for Hedge they *)
(* are the meaningful ones.                                                *)
(***************************************************************************)
EXTENDS Naturals, Sequences

CONSTANTS Candidates,
          Kinds,       \* the kinds of chunks
          Decisive     \* the kinds that make their candidate the one to be heard

VARIABLES said,     \* said[c]: the kinds of the chunks that c has said so far
          heard,    \* the chunks given to the caller, each <<candidate, position>>
          refused,  \* the candidates that failed before anything of theirs was heard
          told      \* TRUE when the caller has been told that all failed

vars == <<said, heard, refused, told>>

Init == /\ said = [c \in Candidates |-> <<>>]
        /\ heard = <<>>
        /\ refused = {}
        /\ told = FALSE

Say(c, k) ==
  /\ c \notin refused
  /\ said' = [said EXCEPT ![c] = Append(@, k)]
  /\ UNCHANGED <<heard, refused, told>>

\* n is the first decisive chunk of c.
Starts(c, n) == /\ n \in DOMAIN said[c]
                /\ said[c][n] \in Decisive
                /\ \A m \in 1..(n - 1) : said[c][m] \notin Decisive

\* Chunk n of c is the one after the chunk heard last.
Continues(c, n) == /\ heard # <<>>
                   /\ heard[Len(heard)] = <<c, n - 1>>
                   /\ n \in DOMAIN said[c]

Hear(c, n) ==
  /\ ~told
  /\ (heard = <<>> /\ c \notin refused /\ Starts(c, n)) \/ Continues(c, n)
  /\ heard' = Append(heard, <<c, n>>)
  /\ UNCHANGED <<said, refused, told>>

Refuse(c) ==
  /\ c \notin refused
  /\ \A n \in DOMAIN said[c] : said[c][n] \notin Decisive
  /\ refused' = refused \cup {c}
  /\ UNCHANGED <<said, heard, told>>

TellFailure ==
  /\ heard = <<>>
  /\ refused = Candidates
  /\ told' = TRUE
  /\ UNCHANGED <<said, heard, refused>>

Next == \/ \E c \in Candidates :
             \/ \E k \in Kinds : Say(c, k)
             \/ \E n \in DOMAIN said[c] : Hear(c, n)
             \/ Refuse(c)
        \/ TellFailure

Spec == Init /\ [][Next]_vars
================================================================================
