------------------------------- MODULE Loops -------------------------------
(***************************************************************************)
(* A loop over a sequence that carries a value: start before the first     *)
(* element, body[value][x] after the element x.                            *)
(*                                                                         *)
(* body is a function, not an operator, so that what a loop computes can   *)
(* be stated and proved once for all of them.                              *)
(***************************************************************************)
EXTENDS Integers, Sequences

Loop(body, start, s) ==
    LET upTo[i \in 0..Len(s)] == IF i = 0 THEN start ELSE body[upTo[i - 1]][s[i]]
    IN  upTo[Len(s)]

\* What a loop gathers that appends, for each element, the pieces it gives.
Gathered(Pieces, pieces, s) ==
    Loop([got \in Seq(Pieces) |-> [x \in DOMAIN pieces |-> got \o pieces[x]]], <<>>, s)
=============================================================================
