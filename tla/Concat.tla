------------------------------- MODULE Concat -------------------------------
(***************************************************************************)
(* Sequences joined into one, as an operator that can be reasoned about.   *)
(***************************************************************************)
EXTENDS Integers, Sequences

\* The first sequences joined, for every number of them: what a loop that appends one
\* after the other has after so many turns.
Joined(seqs) ==
    LET upTo[k \in 0..Len(seqs)] == IF k = 0 THEN <<>> ELSE upTo[k-1] \o seqs[k] IN upTo
=============================================================================
