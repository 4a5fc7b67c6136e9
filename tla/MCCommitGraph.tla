---------------------------- MODULE MCCommitGraph ----------------------------
(***************************************************************************)
(* A history r, a, b with a merge m of a and b.  r and a are stored; a     *)
(* push brings b and m, so that m's parents are one commit of an earlier   *)
(* push and one of its own, and the shorter way to a is met first.         *)
(***************************************************************************)
EXTENDS CommitGraph, TLC

CONSTANTS r, a, b, m, w1, w2, p, q, rebuild

MCParents == (r :> <<>>) @@ (a :> <<r>>) @@ (b :> <<a>>) @@ (m :> <<a, b>>)
MCGeneration == (r :> 1) @@ (a :> 2) @@ (b :> 3) @@ (m :> 4)
MCNew == [x \in Pushes |-> IF x = q THEN <<b>> ELSE <<b, m>>]

\* The relaxed records of r and a were lost.
Lost == [c \in Commits |-> 0]

\* They were corrupted.
Corrupted == [c \in Commits |-> IF c = r THEN 5 ELSE IF c = a THEN 1 ELSE 0]
=============================================================================
