---------------------------- MODULE MCLogAuditor ----------------------------
(***************************************************************************)
(* The trees for LogAuditor.                                               *)
(***************************************************************************)
EXTENDS LogAuditor

\* Every list of at most four receipts of two values.
ShortTrees == UNION {[1 .. n -> 0 .. 1] : n \in 1 .. 4}

(* One log of nine receipts, all different, its prefixes, and each prefix  *)
(* with one receipt replaced: every pair of sizes up to nine.              *)
GrowingTrees ==
    {[i \in 1 .. n |-> IF i = x THEN 0 ELSE i] : n \in 1 .. 9, x \in 0 .. 9}

AllTrees == ShortTrees \cup GrowingTrees

AllData == 0 .. 9
=============================================================================
