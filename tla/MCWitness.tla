----------------------------- MODULE MCWitness ------------------------------
(***************************************************************************)
(* Instances of Witness for TLC.                                           *)
(***************************************************************************)
EXTENDS Witness

AllFaults == {"submit", "crash", "store", "short", "stranger"}
=============================================================================
