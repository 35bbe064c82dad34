------------------------------ MODULE MCLedger ------------------------------
(***************************************************************************)
(* Instances of Ledger for TLC.                                            *)
(***************************************************************************)
EXTENDS Ledger

AllFaults == {"append", "fetch", "latest", "save", "mark", "crash"}

NoFaults == {}
=============================================================================
