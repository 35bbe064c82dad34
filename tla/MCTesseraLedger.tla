-------------------------- MODULE MCTesseraLedger ---------------------------
(***************************************************************************)
(* Instances of TesseraLedger for TLC.                                     *)
(***************************************************************************)
EXTENDS TesseraLedger

AllFaults == {"append", "latest", "save", "crash"}

NoFaults == {}

(* A lookup reads the log and Tessera's latest checkpoint and nothing      *)
(* else: it meets appends, publications and crashes, and no build.         *)
MCNext ==
    \/ lookup = NoLookup /\ LedgerNext
    \/ /\ lookup # NoLookup
       /\ \/ \E h \in Handlers : LogAppend(h)
          \/ \E n \in 1 .. Len(log) : TesseraPublishes(n)
          \/ Crash
    \/ checkpoints = <<>> /\ pc = "idle" /\ LookUp

MCSpec == Init /\ [][MCNext]_vars
=============================================================================
