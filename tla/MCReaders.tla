----------------------------- MODULE MCReaders ------------------------------
(***************************************************************************)
(* An instance for TLC of the two parts that read a running ledger and     *)
(* write nothing to it: the monitor and the proof endpoints.  Neither can  *)
(* tell whether the other is there, so a behaviour has one of them, chosen *)
(* at the start, and each has bounds of its own: the endpoints need more   *)
(* rows and faults, the monitor needs fewer but every kind of fault and    *)
(* receipts that differ.                                                   *)
(***************************************************************************)
EXTENDS Monitor, ProofServer

CONSTANTS
    MonitorRows,    \* bound: rows beside the monitor
    MonitorFaults   \* bound: faults beside the monitor

VARIABLE reader  \* the part that is there

readersVars == <<allVars, request, reader>>

AllFaults == {"append", "fetch", "latest", "save", "mark", "crash", "range", "tick"}

CountsOf(i, o, vi, vo) ==
    [input |-> i, output |-> o, verifiedInput |-> vi, verifiedOutput |-> vo]

Quiet == CountsOf(100, 100, 0, 0)

(* Not verified; just within the threshold of 7 percent; exactly at it,    *)
(* where float64 rounds up, for one of the two counts; and tokens verified *)
(* where the provider reported none.                                       *)
SomeCounts ==
    {Quiet, CountsOf(100, 100, 94, 106), CountsOf(100, 100, 100, 107), CountsOf(0, 20, 1, 20)}

ReadersInit ==
    /\ MonitorInit
    /\ request = NoRequest
    /\ reader \in {"monitor", "proofs"}
    /\ \A i \in 1 .. MaxRows : reader = "proofs" \/ i > MonitorRows => counts[i] = Quiet

MonitorReads ==
    /\ reader = "monitor"
    /\ MonitorNext
    /\ rows' <= MonitorRows /\ faults' <= MonitorFaults
    /\ UNCHANGED <<request, reader>>

\* Of the faults, only these change what a request can read.
ProofsAreServed ==
    /\ reader = "proofs"
    /\ ServerNext
    /\ faults' # faults => Crash \/ \E b \in Builders : MarkBatchedFails(b)
    /\ UNCHANGED <<monitorVars, reader>>

ReadersSpec ==
    /\ ReadersInit
    /\ [][MonitorReads \/ ProofsAreServed]_readersVars
    /\ Fairness
    /\ WF_readersVars(reader = "monitor" /\ Poll /\ UNCHANGED <<request, reader>>)
=============================================================================
