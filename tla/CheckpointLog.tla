--------------------------- MODULE CheckpointLog ----------------------------
(***************************************************************************)
(* What the ledger promises its readers, without rows, builders or faults: *)
(* a log of receipts that only grows, and a list of published checkpoints, *)
(* each over a range of the log, that only grows and never skips a         *)
(* receipt: a new checkpoint starts at most one past what some earlier one *)
(* reached.  Ranges may overlap and repeat.  This abstract specification   *)
(* has no counterpart in the code: Ledger is shown to implement it.        *)
(***************************************************************************)
EXTENDS Naturals, Sequences

VARIABLES
    size,       \* receipts in the log
    published   \* the published checkpoints, oldest first

logVars == <<size, published>>

Span == [first : Nat, last : Nat]

LogInit ==
    /\ size = 0
    /\ published = <<>>

Grow ==
    /\ size' \in Nat
    /\ size' > size
    /\ UNCHANGED published

\* The receipts before `first` are under some checkpoint.
Reached(first) ==
    \/ first = 1
    \/ \E c \in DOMAIN published : published[c].last + 1 >= first

Publish(first, last) ==
    /\ first <= last
    /\ Reached(first)
    /\ published' = Append(published, [first |-> first, last |-> last])
    /\ UNCHANGED size

LogNext ==
    \/ Grow
    \/ \E first, last \in 1 .. size : Publish(first, last)

LogSpec == LogInit /\ [][LogNext]_logVars

-----------------------------------------------------------------------------
LogTypeOK ==
    /\ size \in Nat
    /\ published \in Seq(Span)

IsCovered(i) ==
    \E c \in DOMAIN published : published[c].first <= i /\ i <= published[c].last

(* A reader who walks the published checkpoints meets every receipt up to  *)
(* the furthest one.                                                       *)
PrefixCovered ==
    \A c \in DOMAIN published : \A i \in 1 .. published[c].last : IsCovered(i)
=============================================================================
