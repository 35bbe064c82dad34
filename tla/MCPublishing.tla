---------------------------- MODULE MCPublishing ----------------------------
(***************************************************************************)
(* An instance of Anchor and Feeder for TLC: the two ways in which         *)
(* checkpoints leave the ledger by its own doing.  They share no state, so *)
(* that their interleavings show nothing that either alone does not: each  *)
(* runs while the other is at its initial state, where nothing of it is    *)
(* enabled that fairness speaks of.                                        *)
(***************************************************************************)
EXTENDS Anchor, Feeder

CONSTANTS w1, w2, w3

AllFaults == {"latest", "post", "update", "crash"}

WitnessOrder == <<w1, w2, w3>>

PublishingInit == Init /\ FeederInit

PublishingNext ==
    \/ FeederInit /\ Next /\ UNCHANGED feederVars
    \/ Init /\ FeederNext /\ UNCHANGED vars

PublishingSpec ==
    /\ PublishingInit
    /\ [][PublishingNext]_<<vars, feederVars>>
    /\ Fairness
    /\ FeederFairness
=============================================================================
