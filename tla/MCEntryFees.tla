---------------------------- MODULE MCEntryFees ----------------------------
(* Instances of EntryFees for TLC.                                         *)
EXTENDS EntryFees, TLC

CONSTANTS c1, c2, x1, x2

\* Two payments of one second; the first would do for two entries.
MCSender == x1 :> c1 @@ x2 :> c2
MCSent   == [x \in {x1, x2} |-> 1]
MCAmount == x1 :> 2 @@ x2 :> 1
MCFee    == [t \in Tournaments |-> 1]
=============================================================================
