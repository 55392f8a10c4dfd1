---------------------------- MODULE TreeChannel ----------------------------
(***************************************************************************)
(* What writing a tree to a stream and reading it back promises: the tree  *)
(* that was sent is delivered, or nothing is; never another tree.          *)
(***************************************************************************)
CONSTANT Messages

VARIABLES sent, delivered    \* a set: empty, or what was delivered

Init == sent \in Messages /\ delivered = {}

Deliver == delivered = {} /\ delivered' = {sent} /\ UNCHANGED sent

Spec == Init /\ [][Deliver]_<<sent, delivered>>
=============================================================================
