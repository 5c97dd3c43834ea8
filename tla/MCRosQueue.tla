----------------------------- MODULE MCRosQueue -----------------------------
(***************************************************************************)
(* Instances of the ring buffer for TLC.                                   *)
(***************************************************************************)
EXTENDS RosQueueShow

CONSTANTS e1, e2, e3

ThreeElems == {e1, e2, e3}
=============================================================================
