--------------------------- MODULE MCGateWsLeader ---------------------------
(* Small instances of GateWsLeader for TLC.                                 *)
EXTENDS GateWsLeader

CONSTANTS i1, i2
=============================================================================
