--------------------------- MODULE MCMessageCenter ---------------------------
(* Instances of MessageCenter for TLC.                                     *)
EXTENDS MessageCenter

TwoStatuses == {"connected", "disconnected"}
ThreeStatuses == {"connected", "reconnecting", "disconnected"}
=============================================================================
