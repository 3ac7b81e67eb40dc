---------------------------- MODULE MCDaemonState ----------------------------
(* Instances of DaemonState for TLC. The numbers keep the order of the     *)
(* real ones: default interval < floor < longest interval < TTL < longest  *)
(* threshold (10 < 35 < 120 < 180 < 360 s become 1 < 2 < 3 < 4 < 6).       *)
EXTENDS DaemonState

MCIvs == {1, 3}
LongIv == {3}
=============================================================================
