--------------------------- MODULE MCDaemonControl ---------------------------
(* Instances of DaemonControl for TLC.                                     *)
EXTENDS DaemonControl

\* "stop", a command consume_only callers wait for, and a word nobody knows.
MCKnown == {"stop", "retry_ib"}
MCWords == {"retry_ib", "resume"}
MCFilters == {{"retry_ib"}}
NoFilters == {}
OneWord == {"retry_ib"}
=============================================================================
