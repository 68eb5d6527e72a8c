------------------------------ MODULE MC_Logger ------------------------------
(* Two IO threads sharing the Sharder's Logger, two calls each, while the *)
(* clock passes two seconds.                                              *)
EXTENDS Logger

CONSTANTS io1, io2

MCThreads == {io1, io2}
=============================================================================
