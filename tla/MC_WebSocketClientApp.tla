------------------------ MODULE MC_WebSocketClientApp ------------------------
(* Two start() calls reach the double start; two network faults give a   *)
(* failed first connect and a dropped connection, or two drops in a row. *)
(* backoff_max 3 over backoff_initial 2 makes the cap bite.              *)
EXTENDS WebSocketClientApp

CONSTANTS c1
MCMaxStarts == 2
MCMaxFaults == 2
MCBackoffInitial == 2
MCBackoffMax == 3
=============================================================================
