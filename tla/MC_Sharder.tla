----------------------------- MODULE MC_Sharder -----------------------------
(* Three tokens with two per connection make two workers (spec.md S6); a *)
(* batch size of 1 makes each worker send one payload per token, so a    *)
(* connection can come up between two payloads.  The empty list gives    *)
(* the one idle worker.  Two faults allow a reconnect after a failed     *)
(* first connect, and two successive reconnects.  A backoff_max that is  *)
(* not a power-of-two multiple of backoff_initial makes the cap bite on *)
(* the first doubling.                                                   *)
EXTENDS Sharder

CONSTANTS t1, t2, t3
MCTokenLists == {<<t1, t2, t3>>, <<>>}
MCMaxPerConn == 2
MCBatchSize == 1
MCMaxWorkers == 2
MCMaxCred == 1
MCMaxFaults == 2
MCBackoffInitial == 2
MCBackoffMax == 3
=============================================================================
