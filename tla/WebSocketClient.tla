--------------------------- MODULE WebSocketClient ---------------------------
(***************************************************************************)
(* The transport of src/src/websocket_client.cpp: one IO thread per      *)
(* client running run() -> connect_once() -> read_loop(), with            *)
(* reconnect_loop() on failure, and the public start()/stop()/send_text() *)
(* called from the application thread.  Every variable is a function over *)
(* Clients so that a composing module can run several clients.            *)
(*                                                                         *)
(* pc is the IO thread's position:                                         *)
(*   "start"      spawned, before running.store(true)          (line 145) *)
(*   "connect"    inside connect_once()                         (64-111)   *)
(*   "loopcheck"  reconnect_loop's while (running && !connected) (133)     *)
(*   "sleep"      sleeping the backoff                          (139-140)  *)
(*   "resub"      calling the on_resubscribe hook               (135)      *)
(*   "rtop"       read_loop's while (running)                   (115)      *)
(*   "read"       blocked in ws->read                           (118)      *)
(*   "done"       run() has returned                                       *)
(* depth counts the reconnect_loop frames on the IO thread's stack:       *)
(* read_loop calls reconnect_loop, which calls read_loop again (125/136), *)
(* so a reconnect that succeeds never unwinds the frames below it.        *)
(*                                                                         *)
(* The callbacks on_message and on_resubscribe are the composing module's *)
(* business: ReadFrame and Resub only move the IO thread, and the         *)
(* composition conjoins what its callback does.  The network is an        *)
(* environment that may fail a connect or a read, at most MaxFaults times *)
(* in a run, and acknowledges a close.  Logging and on_state (log only in *)
(* the sharder) are left out; TLS, DNS and the handshake are one step.    *)
(***************************************************************************)
EXTENDS Integers

CONSTANTS Clients,          \* the client objects
          MaxFaults,        \* network failures in one run
          BackoffInitial,   \* opts.backoff_initial
          BackoffMax,       \* opts.backoff_max
          Creds             \* header values a client may be built with

VARIABLES
    running,     \* Impl::running
    connected,   \* Impl::connected
    hasWs,       \* Impl::ws != nullptr
    pc,          \* IO thread position (see above)
    depth,       \* reconnect_loop frames on the IO thread's stack
    backoff,     \* reconnect_loop's local backoff
    thread,      \* Impl::io_thread: "none" | "live" (joinable) | "joined"
    closeSent,   \* stop() sent a close frame on the current stream
    hdr,         \* opts.headers, fixed at construction
    connCred,    \* the header value the current connection presented
    faults       \* network failures so far

wsVars == <<running, connected, hasWs, pc, depth, backoff, thread,
            closeSent, hdr, connCred, faults>>

PCs == {"idle", "start", "connect", "loopcheck", "sleep", "resub",
        "rtop", "read", "done"}

MinOf(a, b) == IF a < b THEN a ELSE b

InitWs(h) ==
    /\ running = [c \in Clients |-> FALSE]
    /\ connected = [c \in Clients |-> FALSE]
    /\ hasWs = [c \in Clients |-> FALSE]
    /\ pc = [c \in Clients |-> "idle"]
    /\ depth = [c \in Clients |-> 0]
    /\ backoff = [c \in Clients |-> BackoffInitial]
    /\ thread = [c \in Clients |-> "none"]
    /\ closeSent = [c \in Clients |-> FALSE]
    /\ hdr = [c \in Clients |-> h]
    /\ connCred = [c \in Clients |-> h]
    /\ faults = 0

-----------------------------------------------------------------------------
(* IO thread.                                                              *)

(* run(): running.store(true), then the first connect_once(). *)
Run(c) ==
    /\ pc[c] = "start"
    /\ running' = [running EXCEPT ![c] = TRUE]
    /\ pc' = [pc EXCEPT ![c] = "connect"]
    /\ UNCHANGED <<connected, hasWs, depth, backoff, thread, closeSent, hdr,
                   connCred, faults>>

(* connect_once() succeeds: a new stream is built (line 80), the          *)
(* handshake presents opts.headers (95-97), connected = true.  Called     *)
(* from run() the thread enters read_loop; from reconnect_loop it first   *)
(* calls the resubscribe hook.                                             *)
ConnectOk(c) ==
    /\ pc[c] = "connect"
    /\ connected' = [connected EXCEPT ![c] = TRUE]
    /\ hasWs' = [hasWs EXCEPT ![c] = TRUE]
    /\ connCred' = [connCred EXCEPT ![c] = hdr[c]]
    /\ closeSent' = [closeSent EXCEPT ![c] = FALSE]
    /\ pc' = [pc EXCEPT ![c] = IF depth[c] = 0 THEN "rtop" ELSE "resub"]
    /\ UNCHANGED <<running, depth, backoff, thread, hdr, faults>>

(* connect_once() throws: before line 80 (resolve) the old stream stays, *)
(* after it a new unconnected stream is left behind; connected = false.  *)
(* From run() the thread enters reconnect_loop (147-148); inside         *)
(* reconnect_loop it sleeps.                                              *)
(* built: the failure came after line 80 replaced the stream.             *)
ConnectFailAt(c, built) ==
    /\ pc[c] = "connect"
    /\ faults < MaxFaults
    /\ faults' = faults + 1
    /\ connected' = [connected EXCEPT ![c] = FALSE]
    /\ hasWs' = [hasWs EXCEPT ![c] = hasWs[c] \/ built]
    /\ IF depth[c] = 0
       THEN /\ depth' = [depth EXCEPT ![c] = 1]
            /\ backoff' = [backoff EXCEPT ![c] = BackoffInitial]
            /\ pc' = [pc EXCEPT ![c] = "loopcheck"]
       ELSE /\ pc' = [pc EXCEPT ![c] = "sleep"]
            /\ UNCHANGED <<depth, backoff>>
    /\ UNCHANGED <<running, thread, closeSent, hdr, connCred>>

ConnectFail(c) == \E built \in BOOLEAN : ConnectFailAt(c, built)

(* Mutant: the while condition tests connected instead of !connected. *)
LoopCheckInverted(c) ==
    /\ pc[c] = "loopcheck"
    /\ IF running[c] /\ connected[c]
       THEN pc' = [pc EXCEPT ![c] = "connect"] /\ UNCHANGED depth
       ELSE pc' = [pc EXCEPT ![c] = "done"] /\ depth' = [depth EXCEPT ![c] = 0]
    /\ UNCHANGED <<running, connected, hasWs, backoff, thread, closeSent, hdr,
                   connCred, faults>>

(* The while condition of reconnect_loop; leaving it unwinds every frame *)
(* and run() returns.                                                     *)
LoopCheck(c) ==
    /\ pc[c] = "loopcheck"
    /\ IF running[c] /\ ~connected[c]
       THEN pc' = [pc EXCEPT ![c] = "connect"] /\ UNCHANGED depth
       ELSE pc' = [pc EXCEPT ![c] = "done"] /\ depth' = [depth EXCEPT ![c] = 0]
    /\ UNCHANGED <<running, connected, hasWs, backoff, thread, closeSent, hdr,
                   connCred, faults>>

(* Mutant: the backoff doubles without the cap at backoff_max. *)
SleepNoCap(c) ==
    /\ pc[c] = "sleep"
    /\ backoff' = [backoff EXCEPT ![c] = backoff[c] * 2]
    /\ pc' = [pc EXCEPT ![c] = "loopcheck"]
    /\ UNCHANGED <<running, connected, hasWs, depth, thread, closeSent, hdr,
                   connCred, faults>>

(* sleep_for(backoff); backoff = min(backoff * 2, backoff_max). *)
Sleep(c) ==
    /\ pc[c] = "sleep"
    /\ backoff' = [backoff EXCEPT ![c] = MinOf(backoff[c] * 2, BackoffMax)]
    /\ pc' = [pc EXCEPT ![c] = "loopcheck"]
    /\ UNCHANGED <<running, connected, hasWs, depth, thread, closeSent, hdr,
                   connCred, faults>>

(* on_resub_noarg() returns and read_loop() is entered (135-136). *)
Resub(c) ==
    /\ pc[c] = "resub"
    /\ pc' = [pc EXCEPT ![c] = "rtop"]
    /\ UNCHANGED <<running, connected, hasWs, depth, backoff, thread,
                   closeSent, hdr, connCred, faults>>

(* while (running.load()): block in ws->read, or leave the loop. *)
ReadTop(c) ==
    /\ pc[c] = "rtop"
    /\ IF running[c]
       THEN pc' = [pc EXCEPT ![c] = "read"] /\ UNCHANGED depth
       ELSE pc' = [pc EXCEPT ![c] = "done"] /\ depth' = [depth EXCEPT ![c] = 0]
    /\ UNCHANGED <<running, connected, hasWs, backoff, thread, closeSent, hdr,
                   connCred, faults>>

(* ws->read returns a frame; on_msg(frame) is called (line 119). *)
ReadFrame(c) ==
    /\ pc[c] = "read"
    /\ pc' = [pc EXCEPT ![c] = "rtop"]
    /\ UNCHANGED <<running, connected, hasWs, depth, backoff, thread,
                   closeSent, hdr, connCred, faults>>

(* ws->read throws (120-127): connected = false; if stopping, break;     *)
(* otherwise enter a nested reconnect_loop with a fresh backoff.          *)
ReadFailed(c) ==
    /\ connected' = [connected EXCEPT ![c] = FALSE]
    /\ IF running[c]
       THEN /\ depth' = [depth EXCEPT ![c] = @ + 1]
            /\ backoff' = [backoff EXCEPT ![c] = BackoffInitial]
            /\ pc' = [pc EXCEPT ![c] = "loopcheck"]
       ELSE /\ depth' = [depth EXCEPT ![c] = 0]
            /\ pc' = [pc EXCEPT ![c] = "done"]
            /\ UNCHANGED backoff

(* The peer drops the connection or the read times out at TCP level. *)
ReadFault(c) ==
    /\ pc[c] = "read"
    /\ faults < MaxFaults
    /\ faults' = faults + 1
    /\ ReadFailed(c)
    /\ UNCHANGED <<running, hasWs, thread, closeSent, hdr, connCred>>

(* The peer answers the close frame stop() sent: the read fails. *)
ReadClosed(c) ==
    /\ pc[c] = "read"
    /\ closeSent[c]
    /\ ReadFailed(c)
    /\ UNCHANGED <<running, hasWs, thread, closeSent, hdr, connCred, faults>>

IoStep(c) ==
    \/ Run(c) \/ ConnectOk(c) \/ ConnectFail(c) \/ LoopCheck(c) \/ Sleep(c)
    \/ Resub(c) \/ ReadTop(c) \/ ReadFrame(c) \/ ReadFault(c) \/ ReadClosed(c)

-----------------------------------------------------------------------------
(* Application thread.                                                     *)

(* The clients in S are constructed with header value h (171-175) and   *)
(* start() is called on each (182-186): running is still false in a new  *)
(* client, so each spawns its IO thread.  The other clients are unused.   *)
SpawnAll(S, h) ==
    /\ running' = [c \in Clients |-> FALSE]
    /\ connected' = [c \in Clients |-> FALSE]
    /\ hasWs' = [c \in Clients |-> FALSE]
    /\ pc' = [c \in Clients |-> IF c \in S THEN "start" ELSE "idle"]
    /\ depth' = [c \in Clients |-> 0]
    /\ backoff' = [c \in Clients |-> BackoffInitial]
    /\ thread' = [c \in Clients |-> IF c \in S THEN "live" ELSE "none"]
    /\ closeSent' = [c \in Clients |-> FALSE]
    /\ hdr' = [c \in Clients |-> h]
    /\ connCred' = [c \in Clients |-> h]
    /\ UNCHANGED faults

(* Mutant: Impl::stop clears running but sends no close frame. *)
StopRequestNoClose(c) ==
    /\ running' = [running EXCEPT ![c] = FALSE]
    /\ UNCHANGED <<connected, hasWs, pc, depth, backoff, thread, closeSent, hdr,
                   connCred, faults>>

(* stop() (188-192) up to the join: if (!running) return at once;        *)
(* otherwise Impl::stop (154-163) clears running and, if a stream is     *)
(* connected, sends a close frame.  ws->close (line 159) is synchronous:  *)
(* it then blocks until the peer's close answer or a failure of the      *)
(* stream, concurrently with the IO thread's ws->read on the same stream *)
(* (a data race on the Beast stream, hazard at line 159).  That wait is  *)
(* not a separate step: every caller goes on to Join, which a thread     *)
(* that received a close frame reaches only through ReadClosed or        *)
(* ReadFault -- the same peer event that ends the close -- so the caller *)
(* is blocked exactly as long as in the code.                            *)
StopRequest(c) ==
    /\ running' = [running EXCEPT ![c] = FALSE]
    /\ closeSent' = [closeSent EXCEPT ![c] = @ \/ (running[c] /\ hasWs[c] /\ connected[c])]
    /\ UNCHANGED <<connected, hasWs, pc, depth, backoff, thread, hdr,
                   connCred, faults>>

(* io_thread.join() returns once run() has returned. *)
Join(c) ==
    /\ pc[c] = "done"
    /\ thread[c] = "live"
    /\ thread' = [thread EXCEPT ![c] = "joined"]
    /\ UNCHANGED <<running, connected, hasWs, pc, depth, backoff, closeSent,
                   hdr, connCred, faults>>

(* send_text's test (line 195): a write is attempted only on a connected *)
(* stream.                                                                 *)
CanSend(c) == hasWs[c] /\ connected[c]

TypeOKWs ==
    /\ running \in [Clients -> BOOLEAN]
    /\ connected \in [Clients -> BOOLEAN]
    /\ hasWs \in [Clients -> BOOLEAN]
    /\ pc \in [Clients -> PCs]
    /\ depth \in [Clients -> 0..MaxFaults]
    /\ backoff \in [Clients -> BackoffInitial..BackoffMax]
    /\ thread \in [Clients -> {"none", "live", "joined"}]
    /\ closeSent \in [Clients -> BOOLEAN]
    /\ hdr \in [Clients -> Creds] /\ connCred \in [Clients -> Creds]
    /\ faults \in 0..MaxFaults
=============================================================================
