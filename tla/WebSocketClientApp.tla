------------------------- MODULE WebSocketClientApp -------------------------
(***************************************************************************)
(* One WebSocketClient (src/src/websocket_client.cpp) used directly by an *)
(* application thread, racing the client's IO thread: start() (182-186),  *)
(* stop() (188-192), send_text() (194-201) and the destructor (177-180).  *)
(* The IO thread is WebSocketClient's state machine for the single client *)
(* Client.  Here the peer is not assumed to answer the close frame that   *)
(* stop() sends: Impl::stop's ioc.stop() does not interrupt the           *)
(* synchronous ws->read, so only the peer can end it.                     *)
(***************************************************************************)
EXTENDS Integers

CONSTANTS Client,      \* the client object
          MaxStarts,   \* start() calls before the first stop()
          MaxFaults, BackoffInitial, BackoffMax

VARIABLES running, connected, hasWs, pc, depth, backoff, thread, closeSent,
          hdr, connCred, faults,
          apc,      \* application thread: "idle" | "write" | "join" | "stopped" | "djoin" | "gone"
          starts,   \* start() calls so far
          aborted   \* why std::terminate was called: "no" | "start" | "destroy"

wsVars == <<running, connected, hasWs, pc, depth, backoff, thread, closeSent,
            hdr, connCred, faults>>
vars == <<wsVars, apc, starts, aborted>>

WS == INSTANCE WebSocketClient WITH Clients <- {Client}, Creds <- {0}

C == Client

Init ==
    /\ WS!InitWs(0)
    /\ apc = "idle" /\ starts = 0 /\ aborted = "no"

-----------------------------------------------------------------------------
(* Application thread.                                                     *)

(* start(): if (impl_->running) return true; otherwise move-assign a new *)
(* std::thread into io_thread, which calls std::terminate if io_thread is *)
(* still joinable.                                                        *)
AppStart ==
    /\ apc = "idle"
    /\ starts < MaxStarts
    /\ starts' = starts + 1
    /\ \/ running[C] /\ UNCHANGED <<wsVars, aborted>>
       \/ ~running[C] /\ thread[C] = "live" /\ aborted' = "start" /\ UNCHANGED wsVars
       \/ ~running[C] /\ thread[C] = "none" /\ WS!SpawnAll({C}, 0) /\ UNCHANGED aborted
    /\ UNCHANGED apc

(* stop(): if (!running) return; Impl::stop(); then the join. *)
AppStop ==
    /\ apc = "idle"
    /\ WS!StopRequest(C)
    /\ apc' = IF running[C] THEN "join" ELSE "stopped"
    /\ UNCHANGED <<starts, aborted>>

AppJoin ==
    /\ apc = "join"
    /\ WS!Join(C)
    /\ apc' = "stopped"
    /\ UNCHANGED <<starts, aborted>>

(* send_text: the test of ws and connected (line 195) succeeds and the    *)
(* write through impl_->ws begins ...                                     *)
AppSendBegin ==
    /\ apc = "idle"
    /\ WS!CanSend(C)
    /\ apc' = "write"
    /\ UNCHANGED <<wsVars, starts, aborted>>

(* ... and returns, true or false (lines 197-200). *)
AppSendEnd ==
    /\ apc = "write"
    /\ apc' = "idle"
    /\ UNCHANGED <<wsVars, starts, aborted>>

(* ~WebSocketClient: stop() again, which stops and joins only if running *)
(* is true by now; then delete impl_, which terminates if io_thread is    *)
(* still joinable.                                                        *)
AppDestroy ==
    /\ apc = "stopped"
    /\ \/ running[C] /\ WS!StopRequest(C) /\ apc' = "djoin" /\ UNCHANGED aborted
       \/ /\ ~running[C]
          /\ aborted' = IF thread[C] = "live" THEN "destroy" ELSE "no"
          /\ apc' = "gone"
          /\ UNCHANGED wsVars
    /\ UNCHANGED starts

AppDestroyJoin ==
    /\ apc = "djoin"
    /\ WS!Join(C)
    /\ apc' = "gone"
    /\ UNCHANGED <<starts, aborted>>

IoStep ==
    /\ WS!IoStep(C)
    /\ UNCHANGED <<apc, starts, aborted>>

Next ==
    /\ aborted = "no"
    /\ \/ AppStart \/ AppStop \/ AppJoin \/ AppSendBegin \/ AppSendEnd
       \/ AppDestroy \/ AppDestroyJoin
       \/ IoStep

(* The IO thread finishes each step it is on and a connect attempt ends;  *)
(* frames, faults and the answer to a close come from the peer and are    *)
(* not assumed.  A write returns, and a join returns once run() has.      *)
Fairness ==
    /\ WF_vars(WS!Run(C) /\ UNCHANGED <<apc, starts, aborted>>)
    /\ WF_vars((WS!ConnectOk(C) \/ WS!ConnectFail(C)) /\ UNCHANGED <<apc, starts, aborted>>)
    /\ WF_vars(WS!LoopCheck(C) /\ UNCHANGED <<apc, starts, aborted>>)
    /\ WF_vars(WS!Sleep(C) /\ UNCHANGED <<apc, starts, aborted>>)
    /\ WF_vars(WS!Resub(C) /\ UNCHANGED <<apc, starts, aborted>>)
    /\ WF_vars(WS!ReadTop(C) /\ UNCHANGED <<apc, starts, aborted>>)
    /\ WF_vars(AppSendEnd) /\ WF_vars(AppJoin) /\ WF_vars(AppDestroyJoin)

Spec == Init /\ [][Next]_vars /\ Fairness

-----------------------------------------------------------------------------
TypeOK ==
    /\ WS!TypeOKWs
    /\ apc \in {"idle", "write", "join", "stopped", "djoin", "gone"}
    /\ starts \in 0..MaxStarts
    /\ aborted \in {"no", "start", "destroy"}

(* stop() returns: Impl::stop cancels the pending read (spec.md 5,       *)
(* Cancellation), so the join completes whatever the peer does.           *)
StopReturnsWithoutPeer == apc = "join" ~> apc = "stopped"

(* The IO thread never replaces the stream (line 80, in connect_once)     *)
(* while send_text is writing through impl_->ws.                          *)
NoStreamReplacedDuringSend ==
    [][apc = "write" => ~(WS!ConnectOk(C) \/ WS!ConnectFailAt(C, TRUE))]_vars
====
