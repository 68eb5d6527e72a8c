------------------------------- MODULE Sharder -------------------------------
(***************************************************************************)
(* The Sharder of src/src/sharder.cpp composed with the WebSocketClient   *)
(* of each worker it builds.  The application thread calls set_tokens,    *)
(* set_access_token, start and stop; each worker's IO thread runs its     *)
(* client's state machine, and the callbacks the sharder wires            *)
(* (on_resubscribe, on_message) run on that IO thread.                    *)
(*                                                                         *)
(* The peer is the broker's feed: subs[w] is the set of raw tokens the    *)
(* server has been asked to stream on worker w's current connection; a    *)
(* new connection starts with none.  A worker's reconciler is seeded with *)
(* its chunk and nothing in the sharder ever calls mark_subscribed, so    *)
(* every build_subscribe_batches of worker w names exactly its chunk.     *)
(* Frames pushed by on_message go to the worker's IngestQueue, which is   *)
(* checked on its own (IngestQueue.tla); here a frame only moves the IO   *)
(* thread.  Consumers are started and stopped with their workers and are  *)
(* modelled in IngestQueue; headers are abstracted to the access-token    *)
(* value they carry (set_common_headers takes the same path).             *)
(***************************************************************************)
EXTENDS Integers, Sequences, SequencesExt, Batching

CONSTANTS TokenLists,     \* token lists set_tokens may be given
          MaxPerConn,     \* Options::max_tokens_per_conn
          BatchSize,      \* Options::subscribe_batch_size
          MaxWorkers,     \* bound on the workers any list in TokenLists yields
          MaxCred,        \* bound on set_access_token calls
          MaxFaults, BackoffInitial, BackoffMax

Workers == 1..MaxWorkers
Creds == 0..MaxCred

VARIABLES
    running, connected, hasWs, pc, depth, backoff, thread, closeSent, hdr,
    connCred, faults,
    desired_tokens,  \* Impl::desired_tokens
    cred,            \* Impl::auth_header_value (0: none set yet)
    sRunning,        \* Impl::running
    nw,              \* workers.size()
    wTokens,         \* Worker::tokens, the chunk seeded into its reconciler
    ctl,             \* the application thread inside a sharder call
    subs,            \* server side: tokens subscribed on w's connection
    credAtConnect,   \* auth_header_value when w's connection was made
    aborted          \* std::terminate was called

WS == INSTANCE WebSocketClient WITH Clients <- Workers

wsVars == <<running, connected, hasWs, pc, depth, backoff, thread, closeSent,
            hdr, connCred, faults>>
sVars == <<desired_tokens, cred, sRunning, nw, wTokens, ctl, subs,
           credAtConnect, aborted>>
vars == <<wsVars, sVars>>

(* Impl::shard (lines 50-62): contiguous chunks of at most max_per_conn; *)
(* 0 means 800.                                                           *)
RECURSIVE Chunks(_, _)
Chunks(ts, k) ==
    IF ts = <<>> THEN <<>>
    ELSE LET last == IF Len(ts) < k THEN Len(ts) ELSE k
         IN  <<SubSeq(ts, 1, last)>> \o Chunks(SubSeq(ts, last + 1, Len(ts)), k)

shard(ts, k) == Chunks(ts, IF k = 0 THEN 800 ELSE k)

(* build_workers_locked (70-79): an empty list still yields one idle worker. *)
WorkerChunks(ts) ==
    LET s == shard(ts, MaxPerConn) IN IF s = <<>> THEN << <<>> >> ELSE s

(* The payloads of worker w's build_subscribe_batches: its chunk in        *)
(* batches of subscribe_batch_size (0 coerced to 100).                     *)
Payloads(w) == make_batches(wTokens[w], Coerce(BatchSize))

(* send_initial_subscribes (136-145): every payload of every worker, in   *)
(* worker order.                                                           *)
InitialSends ==
    FlattenSeq([w \in 1..nw |-> [b \in DOMAIN Payloads(w) |-> <<w, Payloads(w)[b]>>]])

Idle == [op |-> "idle", i |-> 0]
At(op, i) == [op |-> op, i |-> i]

Init ==
    /\ WS!InitWs(0)
    /\ desired_tokens \in TokenLists
    /\ cred = 0
    /\ sRunning = FALSE
    /\ nw = 0
    /\ wTokens = [w \in Workers |-> <<>>]
    /\ ctl = Idle
    /\ subs = [w \in Workers |-> {}]
    /\ credAtConnect = [w \in Workers |-> 0]
    /\ aborted = FALSE

-----------------------------------------------------------------------------
(* Application thread: the public API (each call holds Impl::mu).         *)

(* set_tokens (176-185): replaces the list; while running only a warning. *)
SetTokens(l) ==
    /\ ctl = Idle
    /\ desired_tokens' = l
    /\ UNCHANGED <<wsVars, cred, sRunning, nw, wTokens, ctl, subs,
                   credAtConnect, aborted>>

(* set_access_token (158-169): updates the header value; the loop over   *)
(* live workers computes headers and discards them.                      *)
SetAccessToken ==
    /\ ctl = Idle
    /\ cred < MaxCred
    /\ cred' = cred + 1
    /\ UNCHANGED <<wsVars, desired_tokens, sRunning, nw, wTokens, ctl, subs,
                   credAtConnect, aborted>>

(* start() (187-205): build the workers from the current list and         *)
(* headers, start the consumers, start every client.                      *)
StartBuild ==
    /\ ctl = Idle
    /\ ~sRunning
    /\ LET chunks == WorkerChunks(desired_tokens) IN
         /\ nw' = Len(chunks)
         /\ wTokens' = [w \in Workers |-> IF w <= Len(chunks) THEN chunks[w] ELSE <<>>]
         /\ WS!SpawnAll(1..Len(chunks), cred)
    /\ subs' = [w \in Workers |-> {}]
    /\ ctl' = At("send", 1)
    /\ UNCHANGED <<desired_tokens, cred, sRunning, credAtConnect, aborted>>

(* send_initial_subscribes: one send_text; it is dropped unless the       *)
(* worker's stream is connected at that moment.                           *)
SendInitial ==
    /\ ctl.op = "send"
    /\ ctl.i <= Len(InitialSends)
    /\ LET w == InitialSends[ctl.i][1]
           p == InitialSends[ctl.i][2]
       IN  subs' = IF WS!CanSend(w) THEN [subs EXCEPT ![w] = @ \cup ToSet(p)] ELSE subs
    /\ ctl' = At("send", ctl.i + 1)
    /\ UNCHANGED <<wsVars, desired_tokens, cred, sRunning, nw, wTokens,
                   credAtConnect, aborted>>

(* start() line 210: running = true, return. *)
StartDone ==
    /\ ctl.op = "send"
    /\ ctl.i > Len(InitialSends)
    /\ sRunning' = TRUE
    /\ ctl' = Idle
    /\ UNCHANGED <<wsVars, desired_tokens, cred, nw, wTokens, subs,
                   credAtConnect, aborted>>

(* stop() (214-229): if (!running) return; otherwise stop every client. *)
Stop ==
    /\ ctl = Idle
    /\ sRunning
    /\ ctl' = At("stopws", 1)
    /\ UNCHANGED <<wsVars, desired_tokens, cred, sRunning, nw, wTokens, subs,
                   credAtConnect, aborted>>

(* ws->stop() of worker i: returns at once if that client's running flag *)
(* is still false, else requests the stop and joins.                      *)
StopWs ==
    /\ ctl.op = "stopws"
    /\ ctl.i <= nw
    /\ WS!StopRequest(ctl.i)
    /\ ctl' = IF running[ctl.i] THEN At("join", ctl.i) ELSE At("stopws", ctl.i + 1)
    /\ UNCHANGED <<desired_tokens, cred, sRunning, nw, wTokens, subs,
                   credAtConnect, aborted>>

JoinWs ==
    /\ ctl.op = "join"
    /\ WS!Join(ctl.i)
    /\ ctl' = At("stopws", ctl.i + 1)
    /\ UNCHANGED <<desired_tokens, cred, sRunning, nw, wTokens, subs,
                   credAtConnect, aborted>>

(* Lines 222-225: the consumers are stopped (IngestQueue.tla), then      *)
(* workers.clear() destroys every worker.                                 *)
StopConsumers ==
    /\ ctl.op = "stopws"
    /\ ctl.i > nw
    /\ ctl' = At("destroy", 1)
    /\ UNCHANGED <<wsVars, desired_tokens, cred, sRunning, nw, wTokens, subs,
                   credAtConnect, aborted>>

(* ~WebSocketClient (177-180) of worker i: stop() again, which does       *)
(* something only if running is now true, then delete impl_.  Deleting    *)
(* an Impl whose io_thread is still joinable calls std::terminate.        *)
Destroy ==
    /\ ctl.op = "destroy"
    /\ ctl.i <= nw
    /\ IF running[ctl.i]
       THEN /\ WS!StopRequest(ctl.i)
            /\ ctl' = At("djoin", ctl.i)
            /\ UNCHANGED aborted
       ELSE /\ aborted' = (thread[ctl.i] = "live")
            /\ ctl' = At("destroy", ctl.i + 1)
            /\ UNCHANGED wsVars
    /\ UNCHANGED <<desired_tokens, cred, sRunning, nw, wTokens, subs, credAtConnect>>

DestroyJoin ==
    /\ ctl.op = "djoin"
    /\ WS!Join(ctl.i)
    /\ ctl' = At("destroy", ctl.i + 1)
    /\ UNCHANGED <<desired_tokens, cred, sRunning, nw, wTokens, subs,
                   credAtConnect, aborted>>

(* Lines 227-228: no workers left, running = false. *)
StopDone ==
    /\ ctl.op = "destroy"
    /\ ctl.i > nw
    /\ nw' = 0
    /\ wTokens' = [w \in Workers |-> <<>>]
    /\ WS!SpawnAll({}, cred)
    /\ sRunning' = FALSE
    /\ ctl' = Idle
    /\ UNCHANGED <<desired_tokens, cred, subs, credAtConnect, aborted>>

-----------------------------------------------------------------------------
(* IO thread of worker w with the callbacks the sharder wired (108-130). *)

(* A new connection: the server has no subscriptions on it yet. *)
Connected(w) ==
    /\ WS!ConnectOk(w)
    /\ subs' = [subs EXCEPT ![w] = {}]
    /\ credAtConnect' = [credAtConnect EXCEPT ![w] = cred]
    /\ UNCHANGED <<desired_tokens, cred, sRunning, nw, wTokens, ctl, aborted>>

(* Mutant: the resubscribe hook is not wired; only the IO thread moves. *)
OnResubscribeNoSend(w) ==
    /\ WS!Resub(w)
    /\ UNCHANGED sVars

(* on_resubscribe (123-130): send every payload of build_subscribe_batches *)
(* on the stream connect_once just connected.                              *)
OnResubscribe(w) ==
    /\ WS!Resub(w)
    /\ subs' = IF WS!CanSend(w)
               THEN [subs EXCEPT ![w] = @ \cup UNION {ToSet(p) : p \in ToSet(Payloads(w))}]
               ELSE subs
    /\ UNCHANGED <<desired_tokens, cred, sRunning, nw, wTokens, ctl,
                   credAtConnect, aborted>>

(* Every other IO step leaves the sharder's state alone; on_message's    *)
(* try_push is IngestQueue's TryPush.                                      *)
OtherIo(w) ==
    /\ \/ WS!Run(w) \/ WS!ConnectFail(w) \/ WS!LoopCheck(w) \/ WS!Sleep(w)
       \/ WS!ReadTop(w) \/ WS!ReadFrame(w) \/ WS!ReadFault(w) \/ WS!ReadClosed(w)
    /\ UNCHANGED sVars

-----------------------------------------------------------------------------
Next ==
    /\ ~aborted
    /\ \/ \E l \in TokenLists : SetTokens(l)
       \/ SetAccessToken
       \/ StartBuild \/ SendInitial \/ StartDone
       \/ Stop \/ StopWs \/ JoinWs \/ StopConsumers \/ Destroy \/ DestroyJoin \/ StopDone
       \/ \E w \in Workers : Connected(w) \/ OnResubscribe(w) \/ OtherIo(w)

(* Threads inside a call keep running: the application thread finishes   *)
(* the sharder call it is in, and each IO thread finishes the step it is  *)
(* on.  A connect attempt ends one way or the other.  Frames and network  *)
(* faults come from the peer and are not assumed; a peer does answer a    *)
(* close frame.                                                            *)
Fairness ==
    /\ WF_vars(SendInitial) /\ WF_vars(StartDone)
    /\ WF_vars(StopWs) /\ WF_vars(JoinWs) /\ WF_vars(StopConsumers)
    /\ WF_vars(Destroy) /\ WF_vars(DestroyJoin) /\ WF_vars(StopDone)
    /\ \A w \in Workers :
         /\ WF_vars(WS!Run(w) /\ UNCHANGED sVars)
         /\ WF_vars(Connected(w) \/ (WS!ConnectFail(w) /\ UNCHANGED sVars))
         /\ WF_vars(WS!LoopCheck(w) /\ UNCHANGED sVars)
         /\ WF_vars(WS!Sleep(w) /\ UNCHANGED sVars)
         /\ WF_vars(OnResubscribe(w))
         /\ WF_vars(WS!ReadTop(w) /\ UNCHANGED sVars)
         /\ WF_vars(WS!ReadClosed(w) /\ UNCHANGED sVars)

Spec == Init /\ [][Next]_vars /\ Fairness

-----------------------------------------------------------------------------
TypeOK ==
    /\ WS!TypeOKWs
    /\ desired_tokens \in TokenLists
    /\ cred \in Creds
    /\ sRunning \in BOOLEAN
    /\ nw \in 0..MaxWorkers
    /\ ctl \in [op : {"idle", "send", "stopws", "join", "destroy", "djoin"},
                i : Nat]
    /\ subs \in [Workers -> SUBSET UNION {ToSet(l) : l \in TokenLists}]
    /\ credAtConnect \in [Workers -> Creds]
    /\ aborted \in BOOLEAN

Serving(w) == w <= nw /\ pc[w] = "read" /\ connected[w]

(* After a reconnect the server again streams every token of the worker: *)
(* the resubscribe hook runs on the new connection before the read loop  *)
(* resumes, so a worker reading on a connection its reconnect_loop made  *)
(* has all of its chunk subscribed there, however the faults, the stop   *)
(* and the initial sends interleaved.                                     *)
ResubscribeRestoresAll ==
    \A w \in Workers : Serving(w) /\ depth[w] >= 1 => ToSet(wTokens[w]) \subseteq subs[w]

(* stop() returns: once the application thread has entered it, it comes  *)
(* back with every IO thread joined (unless the process was terminated). *)
StopReturns ==
    ctl.op = "stopws" ~> (ctl = Idle \/ aborted)

(* A running worker that lost its connection gets it back: reconnect_loop *)
(* retries with capped backoff until it connects or stop() clears        *)
(* running (spec.md 7, transient network errors), unless the process was *)
(* terminated.                                                            *)
EventuallyReconnects ==
    \A w \in Workers :
        (w <= nw /\ running[w] /\ ~connected[w] /\ pc[w] # "start")
            ~> (connected[w] \/ ~running[w] \/ aborted)

(* Once start() has returned, a worker whose IO thread is reading frames *)
(* has asked the server for every token of its chunk (spec.md 4.7 step 4 *)
(* and the reconnect rule of 4.6).                                        *)
SubscribedWhileServing ==
    \A w \in Workers :
        (sRunning /\ ctl = Idle /\ Serving(w)) => ToSet(wTokens[w]) \subseteq subs[w]

(* A connection made by a reconnect presents the access token that was   *)
(* current when it was made (spec.md 4.6 "Handshake headers" and 5       *)
(* "Credential rotation").                                                *)
ReconnectUsesCurrentCredential ==
    \A w \in Workers :
        (w <= nw /\ connected[w] /\ depth[w] >= 1) => connCred[w] = credAtConnect[w]

(* stop() never destroys a client whose IO thread is still joinable.      *)
NoTerminate == ~aborted
=============================================================================
