-------------------------- MODULE ConsumerPipeline --------------------------
(***************************************************************************)
(* One shard's data path: the WebSocket IO thread pushes frames into the  *)
(* shard's IngestQueue, the Consumer thread (src/src/consumer.cpp) pops   *)
(* them, parses each one and upserts the result into the shared LTPStore  *)
(* (src/src/ltp_store.cpp), then calls the optional sink.  The            *)
(* application thread runs the worker's lifecycle in the order            *)
(* Sharder::start and Sharder::stop use: consumer start, transport start, *)
(* transport stop (no frame is pushed after it), consumer stop.           *)
(*                                                                         *)
(* The ring is IngestQueue itself, instantiated with the same variables.  *)
(* Frames are numbered in arrival order, so a frame number is also its    *)
(* tick time.  Frame f's text is FrameText[f], a JSON value or NotJson,  *)
(* and the consumer parses it with the Parser module's parse_ltp under   *)
(* the prefix StripPrefix.  The store keeps, per token, the number of    *)
(* the frame its LTP came from: that names the tick's price and time.    *)
(* The sink is the user's function; it may return or throw.              *)
(***************************************************************************)
EXTENDS Integers, Sequences, SequencesExt

CONSTANTS Cap, W, NFrames, MaxClears,
          Tokens,       \* tokens the feed carries
          Malformed,    \* parse_ltp returned nullopt
          FrameText,    \* frame -> the JSON text the feed sent
          StripPrefix,  \* Parser::strip_prefix_, set before start
          NotJson, Nullopt, MsThreshold,  \* the Parser module's constants
          HasSink       \* set_sink was called before start

VARIABLES buf, head, tail, ppc, pHead, received, cpc, cTail, clears,
          accepted, dropped, popped, cleared,
          crun,      \* Consumer::running_
          kpc,       \* consumer thread: "off" | "loop" | "pop" | "parse" | "sink" | "done"
          store,     \* LTPStore::map_: token -> frame of the stored LTP (0: missing)
          app,       \* application thread's place in the worker lifecycle
          producing, \* the transport's IO thread is running
          aborted    \* std::terminate was called

qVars == <<buf, head, tail, ppc, pHead, received, cpc, cTail, clears,
           accepted, dropped, popped, cleared>>
vars == <<qVars, crun, kpc, store, app, producing, aborted>>

Q == INSTANCE IngestQueue
P == INSTANCE Parser

NoFrame == 0

(* Parser::parse_ltp of the frame's text: the LTP's token, or Malformed  *)
(* for nullopt.  A moved-from (empty) string is not JSON: nullopt.       *)
TokenOf(r) == IF r = Nullopt THEN Malformed ELSE r.token
Parsed == [g \in DOMAIN FrameText |-> TokenOf(P!parse_ltp(FrameText[g], StripPrefix))]
parse_ltp(f) == IF f \in DOMAIN Parsed THEN Parsed[f] ELSE Malformed

(* LTPStore::upsert: map_[v.token] = v under the writer lock, inserting  *)
(* the key or overwriting its record.                                     *)
upsert(s, t, f) == (t :> f) @@ s

Init ==
    /\ Q!Init
    /\ crun = FALSE /\ kpc = "off"
    /\ store = [t \in Tokens |-> NoFrame]
    /\ app = "init" /\ producing = FALSE /\ aborted = FALSE

-----------------------------------------------------------------------------
(* Application thread.                                                     *)

(* Consumer::start: running_.exchange(true) was false, spawn the thread. *)
StartConsumer ==
    /\ app = "init"
    /\ crun' = TRUE /\ kpc' = "loop"
    /\ app' = "cstarted"
    /\ UNCHANGED <<qVars, store, producing, aborted>>

(* Sharder::start lines 199-205: the transport starts producing. *)
StartWs ==
    /\ app = "cstarted"
    /\ producing' = TRUE /\ app' = "running"
    /\ UNCHANGED <<qVars, crun, kpc, store, aborted>>

(* Sharder::stop lines 218-221: ws->stop() joins the IO thread, so a      *)
(* try_push in progress has finished when it returns.                     *)
StopWs ==
    /\ app = "running"
    /\ ppc = "idle"
    /\ producing' = FALSE /\ app' = "wsstopped"
    /\ UNCHANGED <<qVars, crun, kpc, store, aborted>>

(* Consumer::stop: running_.exchange(false) was true ... *)
StopConsumer ==
    /\ app = "wsstopped"
    /\ crun' = FALSE /\ app' = "cjoin"
    /\ UNCHANGED <<qVars, kpc, store, producing, aborted>>

(* ... then thr_.join() returns once run() has. *)
JoinConsumer ==
    /\ app = "cjoin"
    /\ kpc = "done"
    /\ kpc' = "off" /\ app' = "stopped"
    /\ UNCHANGED <<qVars, crun, store, producing, aborted>>

-----------------------------------------------------------------------------
(* Producer: the IO thread's on_message while the transport runs. *)
Produce ==
    /\ producing
    /\ Q!TryPush \/ Q!PushWrite \/ Q!PushPublish
    /\ UNCHANGED <<crun, kpc, store, app, producing, aborted>>

-----------------------------------------------------------------------------
(* Consumer thread: Consumer::run.                                        *)

(* while (running_.load()) *)
Loop ==
    /\ kpc = "loop"
    /\ kpc' = IF crun THEN "pop" ELSE "done"
    /\ UNCHANGED <<qVars, crun, store, app, producing, aborted>>

(* try_pop finds head == tail: yield and go round. *)
PopEmpty ==
    /\ kpc = "pop" /\ cpc = "idle"
    /\ head = tail
    /\ kpc' = "loop"
    /\ UNCHANGED <<qVars, crun, store, app, producing, aborted>>

(* try_pop's three steps; the last returns true with the frame in msg. *)
Pop ==
    /\ kpc = "pop"
    /\ \/ Q!TryPop /\ UNCHANGED kpc
       \/ Q!PopRead /\ UNCHANGED kpc
       \/ Q!PopPublish /\ kpc' = "parse"
    /\ UNCHANGED <<crun, store, app, producing, aborted>>

(* Mutant: a nullopt result is upserted as if it were an LTP. *)
HandleNoNullCheck ==
    /\ kpc = "parse"
    /\ store' = upsert(store, parse_ltp(Last(popped)), Last(popped))
    /\ kpc' = IF HasSink THEN "sink" ELSE "loop"
    /\ UNCHANGED <<qVars, crun, app, producing, aborted>>

(* Mutant: a malformed frame breaks out of the loop instead of continuing. *)
HandleBreaks ==
    /\ kpc = "parse"
    /\ LET f == Last(popped) IN
       IF parse_ltp(f) = Malformed
       THEN kpc' = "done" /\ UNCHANGED store
       ELSE /\ store' = upsert(store, parse_ltp(f), f)
            /\ kpc' = IF HasSink THEN "sink" ELSE "loop"
    /\ UNCHANGED <<qVars, crun, app, producing, aborted>>

(* parse_ltp(msg); nullopt -> continue; otherwise store_.upsert of the LTP. *)
Handle ==
    /\ kpc = "parse"
    /\ LET f == Last(popped) IN
       IF parse_ltp(f) = Malformed
       THEN kpc' = "loop" /\ UNCHANGED store
       ELSE /\ store' = upsert(store, parse_ltp(f), f)
            /\ kpc' = IF HasSink THEN "sink" ELSE "loop"
    /\ UNCHANGED <<qVars, crun, app, producing, aborted>>

(* if (sink_) the sink is called: a return goes round the loop; an exception    *)
(* leaves run() and the thread function, and std::terminate is called.   *)
Sink ==
    /\ kpc = "sink"
    /\ \/ kpc' = "loop" /\ UNCHANGED aborted
       \/ aborted' = TRUE /\ UNCHANGED kpc
    /\ UNCHANGED <<qVars, crun, store, app, producing>>

Next ==
    /\ ~aborted
    /\ \/ StartConsumer \/ StartWs \/ StopWs \/ StopConsumer \/ JoinConsumer
       \/ Produce
       \/ Loop \/ PopEmpty \/ Pop \/ Handle \/ Sink

(* The consumer thread never blocks and keeps stepping; a sink that       *)
(* returns lets it go on.  The producer finishes a try_push it began.     *)
(* The application thread finishes the stop it began (the join waits for *)
(* the consumer) but is not obliged to stop at all.                       *)
Fairness ==
    /\ WF_vars(Loop) /\ WF_vars(PopEmpty) /\ WF_vars(Pop) /\ WF_vars(Handle)
    /\ WF_vars(Sink /\ kpc' = "loop")
    /\ WF_vars(Produce /\ ppc # "idle")
    /\ WF_vars(StopConsumer) /\ WF_vars(JoinConsumer)

Spec == Init /\ [][Next]_vars /\ Fairness

-----------------------------------------------------------------------------
TypeOK ==
    /\ Q!TypeOK
    /\ crun \in BOOLEAN
    /\ kpc \in {"off", "loop", "pop", "parse", "sink", "done"}
    /\ store \in [Tokens -> {NoFrame} \cup Q!Frames]
    /\ app \in {"init", "cstarted", "running", "wsstopped", "cjoin", "stopped"}
    /\ producing \in BOOLEAN /\ aborted \in BOOLEAN

(* Per key last write wins, and the ring hands frames over in arrival    *)
(* order, so no upsert ever replaces a token's price by an older tick    *)
(* (spec.md 4.2 and the per-shard ordering guarantee of section 5).      *)
StoreNeverRegresses ==
    [][\A t \in Tokens : store'[t] >= store[t]]_vars

(* While the consumer runs, every well-formed frame the ring accepted is *)
(* eventually reflected in the store: its token holds that frame or a    *)
(* later one (scenario S5).  A stop, or a terminated process, excuses it. *)
EventuallyStored ==
    \A f \in {g \in Q!Frames : parse_ltp(g) # Malformed} :
        f \in ToSet(accepted) ~> (store[parse_ltp(f)] >= f \/ ~crun \/ aborted)

(* A sink that throws does not end the consumer thread: spec.md 4.4      *)
(* requires sink exceptions to be caught and logged.                     *)
ConsumerSurvivesSink == ~aborted
=============================================================================
