# TLA+ models of real_time_market_data

This directory holds TLA+ models of the market-data feed in `src/`.
TLC checks them.
Every definition is translated from the C++ source.
`PROJECT.json` maps each definition to the lines it models.

## The system

A `Sharder` (`src/src/sharder.cpp`) splits the desired instrument tokens into chunks of at most `max_tokens_per_conn`.
It builds one *worker* per chunk.
Each worker has:

- a `SubscriptionManager` (`subscription_manager.cpp`): the *desired* and *active* token sets, and builders that turn their differences into batched subscribe/unsubscribe JSON payloads;
- a `WebSocketClient` (`websocket_client.cpp`): one IO thread that connects, reads frames and reconnects with exponential backoff, calling an `on_resubscribe` hook after each reconnect;
- an `IngestQueue` (`ingest_queue.cpp`): a lock-free single-producer/single-consumer ring that the IO thread pushes every frame into (dropping it when full);
- a `Consumer` (`consumer.cpp`): a thread that pops frames, parses them (`parser.cpp`) and upserts the last traded price into the shared `LTPStore` (`ltp_store.cpp`).

The application thread calls `Sharder::set_tokens`, `set_access_token`, `start` and `stop`.

- `start` builds the workers, starts consumers and clients, and sends the initial subscribes.
- `stop` stops and joins every client, stops the consumers and destroys the workers.

Before that, the application builds a `TOTP` (`totp.cpp`) from a Base32 secret.
`Auth` (`auth.cpp`) logs in with the TOTP code of the current time through `HttpClient::post_json` (`http_client.cpp`), and later refreshes.
It keeps the tokens and their expiry, and `is_expired(skew)` tells the caller when to refresh.
The access token becomes the sharder's credential.
`Logger` (`logger.cpp`) is shared by every thread that logs: each worker's IO thread and the application thread. `Config` reads the settings file once.

## Modules

| Module | Models | State / actions |
|---|---|---|
| `IngestQueue` | `ingest_queue.cpp` try_push, try_pop, clear, driven by the IO thread (`sharder.cpp` on_message) and `Consumer::run` | `buf`, `head`, `tail` as W-bit counters. `TryPush` (load and full test), `PushWrite` (slot), `PushPublish` (store head_); `TryPop`, `PopRead`, `PopPublish` likewise. `Clear`. History variables `accepted`, `dropped`, `popped`, `cleared` |
| `BoundedFifo` | the abstract queue of spec.md 4.1 | `q`; `Enqueue`, `Dequeue`, `Reset` |
| `ConsumerPipeline` | one shard's data path: on_message pushes into `IngestQueue` (instantiated with the same variables); `Consumer::start/stop/run`; `Parser::parse_ltp` (the `Parser` module) applied to each frame's JSON value `FrameText[f]`, tabulated once as `Parsed`; `LTPStore::upsert`; the sink | `crun` (running_), the consumer thread's `kpc` (loop, pop, parse, sink, done), `store` (token → frame number of the stored tick), `app` (the worker lifecycle in Sharder's order), `producing`, `aborted` |
| `NextPow2` | `IngestQueue::next_pow2` and `is_power_of_two` | constant operators over W-bit `size_t`; `RoundsUp` (in `MC_ConsumerPipeline`, stated for the phase where the worker's ring is constructed) compares them with a reference over every argument |
| `Batching` | `SubscriptionManager::make_batches` and the 0 → 100 coercion | pure operators |
| `SubscriptionManager` | every mutator of the reconciler, both builders | `desired`, `active`, `mode`, `batch_size`; a builder's result is the set of results over every `unordered_set` iteration order |
| `WebSocketClient` | `Impl::run`, `connect_once`, `read_loop`, `reconnect_loop`, `Impl::stop`, public `start`/`stop`/`send_text`, destructor | per client: `running`, `connected`, `hasWs`, the IO thread's `pc`, the nesting `depth` of reconnect_loop frames, `backoff`, `thread` (none/live/joined), `closeSent`, `hdr` (opts.headers), `connCred` |
| `WebSocketClientApp` | one client used directly by an application thread: `start`, `stop`, `send_text`, the destructor, racing the IO thread; the peer need not answer a close | `apc` (where the application thread is), `starts`, `aborted` (why std::terminate was called) |
| `Sharder` | `sharder.cpp` composed with one `WebSocketClient` per worker (`INSTANCE ... WITH Clients <- Workers`) | `desired_tokens`, `cred` (auth header value), `sRunning`, `nw`, `wTokens`, `ctl` (where the application thread is inside start/stop), `subs` (what the server streams on each connection), `aborted` (std::terminate) |

| `Parser` | `parser.cpp`: `get_string_any`, `get_number_any`, `get_time_any` with their conversions (`dump`, `std::stod` and `std::stoll` prefix parsing, the `(long long)` cast), `to_timepoint`, and `parse_ltp` (parse, unwrap an array or `data`, the three key searches, the prefix strip) | operators over an abstract JSON value: a record `[t, v]`, an object's `v` a function, an array's a sequence, a string's a sequence of characters, a float kept in tenths; nullopt and unparsable text are model values. Reference definitions `SpecParse` etc. read spec.md 4.3 |
| `HttpRequest` | `http_client.cpp`: `url_encode`, `build_query_string` (over a `std::map`, in its key order), `parse_https_url` | operators over strings as sequences of characters. Reference definitions: percent-decoding and the query's pairs, as RFC 3986 reads them |
| `Totp` | `totp.cpp`: `b32_val`, `base32_decode_impl`, `md_for_algo`, `left_pad_int`, `time_counter`, `hotp`, `code_at`/`now`, `verify` | operators. A string is the sequence of its character codes. The 32-bit `int` buffer of the decoder wraps as the build does. The uint32 `mod *= 10` loop is kept in 16-bit limbs. HMAC is the opaque constant operator `Hmac(algo, key, msg)`. Reference definitions: `Rfc4648Decode`, `RfcHotp` (RFC 4226), `VerifyWindow` |
| `Auth` | `auth.cpp`: `login_impl`, `refresh`, `handle_login_response`, `handle_refresh_response`, `is_expired`, `auth_headers`; the exception of `perform_request` (`http_client.cpp`) | `tokens` (access, refresh, feed, expires_at; a token is a number, `Empty` = ""), `result`. A response body is the record of the keys the handlers read, each a value, `Absent` or `NonInt` |
| `Logger` | `logger.cpp`: `log` and its level wrappers, `emit` | `clock`, `tmbuf` (the C library's static `struct tm` that `std::localtime` fills), per thread `pc` (idle, now, localtime, put_time, write), `t`, `header`, `made`; `out`, the lines written. `Log` (the level check), `Now` (clock read, `localtime_r` into the thread's own tm), `LocalTime`, `PutTime`, `Write` (under the mutex), `Tick` |
| `Session` | the TOTP constructor and Auth composed with a broker | `now`, `ctor`, `totp`, `tokens`, `result`, the broker's `srvNext` and `srvExpiry`, and the history `rtt` (each token's round trip). `BuildTotp`, `Tick`, `Login` (login_with_totp(code_at(now))), `Refresh` (without a refresh token, or a post whose answer may be lost). In Login and Refresh the broker issues at `now` and the handler reads the clock `d` seconds later |

`MC_*` modules and `.cfg` files instantiate the specifications for TLC.

### How the code maps onto actions

- **Atomic steps.**
  - The ring's try_push and try_pop are split at their atomic loads and stores.
  - Acquire/release means each load sees every store before it, so interleaving these steps covers every behaviour of the build.
  - Each SubscriptionManager call holds its mutex, so it is one step.
  - The builders take only the diff under the mutex; they read `mode_`, `batch_size_` and the formatter after the unlock. Reading them in the same state is exact for `src/`: nothing calls the setters, and the Sharder fixes them in the constructor before any thread starts.
  - `WebSocketClient`'s `StopRequest` is one step, although `ws->close` blocks until the peer answers. The caller's next step is always `Join`. A thread that got a close frame reaches `Join` only through `ReadClosed` or `ReadFault`, the same peer event that ends the close. So the caller waits exactly as long as in the code.
  - Each Sharder API call holds `Impl::mu`. It is split only where another thread can act in between: each `send_text`, each `ws->stop()` and join, and each destructor.
- **The IO thread's position.**
  - `pc` follows the code: `start`, `connect`, `loopcheck` (reconnect_loop's `while`), `sleep`, `resub` (the hook), `rtop` (read_loop's `while`), `read` (blocked in `ws->read`) and `done`.
  - Because read_loop and reconnect_loop call each other, `depth` counts the live reconnect_loop frames. Leaving the outermost loop unwinds them all.
- **Callbacks.**
  - `on_resubscribe` is `OnResubscribe`: the worker's `build_subscribe_batches` is sent on the just-connected stream.
  - Every worker's reconciler is seeded with its chunk, and nothing marks tokens active, so that builder always names the whole chunk.
  - `on_message` is `IngestQueue`'s `TryPush`, checked in its own module.
- **The network** may fail a connect or a read, at most `MaxFaults` times. It always answers a close frame.
- **The broker** in `Session` accepts a login whose password is the RFC 6238 code of the shared secret.
  - It answers with any body shape of `LoginShapes`/`RefreshShapes`, or with a 500.
  - A token it issues is accepted for `Lifetime` seconds. A TTL it reports is that lifetime.
  - Any answer may be lost after the broker acted on it or before. `perform_request` then throws out of login/refresh, leaving `tokens_` as they were.
  - The answer takes `d` seconds, from 0 to `MaxRtt`. The handler computes `expires_at` from `now()` after `post_json` returns (auth.cpp:131, 161). Nothing else acts while Auth's caller is blocked in the post, so the clock advances by `d` in the same step.
- **Const methods** (`verify`, `code_at`, `is_expired`) change nothing, so they are not steps. The properties evaluate them in every state.

## Runs

| Run | Checks | Result |
|---|---|---|
| `ingest_queue` | `NoSlotRace` (producer and consumer never on the same slot); `FifoDelivery` (queued = accepted minus popped/cleared, in order; every received frame accepted or dropped); `FifoRefinement` (refines `BoundedFifo` with `q <- Queued`) | pass, 386,984 states |
| `consumer_pipeline` | `TypeOK`; `StoreNeverRegresses` (no upsert replaces a token's tick by an older one); `EventuallyStored` (while the consumer runs, each accepted well-formed frame reaches the store); `RoundsUp` (the ring constructor's next_pow2 equals the least power of two ≥ max(n, 8), or 0 where size_t wraps, for all 256 8-bit arguments); `ParseMatchesContract` (parse_ltp returns what spec.md 4.3 says, token, price and timestamp, for 752 frames) | pass, 2,691 states |
| `consumer_pipeline_consumersurvivessink` | `ConsumerSurvivesSink` | **violation**: a throwing sink terminates the process |
| `subscription_manager` | `TypeOK`; `BatchesPartitionDiff`: every builder result names every token of the diff once, in full batches but the last | pass |
| `websocket_client_stopreturnswithoutpeer` | `StopReturnsWithoutPeer` | **violation**: stop() hangs if the peer ignores the close |
| `websocket_client_nostreamreplacedduringsend` | `NoStreamReplacedDuringSend` | **violation**: a reconnect destroys the stream send_text is writing to |
| `sharder` | `TypeOK`; `ResubscribeRestoresAll`: a worker reading on a reconnected connection has its whole chunk subscribed; `StopReturns`: `stop()` comes back; `EventuallyReconnects`: a running worker that lost its connection gets it back | pass, 115,772 states |
| `sharder_subscribedwhileserving` | `SubscribedWhileServing` | **violation**: the first connection serves nothing |
| `sharder_reconnectusescurrentcredential` | `ReconnectUsesCurrentCredential` | **violation**: a rotated token never reaches a reconnect |
| `sharder_noterminate` | `NoTerminate` | **violation**: stop() right after start() calls std::terminate |
| `session` | `TypeOK`; `SecretDecodesRFC4648`: the stored secret is the RFC 4648 decoding of the normalized string, and the constructor throws exactly for a bad character, digits or period; `CodeMatchesRFC`: the code logged in with is the RFC 4226/6238 value, zero-padded; `VerifyMatchesWindow`: verify accepts exactly the codes of steps within the window and not below zero; `ExpiryConservative`: while is_expired says a token with a known expiry is fresh, the broker accepts it for `skew` minus that token's round trip more seconds. So an answer slower than the skew leaves a token called fresh that the broker already rejects. With the defaults (60 s skew, 10 s HTTP timeout) the margin stays positive; `RequestTargetMatchesRfc3986`: the host, port and target parse_https_url builds decode to the URL's host, port (443 when absent or empty) and path, and to exactly the URL's own query parameters and the map's entries, each once. The TOTP and URL properties depend on `ctor`, `totp` and `now` only, so they are evaluated in the states before any token is issued, which reach every such combination | pass, 36,904 states |
| `logger_linetimeisown` | `LineTimeIsOwn`: every line's header shows the second its own call read | **violation**: two threads logging at once share std::localtime's buffer |

### Findings

1. **Tokens are never subscribed on the first connection.**
   - `Sharder::start` sends the initial subscribes before any IO thread has connected (`sharder.cpp:208`), so `send_text` returns false.
   - `run()` enters read_loop after a successful first connect without calling the resubscribe hook (`websocket_client.cpp:151`).
   - The worker streams nothing until its first reconnect.
2. **Credential rotation does not reach the transports.**
   - `set_access_token` discards the headers it computes (`sharder.cpp:167`).
   - Clients keep the headers copied at build time (line 101), against the comment at line 161 and spec.md.
3. **`stop()` soon after `start()` can terminate the process.**
   - `running` is set only inside the IO thread (`websocket_client.cpp:145`).
   - `WebSocketClient::stop()` then returns without joining (line 189).
   - The destructor deletes a joinable `std::thread`.
   - The same test makes a second `start()` before the IO thread has run move-assign over a joinable `std::thread` (line 184), which also terminates; spec.md 7 says a double start is a no-op.
4. **Sink exceptions are not caught.** `Consumer::run` calls the sink without a try/catch (`consumer.cpp:31`). spec.md 4.4 requires sink exceptions to be caught and logged.
5. **`stop()` depends on the peer.**
   - `ioc.stop()` does not interrupt the synchronous `ws->read` (`websocket_client.cpp:162`).
   - If the peer never answers the close, the join blocks forever.
   - spec.md 5 says stop cancels pending I/O.
6. **Use after free in `send_text`.**
   - The IO thread can reconnect between send_text's test and its write.
   - The reconnect replaces `impl_->ws` (line 80) and destroys the stream being written.
7. **Log lines carry another thread's time.**
   - `emit` converts `t` with `localtime_r` into its own `tm` (`logger.cpp:49`), then formats the header from `std::localtime(&t)` (line 51), which returns the C library's one static `struct tm`.
   - Every worker's IO thread logs into the same Logger, and the conversion happens outside the mutex.
   - A second thread's `localtime` can overwrite the buffer before the first thread's `put_time` reads it. This is a data race; its visible outcome is a line stamped with the other call's second. `logger.h:26` calls the API thread-safe.

Also seen while modelling, and left as hazards without a run:

- **10-digit TOTP codes are wrong.** The constructor admits 6 to 10 digits (`totp.cpp:87`), but `left_pad_int` computes `10^digits` in a `uint32_t` (line 66): 1410065408 for 10 digits. A truncated MAC at or above that loses its top part, so the code is not the RFC 4226 value. `CodeMatchesRFC` is checked for 6 and 8 digits. With `DigitChoices = {10}`, period 1 and the valid secrets, TLC finds it violated. That run was retired to make room for the Logger's.

- `read_loop` and `reconnect_loop` recurse into each other (`websocket_client.cpp:125` and 136), one frame pair per successful reconnect. `WebSocketClient` tracks this nesting as `depth`.
- A login answer with an empty `jwtToken` still overwrites all of `tokens_` before failing (`auth.cpp:118`).
- The parser departs from spec.md 4.3 in three ways, which `Parser.tla` models and the reference definitions state. The test frames of `ParseMatchesContract` avoid them, so the run checks the rest:
  - a first present key of an unaccepted type (null, bool, object) does not end the search; a later key is used (`parser.cpp:14`);
  - `std::stod`/`std::stoll` accept a numeric prefix, so `"12q"` is a price of 12 (`parser.cpp:30`, 44);
  - a float timestamp is truncated to whole units before the heuristic (`parser.cpp:42`), so 1.5 s becomes 1000 ms.
- `HTTPClient`'s `expires_after` bounds only asynchronous operations, and every operation of `perform_request` is synchronous, so `opts.timeout` never fires (`http_client.cpp:129`).

### Bounds and why they are enough

- **`IngestQueue`: Cap 8, W 4.**
  - The counters wrap after 16, twice the capacity, so a full ring straddles the wrap.
  - 17 frames let the ring fill, drain and refill across it, with a `clear()`.
- **`ConsumerPipeline`: the same ring, 10 frames.**
  - Frames carry tokens t1, t2 and one malformed frame.
  - t1 recurs, so a stale tick could overwrite a newer one.
  - The ring can fill while the consumer lags.
- **Parser: 752 test frames.**
  - Every combination of token members (none, a prefixed string, an integer, a negative float, a string under a first key beside a bool under a later one), price members (none, int, float, numeric string, null) and timestamp members (none, an int, exactly the ms threshold, a digit string, a negative float, one below the threshold).
  - Each such object is also wrapped in an array, under `data`, as `[{data: [e]}]`, and beside an empty `data` array; with unparsable text and an empty array.
  - The ms threshold is scaled from 10^12 to 1000 (`MsThreshold`): TLC's integers are 32-bit, and the comparison is what matters.
  - The pipeline's ten frames are JSON values that parse to two tokens, one unparsable frame and one without a price.
- **`HttpRequest`: 3 ports × 4 paths × 49 query maps.**
  - Ports: none, an empty one after `:`, and 8443. Paths: none, `/`, `/a/b`, and one with its own query.
  - Keys and values hold `&`, `=`, `%`, space, `+`, `?`, `/`, `#` and the empty string; maps have up to two entries, so the `&` join and std::map's order are exercised.
- **`NextPow2`: W = 8**, checked in the `consumer_pipeline` run. It sweeps every argument, including the wrap to 0 above 128.
- **`SubscriptionManager`: three tokens, batch sizes {0, 1, 2}.**
  - Size 2 gives a partial last batch; size 1 gives one payload per token.
  - Zero exercises the coercion. Every iteration order is enumerated.
- **`WebSocketClientApp`: one client.**
  - Two start() calls reach the double start.
  - Two faults give a failed connect and a dropped connection, or two drops in a row.
- **`Sharder`: three tokens, two per connection.**
  - This gives two workers, one with a partial chunk. The empty list gives the single idle worker.
  - Batch size 1 lets a connection come up between two payloads.
  - Two faults allow a failed first connect followed by a reconnect, or two reconnects in a row.
  - One credential rotation.
  - Backoff 2 with cap 3 makes the cap bite on the first doubling.

- **`Logger`: two threads, two calls each, the clock over two seconds.** A tick between one thread's clock read and another's is what separates the times, and two threads are what share the buffer.
- **`Session`: seven secrets, digits {5, 6, 8}, periods {0, 1, 2}, SHA1, windows {0, 1, 2}.**
  - The secrets are the RFC 6238 test secret, the same in lower case with blanks and `=`, and all-ones groups.
  - The RFC secret has 32 characters, so the buffer wraps many times. The all-ones groups make the buffer negative.
  - The others are 7 characters (leftover bits), one character (no whole byte), an invalid character, and the empty string.
  - Digits 5 and period 0 are rejected by the constructor.
  - HMAC is a deterministic mix of key and message (`MCHmac`), so offsets and leading zeros vary between steps.
  - The clock runs from 1 to 4. Tokens live 3 s with a 1 s skew, so a token reaches is_expired's threshold while the broker still accepts it.
  - Round trips of 0, 1 and 2 s cover an answer faster than the skew, one equal to it (where `>=` against `>` decides), and one slower.
  - Two issued tokens allow a login followed by a refresh with or without a TTL, or two logins.

### Fairness

- **Consumer.** It spins on `try_pop` while running (`consumer.cpp:23-27`), so its steps are weakly fair.
- **Producer.** A producer inside try_push finishes it. Frame arrival is not assumed.
- **ConsumerPipeline.**
  - The consumer thread's steps are fair, and a sink that returns lets it continue.
  - The application thread finishes a stop it began; the join waits for the consumer.
  - The application is not obliged to stop at all.
- **Sharder.**
  - The application thread finishes the call it is in, and each IO thread finishes its step.
  - A connect attempt ends one way or the other.
  - Frames and faults come from the peer and are not fair.
  - The peer is assumed to answer a close frame (`ReadClosed` fair).

- **WebSocketClientApp.** The IO thread's own steps are fair, as in the Sharder. Frames, faults and the peer's answer to a close are not. A write and a join return.

- **Session.** No fairness and no liveness property: nothing in the repository calls login or refresh on a schedule.

`CHECK_DEADLOCK FALSE` is used where the system really stops:

- the ring after its last frame;
- a session whose clock is at its bound with every token issued;
- a sharder that has called std::terminate (`Next` is disabled once `aborted`), or is idle after a stop with no credential left to rotate.

### Mutants

Each property of a passing run has a mutant in `PROJECT.json`: a plausible bug (an off-by-one full or empty test, a missing counter reset, a dropped cap, an unwired hook, a missing close frame) that TLC shows the property catches.

## Not modelled

- **JSON text itself:** `json::parse` is abstracted to its result, a JSON value or unparsable; `Parser::set_strip_prefix` is configuration done before the parser is shared, so the prefix is a constant.
- **Draining the ring on stop:** the consumer leaves frames still queued when it stops; the spec does not require draining.
- **Concurrent use of one Beast stream:** every application-thread send while the IO thread reads does it, and so does `stop()`'s synchronous close. Both are listed as hazards.
- **Keepalive and connect timeout:** `ping_interval` is unused and `conn_timeout` does not bound the synchronous connect. These are listed as hazards.
- **`debug_broadcast_text`:** its sends are `send_text`'s, whose race with a reconnect `NoStreamReplacedDuringSend` shows. Its unlocked walk over `workers` could meet `stop()` clearing the vector only if another thread called `stop()`; in `src/`, the test thread that broadcasts is the one that stops.
- **HMAC itself** is an opaque operator. A JSON value of the wrong type under a key (where `value()` throws) is left out.
- **HttpClient's headers and I/O:** the header merge of `apply_headers` and `post_json` (Auth's headers are fixed), `set/erase_default_header` (no caller in `src/`), TLS and sockets.
- **Logger beyond emit:** `set_level` (its unlocked read in `log()` races it, but nothing in `src/` calls it), the move constructor and move assignment (which locks two mutexes in argument order) are never used in `src/`. A line's text other than its time and level is left out.
- **Config:** it reads a JSON file once into values; pure I/O.

## Plan

Done:

1. IngestQueue, with its refinement to BoundedFifo and next_pow2.
2. WebSocketClient composed into the Sharder.
3. SubscriptionManager and batching.
4. Consumer and LTPStore composed with IngestQueue (ConsumerPipeline).
5. A standalone WebSocketClient model (WebSocketClientApp): the send/replace race, double start, and a peer that ignores the close. Reconnection liveness is checked in the Sharder run, where the same client state machine runs per worker.
6. TOTP operators checked against RFC 4648/4226/6238 reference definitions, and Auth's expiry checked against a broker (Session).
7. Parser operators checked against spec.md 4.3, composed into ConsumerPipeline; HTTPClient's URL and query building checked against RFC 3986.
8. The Logger's threads and its localtime race.

Next:

9. The header merge of `post_json`/`apply_headers` against the header comment: a caller's `CONTENT-TYPE` sorts before `Content-Type` in the std::map and is overwritten, where `content-type` wins. Showing it needs a violation run.
