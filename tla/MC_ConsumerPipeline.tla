------------------------- MODULE MC_ConsumerPipeline -------------------------
(* An 8-slot ring with 4-bit counters and ten frames: the ring can fill   *)
(* and wrap.  The frames are JSON texts of the shapes spec.md 4.3 lists   *)
(* (bare object, array root, data object, data array, a number as the    *)
(* token, a price as a string), plus one that is not JSON and one with   *)
(* no price; after the "p|" prefix is stripped they name two tokens, and *)
(* token 26 recurs so that a stale tick of it could overwrite a newer    *)
(* one.  Checked alongside, in the state before the worker starts: the   *)
(* rounding of the ring's capacity, and the parser against spec.md 4.3.  *)
EXTENDS ConsumerPipeline

CONSTANTS bad, notJson, nullopt
MCCap == 8
MCW == 4
MCNFrames == 10
MCMaxClears == 0
MCMsThreshold == 1000
MCStripPrefix == <<"p", "|">>

(* JSON values of the Parser module's form. *)
JStr(s)  == [t |-> "str", v |-> s]
JInt(n)  == [t |-> "int", v |-> n]
JFlt(n)  == [t |-> "float", v |-> n]          \* n tenths
JBool    == [t |-> "bool", v |-> TRUE]
JNull    == [t |-> "null", v |-> 0]
JObj(f)  == [t |-> "obj", v |-> f]
JArr(s)  == [t |-> "arr", v |-> s]
NoKeys  == [k \in {} |-> JNull]

P26 == JStr(<<"p", "|", "2", "6">>)
MCTokens == {<<"2", "6">>, <<"4", "1">>}

MCFrameText ==
    << JObj(("symbol" :> P26) @@ ("ltp" :> JInt(7))),
       JArr(<< JObj(("token" :> JInt(41)) @@ ("price" :> JStr(<<"1", "2", ".", "5">>))) >>),
       JObj("data" :> JObj(("tradingsymbol" :> P26) @@ ("last_price" :> JFlt(75))
                          @@ ("ts" :> JInt(1)))),
       notJson,
       JObj("data" :> JArr(<< JObj(("symbol" :> P26) @@ ("ltp" :> JStr(<<"7">>))) >>)),
       JObj(("token" :> JStr(<<"2", "6">>)) @@ ("lastPrice" :> JInt(8))
           @@ ("exchange_timestamp" :> JStr(<<"5">>))),
       JObj(("instrument_token" :> JInt(41)) @@ ("trade_price" :> JInt(3))),
       JObj("symbol" :> P26),
       JArr(<< JObj(("tokenID" :> P26) @@ ("price" :> JFlt(90)) @@ ("epoch" :> JInt(2000))) >>),
       JObj(("symbol" :> P26) @@ ("ltp" :> JInt(9)) @@ ("time" :> JFlt(30))) >>

(* Frames for the contract check: every combination of a token, a price *)
(* and a timestamp member (each possibly absent) under every wrapping.   *)
(* They stay where spec.md 4.3 is unambiguous and the code agrees with  *)
(* it; the three places where they part are hazards of PROJECT.json.     *)
TokenMembers == { NoKeys, "symbol" :> P26, "token" :> JInt(41), "token" :> JFlt(-25),
                  ("tradingsymbol" :> JStr(<<"2", "6">>)) @@ ("tokenID" :> JBool) }
PriceMembers == { NoKeys, "ltp" :> JInt(7), "last_price" :> JFlt(75),
                  "price" :> JStr(<<"1", "2", ".", "5">>), "ltp" :> JNull }
TsMembers    == { NoKeys, "ts" :> JInt(5), "epoch" :> JInt(1000), "time" :> JStr(<<"5">>),
                  "timestamp" :> JFlt(-30), "exchange_timestamp" :> JInt(999) }
Elements == { JObj(a @@ b @@ c) : a \in TokenMembers, b \in PriceMembers, c \in TsMembers }
TestFrames ==
    {notJson, JArr(<<>>)} \cup Elements
    \cup {JArr(<<e>>) : e \in Elements}
    \cup {JObj("data" :> e) : e \in Elements}
    \cup {JArr(<<JObj("data" :> JArr(<<e>>))>>) : e \in Elements}
    \cup {JObj(("data" :> JArr(<<>>)) @@ e.v) : e \in Elements}

SizeTBits == 8
NP == INSTANCE NextPow2 WITH W <- SizeTBits

(* While the worker is being built (build_workers_locked constructs its  *)
(* IngestQueue before the consumer starts), the constructor's next_pow2   *)
(* rounds every size_t argument to the least power of two that is at     *)
(* least 8, and wraps to a zero-sized ring for requests above 2^(W-1).   *)
RoundsUp ==
    app = "init" =>
        \A n \in 0..NP!Modulus - 1 : NP!next_pow2(n) = NP!NextPow2Ref(n)

(* Parser::parse_ltp, with the prefix the feed configures, returns what  *)
(* spec.md 4.3 says for every test frame: the unwrapping of arrays and   *)
(* data members, the first-present key order for token, price and time,  *)
(* number-to-string tokens, numeric strings, the seconds/milliseconds    *)
(* heuristic at its threshold, the prefix strip, and nullopt for text    *)
(* that is not JSON or lacks a token or a price.                          *)
ParseMatchesContract ==
    app = "init" =>
        \A f \in TestFrames : P!parse_ltp(f, StripPrefix) = P!SpecParse(f, StripPrefix)
=============================================================================
