------------------------------ MODULE MC_Session ------------------------------
(* Base32 secrets: the RFC 6238 test secret (32 characters, so the int    *)
(* buffer wraps many times), the same in lower case with blanks and       *)
(* padding, all-ones groups (the buffer goes negative), 7 characters      *)
(* (leftover bits), one character (no whole byte), an invalid character   *)
(* and the empty string.  Digits 5 (rejected), 6 and 8; period 0          *)
(* (rejected), 1 and 2.  Tokens live 3 s with a 1 s skew and the clock    *)
(* runs from 1 to 4, so a token reaches is_expired's threshold; two       *)
(* issued tokens allow a login then a refresh with or without a TTL, or   *)
(* two logins.                                                            *)
EXTENDS Session, FiniteSets

CONSTANTS Throws_, None_, Absent_, NonInt_, Fresh_

(* "GEZDGNBVGY3TQOJQGEZDGNBVGY3TQOJQ" *)
S1 == <<71, 69, 90, 68, 71, 78, 66, 86, 71, 89, 51, 84, 81, 79, 74, 81, 71, 69, 90, 68, 71, 78, 66, 86, 71, 89, 51, 84, 81, 79, 74, 81>>
(* "gezd gnbv gy3t qojq====" *)
S2 == <<103, 101, 122, 100, 32, 103, 110, 98, 118, 32, 103, 121, 51, 116, 32, 113, 111, 106, 113, 61, 61, 61, 61>>
(* "77777777" *)
S3 == <<55, 55, 55, 55, 55, 55, 55, 55>>
(* "7777777" *)
S4 == <<55, 55, 55, 55, 55, 55, 55>>
(* "A" *)
S5 == <<65>>
(* "GE1Q" *)
S6 == <<71, 69, 49, 81>>
(* "" *)
S7 == <<>>

MCSecrets == {S1, S2, S3, S4, S5, S6, S7}

(* A stand-in for HMAC: a deterministic mix of key and message into a    *)
(* MAC of the algorithm's size, so that offsets, top bits and leading     *)
(* zeros of the truncated value vary from step to step.                   *)
MCHmac(algo, key, msg) ==
    LET h == FoldLeft(LAMBDA a, x : (a * 31 + x) % 65521, 7, key \o msg)
    IN  [i \in 1..T!MdSize[algo] |-> (h * (2 * i + 1) + i * 97) % 256]

Body(jwt, rt, ft, ei, tt) ==
    [parses |-> TRUE, data |-> TRUE, jwtToken |-> jwt, refreshToken |-> rt,
     feedToken |-> ft, expiresIn |-> ei, jwtTokenTTL |-> tt]

MCLifetime == 3

(* Login answers: tokens with expiresIn, with jwtTokenTTL behind a       *)
(* non-integer expiresIn, without a TTL, an empty jwtToken, no           *)
(* refreshToken, and a body that is not JSON.                            *)
MCLoginShapes ==
    { Body(Fresh_, Fresh_, Fresh_, MCLifetime, Absent_),
      Body(Fresh_, Fresh_, Absent_, NonInt_, MCLifetime),
      Body(Fresh_, Fresh_, Fresh_, Absent_, Absent_),
      Body(0, Fresh_, Absent_, MCLifetime, Absent_),
      Body(Fresh_, Absent_, Fresh_, MCLifetime, Absent_),
      [Body(Fresh_, Fresh_, Fresh_, MCLifetime, Absent_) EXCEPT !.parses = FALSE] }

(* Refresh answers: a new jwtToken with a TTL and no refreshToken, one    *)
(* without a TTL but a new refreshToken, a zero TTL, and an empty         *)
(* jwtToken.                                                              *)
MCRefreshShapes ==
    { Body(Fresh_, Absent_, Fresh_, MCLifetime, Absent_),
      Body(Fresh_, Fresh_, Absent_, Absent_, Absent_),
      Body(Fresh_, Absent_, Absent_, 0, Absent_),
      Body(0, Absent_, Absent_, MCLifetime, Absent_) }
H == INSTANCE HttpRequest

(* Request URLs: a dotted host as auth.cpp's kBase has, with no port, an *)
(* empty port or port 8443, and no path, "/", a path of two segments as  *)
(* the login and token paths have, or a path that already carries a     *)
(* query; and one http:// URL.  Query maps of up to two entries whose     *)
(* keys and values hold the separators "&", "=", "?", "/", "#", a blank,  *)
(* "+", a literal "%20", or nothing.                                      *)
UHost  == <<"a", "-", "b", ".", "c">>
UPorts == {<<>>, <<":">>, <<":", "8", "4", "4", "3">>}
UPaths == {<<>>, <<"/">>, <<"/", "a", "/", "b">>, <<"/", "a", "?", "x", "=", "1">>}
QKeys  == {<<"a">>, <<"&", "=">>, <<"%", "2", "0">>, <<>>}
QVals  == {<<>>, <<" ", "+">>, <<"?", "/", "#">>}
Queries == UNION {[D -> QVals] : D \in {D \in SUBSET QKeys : Cardinality(D) <= 2}}

(* What RFC 3986 makes of https:// host port path with the query map q: *)
(* the authority's host, the port or 443, the path or "/", and as the    *)
(* query the parameters the path carries followed by the map's entries.  *)
PathPart(path) ==
    CASE path = <<>>              -> <<"/">>
      [] H!Find(path, "?") = 0   -> path
      [] OTHER                   -> SubSeq(path, 1, H!Find(path, "?") - 1)
MapPairs(q, ks) == [i \in 1..Len(ks) |-> <<ks[i], q[ks[i]]>>]
WantPairs(path, q) == H!QueryPairs(H!QueryOf(path)) \o MapPairs(q, H!MapKeys(q))
SameMultiset(got, want) == Len(got) = Len(want) /\ ToSet(got) = ToSet(want)
TargetOk(r, port, path, q) ==
    /\ r.host = UHost
    /\ r.port = (IF Len(port) > 1 THEN Tail(port) ELSE H!Port443)
    /\ SubSeq(r.target, 1, Len(PathPart(path))) = PathPart(path)
    /\ SameMultiset(H!QueryPairs(H!QueryOf(r.target)), WantPairs(path, q))

(* In the initial state: HTTPClient's request line for every test URL   *)
(* and query map names the URL's host and port (443 when the port is     *)
(* absent or empty), keeps its path, and carries a query that decodes    *)
(* to exactly the URL's own parameters and the map's entries, each once,  *)
(* however many separators the keys and values hold; an http:// URL is  *)
(* refused.  This is url_encode, build_query_string and parse_https_url  *)
(* together, with the "?" or "&" choice.                                 *)
RequestTargetMatchesRfc3986 ==
    ctor = None /\ now = 1 =>
      /\ H!parse_https_url(<<"h", "t", "t", "p", ":", "/", "/">> \o UHost, <<>> :> <<>>) = Throws
      /\ \A port \in UPorts, path \in UPaths, q \in Queries :
           TargetOk(H!parse_https_url(H!Scheme \o UHost \o port \o path, q), port, path, q)
=============================================================================
