---------------------------- MODULE HttpRequest ----------------------------
(***************************************************************************)
(* How HTTPClient (src/src/http_client.cpp) turns a call into a request:  *)
(* the query map percent-encoded and joined (url_encode,                  *)
(* build_query_string), the https URL split into host, port and target   *)
(* (parse_https_url), and the header fields of a post_json request       *)
(* (post_json, post, apply_headers, perform_request's Host).  A string is *)
(* a sequence of one-character strings; CharCode gives the byte of each  *)
(* character the checks use.  The network exchange itself is the Auth    *)
(* module's post outcome.                                                 *)
(***************************************************************************)
EXTENDS Integers, Sequences, SequencesExt

CONSTANT Throws   \* the runtime_error of a URL that is not https://

Lower  == <<"a","b","c","d","e","f","g","h","i","j","k","l","m",
            "n","o","p","q","r","s","t","u","v","w","x","y","z">>
Upper  == <<"A","B","C","D","E","F","G","H","I","J","K","L","M",
            "N","O","P","Q","R","S","T","U","V","W","X","Y","Z">>
Digit  == <<"0","1","2","3","4","5","6","7","8","9">>
Punct  == << " ", "#", "%", "&", "+", "-", ".", "/", ":", "=", "?", "@", "_", "~">>
PunctCode == <<32, 35, 37, 38, 43, 45, 46, 47, 58, 61, 63, 64, 95, 126>>

(* The byte of a character (ASCII). *)
CharCode ==
    [c \in Range(Lower) \cup Range(Upper) \cup Range(Digit) \cup Range(Punct) |->
        CASE c \in Range(Lower) -> 96 + SelectInSeq(Lower, LAMBDA x : x = c)
          [] c \in Range(Upper) -> 64 + SelectInSeq(Upper, LAMBDA x : x = c)
          [] c \in Range(Digit) -> 47 + SelectInSeq(Digit, LAMBDA x : x = c)
          [] OTHER -> PunctCode[SelectInSeq(Punct, LAMBDA x : x = c)]]

Hex == <<"0","1","2","3","4","5","6","7","8","9","A","B","C","D","E","F">>

(* std::isalnum(c) || c=='_' || c=='-' || c=='.' || c=='~' *)
Unreserved(c) ==
    c \in Range(Lower) \cup Range(Upper) \cup Range(Digit) \cup {"_", "-", ".", "~"}

(* url_encode: unreserved bytes as they are, every other byte as "%XY"   *)
(* with XY its two upper-case hex digits (hex[c>>4], hex[c&15]).          *)
(* Mutant: the two hex digits of the escape in the opposite order. *)
PercentByteSwapped(c) == <<"%", Hex[(CharCode[c] % 16) + 1], Hex[(CharCode[c] \div 16) + 1]>>
PercentByte(c) == <<"%", Hex[(CharCode[c] \div 16) + 1], Hex[(CharCode[c] % 16) + 1]>>
url_encode(s) ==
    FlattenSeq([i \in 1..Len(s) |-> IF Unreserved(s[i]) THEN <<s[i]>> ELSE PercentByte(s[i])])

(* std::string's operator<, the order std::map iterates its keys in:     *)
(* bytewise lexicographic.                                                 *)
RECURSIVE StrLess(_, _)
StrLess(a, b) ==
    /\ b # <<>>
    /\ \/ a = <<>>
       \/ CharCode[a[1]] < CharCode[b[1]]
       \/ a[1] = b[1] /\ StrLess(Tail(a), Tail(b))

(* A std::map<string,string>'s keys in iteration order. *)
MapKeys(m) == SetToSortSeq(DOMAIN m, StrLess)

(* build_query_string: "" for an empty map, else url_encode(k) "="       *)
(* url_encode(v) for each entry in key order, joined by "&".               *)
QueryOver(q, ks) ==
    FlattenSeq([i \in 1..Len(ks) |->
        (IF i > 1 THEN <<"&">> ELSE <<>>) \o url_encode(ks[i]) \o <<"=">> \o url_encode(q[ks[i]])])
build_query_string(q) == QueryOver(q, MapKeys(q))

Scheme == <<"h","t","t","p","s",":","/","/">>
Port443 == <<"4","4","3">>

(* The index of the first c in s, 0 for npos. *)
Find(s, c) == SelectInSeq(s, LAMBDA x : x = c)

(* parse_https_url: reject a URL without the https:// prefix; the rest  *)
(* up to the first "/" is host[:port], the port after the first ":"      *)
(* ("443" when absent or empty); the path from that "/" ("/" when there  *)
(* is none); the query string appended after "?", or after "&" when the *)
(* path already holds a "?".                                              *)
HostPort(rest, slash) == IF slash = 0 THEN rest ELSE SubSeq(rest, 1, slash - 1)
PathOf(rest, slash)   == IF slash = 0 THEN <<"/">> ELSE SubSeq(rest, slash, Len(rest))
HostOf(hp, colon) == IF colon = 0 THEN hp ELSE SubSeq(hp, 1, colon - 1)
PortOf(hp, colon) == IF colon = 0 \/ colon = Len(hp) THEN Port443 ELSE SubSeq(hp, colon + 1, Len(hp))
Target(path, qs) ==
    IF qs = <<>> THEN path ELSE path \o <<IF Find(path, "?") = 0 THEN "?" ELSE "&">> \o qs
UrlParts(hp, path, query) ==
    [host   |-> HostOf(hp, Find(hp, ":")),
     port   |-> PortOf(hp, Find(hp, ":")),
     target |-> Target(path, build_query_string(query))]
SplitRest(rest, query) ==
    UrlParts(HostPort(rest, Find(rest, "/")), PathOf(rest, Find(rest, "/")), query)
parse_https_url(https_url, query) ==
    IF ~IsPrefix(Scheme, https_url) THEN Throws
    ELSE SplitRest(SubSeq(https_url, Len(Scheme) + 1, Len(https_url)), query)

-----------------------------------------------------------------------------
(* Reference: RFC 3986 read for these URLs.  The authority is host       *)
(* [":" port]; the target is the path and query; a query is a list of    *)
(* k=v pairs separated by "&", each side percent-decoded.                  *)

HexVal(c) == SelectInSeq(Hex, LAMBDA x : x = c) - 1
(* The character of byte n; "?byte" for a byte outside the alphabet. *)
ByteChar(n) ==
    IF \E c \in DOMAIN CharCode : CharCode[c] = n
    THEN CHOOSE c \in DOMAIN CharCode : CharCode[c] = n ELSE "?byte"

(* Percent-decoding: "%XY" is the byte XY, any other character itself. *)
RECURSIVE PctDecode(_)
PctDecode(s) ==
    IF s = <<>> THEN <<>>
    ELSE IF s[1] = "%" /\ Len(s) >= 3
         THEN <<ByteChar(16 * HexVal(s[2]) + HexVal(s[3]))>> \o PctDecode(SubSeq(s, 4, Len(s)))
         ELSE <<s[1]>> \o PctDecode(Tail(s))

(* The pieces of s between the separators c. *)
RECURSIVE SplitAt(_, _)
SplitAt(s, c) ==
    IF c \notin Range(s) THEN <<s>>
    ELSE <<SubSeq(s, 1, Find(s, c) - 1)>> \o SplitAt(SubSeq(s, Find(s, c) + 1, Len(s)), c)

(* The query's parameters as decoded (key, value) pairs. *)
DecodedPair(p) == <<PctDecode(SubSeq(p, 1, Find(p, "=") - 1)), PctDecode(SubSeq(p, Find(p, "=") + 1, Len(p)))>>
PairsOf(parts) == [i \in 1..Len(parts) |-> DecodedPair(parts[i])]
QueryPairs(qs) == IF qs = <<>> THEN <<>> ELSE PairsOf(SplitAt(qs, "&"))

(* The query part of a target: what follows its first "?". *)
QueryOf(target) ==
    IF Find(target, "?") = 0 THEN <<>> ELSE SubSeq(target, Find(target, "?") + 1, Len(target))
=============================================================================
