------------------------------- MODULE Parser -------------------------------
(***************************************************************************)
(* Parser::parse_ltp of src/src/parser.cpp as operators.  A frame is       *)
(* NotJson (json::parse throws) or a JSON value: a record [t, v] with t    *)
(* the type and v the payload -- an object's v is a function from its     *)
(* keys, an array's a sequence, a string's the sequence of its characters *)
(* (one-character strings).  A double is kept in tenths: the test values  *)
(* have at most one decimal.  An instant is kept in milliseconds since    *)
(* the epoch.  MsThreshold stands for the code's 10^12, scaled down so     *)
(* that timestamps on both sides of it are TLC integers.                   *)
(***************************************************************************)
EXTENDS Integers, Sequences, SequencesExt, FiniteSetsExt

CONSTANTS NotJson,      \* a frame json::parse rejects
          Nullopt,      \* parse_ltp's std::nullopt; also "no value" below
          MsThreshold   \* 1000000000000LL in to_timepoint

TOKEN_KEYS == <<"token", "symbol", "tradingsymbol", "instrument_token", "tokenID">>
PRICE_KEYS == <<"ltp", "last_price", "lastPrice", "price", "trade_price">>
TS_KEYS    == <<"exchange_timestamp", "timestamp", "ts", "time", "epoch">>

Digits == <<"0", "1", "2", "3", "4", "5", "6", "7", "8", "9">>
IsDigit(c) == c \in Range(Digits)
DigitVal(c) == SelectInSeq(Digits, LAMBDA d : d = c) - 1

(* j.contains(k): only an object has keys. *)
HasKey(j, k) == j.t = "obj" /\ k \in DOMAIN j.v

IsNumber(v) == v.t \in {"int", "float"}

(* The decimal digits of n >= 0. *)
RECURSIVE Decimal(_)
Decimal(n) == IF n < 10 THEN <<Digits[n + 1]>> ELSE Append(Decimal(n \div 10), Digits[(n % 10) + 1])

AbsVal(n) == IF n < 0 THEN -n ELSE n
SignChars(n) == IF n < 0 THEN <<"-">> ELSE <<>>

(* v.dump() of a number: an integer in decimal, a double in its shortest *)
(* form with ".0" when it is integral.                                    *)
Dump(v) ==
    IF v.t = "int" THEN SignChars(v.v) \o Decimal(AbsVal(v.v))
    ELSE SignChars(v.v) \o Decimal(AbsVal(v.v) \div 10)
           \o <<".", Digits[(AbsVal(v.v) % 10) + 1]>>

(* The length of the run of characters of the set C from position i. *)
RECURSIVE RunLen(_, _, _)
RunLen(s, i, C) == IF i > Len(s) \/ s[i] \notin C THEN 0 ELSE 1 + RunLen(s, i + 1, C)

DecVal(s) == FoldLeft(LAMBDA a, c : 10 * a + DigitVal(c), 0, s)

(* Where the number starts (after leading blanks), whether a sign is     *)
(* there, and the run of digits from position p.                          *)
Start(s) == RunLen(s, 1, {" "}) + 1
Signed(s, p) == p <= Len(s) /\ s[p] \in {"-", "+"}
Negative(s, p) == p <= Len(s) /\ s[p] = "-"
AfterSign(s) == IF Signed(s, Start(s)) THEN Start(s) + 1 ELSE Start(s)
DigitsAt(s, p) == SubSeq(s, p, p + RunLen(s, p, Range(Digits)) - 1)
SignOf(neg) == IF neg THEN -1 ELSE 1

(* std::stoll (base 10): leading blanks, a sign, then the longest run of *)
(* digits; Nullopt (invalid_argument, caught) when there is no digit.    *)
StollOf(neg, ds) == IF ds = <<>> THEN Nullopt ELSE SignOf(neg) * DecVal(ds)
Stoll(s) == StollOf(Negative(s, Start(s)), DigitsAt(s, AfterSign(s)))

(* std::stod, in tenths: blanks, a sign, digits, then "." and digits; at *)
(* least one digit in all.  The rest of the string is ignored.            *)
FracAt(s, q) == IF q <= Len(s) /\ s[q] = "." THEN DigitsAt(s, q + 1) ELSE <<>>
StodOf(neg, ip, fp) ==
    IF ip = <<>> /\ fp = <<>> THEN Nullopt
    ELSE SignOf(neg) * (10 * DecVal(ip) + (IF fp = <<>> THEN 0 ELSE DigitVal(fp[1])))
Stod(s) ==
    StodOf(Negative(s, Start(s)), DigitsAt(s, AfterSign(s)),
           FracAt(s, AfterSign(s) + RunLen(s, AfterSign(s), Range(Digits))))

(* static_cast<long long>(double): truncation toward zero, from tenths. *)
TruncTenths(n) == IF n >= 0 THEN n \div 10 ELSE -((-n) \div 10)

(* The three conversions the key searches try on a present key's value. *)
AsString(v) ==
    CASE v = Nullopt -> Nullopt
      [] v.t = "str" -> v.v
      [] IsNumber(v) -> Dump(v)
      [] OTHER       -> Nullopt
AsNumber(v) ==
    CASE v = Nullopt   -> Nullopt
      [] v.t = "float" -> v.v
      [] v.t = "int"   -> 10 * v.v
      [] v.t = "str"   -> Stod(v.v)
      [] OTHER         -> Nullopt
AsTime(v) ==
    CASE v = Nullopt   -> Nullopt
      [] v.t = "int"   -> v.v
      [] v.t = "float" -> TruncTenths(v.v)
      [] v.t = "str"   -> Stoll(v.v)
      [] OTHER         -> Nullopt

(* get_string_any / get_number_any / get_time_any: the first key that is *)
(* present and whose value converts; Nullopt when none does.             *)
ValueAt(j, keys, i) == IF i = 0 THEN Nullopt ELSE j.v[keys[i]]
get_string_any(j, keys) ==
    AsString(ValueAt(j, keys, SelectInSeq(keys, LAMBDA k : HasKey(j, k) /\ AsString(j.v[k]) # Nullopt)))
get_number_any(j, keys) ==
    AsNumber(ValueAt(j, keys, SelectInSeq(keys, LAMBDA k : HasKey(j, k) /\ AsNumber(j.v[k]) # Nullopt)))
get_time_any(j, keys) ==
    AsTime(ValueAt(j, keys, SelectInSeq(keys, LAMBDA k : HasKey(j, k) /\ AsTime(j.v[k]) # Nullopt)))

(* Mutant: the threshold value itself read as seconds. *)
to_timepoint_gt(ts) == IF AbsVal(ts) > MsThreshold THEN ts ELSE 1000 * ts

(* to_timepoint: milliseconds when |ts| >= 10^12, else seconds. *)
to_timepoint(ts) == IF AbsVal(ts) >= MsThreshold THEN ts ELSE 1000 * ts

(* The first element of a non-empty array; then a "data" member that is *)
(* an object, or the first element of a non-empty "data" array.          *)
DescendData(j, d) ==
    CASE d.t = "obj"                 -> d
      [] d.t = "arr" /\ Len(d.v) > 0 -> d.v[1]
      [] OTHER                       -> j
Descend(j) == IF HasKey(j, "data") THEN DescendData(j, j.v["data"]) ELSE j
Unwrap(text) == Descend(IF text.t = "arr" /\ Len(text.v) > 0 THEN text.v[1] ELSE text)

(* The prefix strip: only a non-empty prefix at position 0 is removed. *)
StripPrefix(token, strip_prefix_) ==
    IF strip_prefix_ # <<>> /\ IsPrefix(strip_prefix_, token)
    THEN SubSeq(token, Len(strip_prefix_) + 1, Len(token))
    ELSE token

(* The LTP: nullopt without a token or a price, the zero instant       *)
(* without a timestamp.                                                   *)
MakeLTP(token, price, ts, strip_prefix_) ==
    IF token = Nullopt \/ price = Nullopt THEN Nullopt
    ELSE [token |-> StripPrefix(token, strip_prefix_),
          ltp   |-> price,
          ts    |-> IF ts = Nullopt THEN 0 ELSE to_timepoint(ts)]
Extract(j, strip_prefix_) ==
    MakeLTP(get_string_any(j, TOKEN_KEYS), get_number_any(j, PRICE_KEYS),
            get_time_any(j, TS_KEYS), strip_prefix_)
parse_ltp(text, strip_prefix_) ==
    IF text = NotJson THEN Nullopt ELSE Extract(Unwrap(text), strip_prefix_)

-----------------------------------------------------------------------------
(* Reference: the contract of spec.md 4.3, read literally.                 *)

(* "If the root is an array: take the first element.  If the element has *)
(* a data field that is an object, descend into it; if data is a         *)
(* non-empty array, descend into its first element."                     *)
SpecDescend(e, d) ==
    IF d.t = "obj" THEN d ELSE IF d.t = "arr" /\ Len(d.v) > 0 THEN d.v[1] ELSE e
SpecDescendFrom(e) == IF HasKey(e, "data") THEN SpecDescend(e, e.v["data"]) ELSE e
SpecElement(text) ==
    SpecDescendFrom(IF text.t = "arr" /\ Len(text.v) > 0 THEN text.v[1] ELSE text)

(* "first present of [keys]": the value under the least-indexed key the  *)
(* element has, whatever its type.                                       *)
FirstPresent(e, keys) ==
    IF \E k \in Range(keys) : HasKey(e, k)
    THEN e.v[keys[Min({i \in 1..Len(keys) : HasKey(e, keys[i])})]]
    ELSE Nullopt

AllDigits(s) == s # <<>> /\ \A i \in 1..Len(s) : IsDigit(s[i])

(* A numeric-looking string: an optional "-", digits, and optionally "." *)
(* and one digit -- and nothing else; its value in tenths.               *)
NumeralBody(neg, whole, frac) ==
    IF AllDigits(whole) /\ (frac = <<>> \/ (Len(frac) = 1 /\ AllDigits(frac)))
    THEN SignOf(neg) * (10 * DecVal(whole) + (IF frac = <<>> THEN 0 ELSE DigitVal(frac[1])))
    ELSE Nullopt
NumeralSplit(neg, body) ==
    IF "." \in Range(body)
    THEN LET d == SelectInSeq(body, LAMBDA c : c = ".")
         IN  IF d = Len(body) THEN Nullopt
             ELSE NumeralBody(neg, SubSeq(body, 1, d - 1), SubSeq(body, d + 1, Len(body)))
    ELSE NumeralBody(neg, body, <<>>)
Numeral(s) ==
    IF s # <<>> /\ s[1] = "-" THEN NumeralSplit(TRUE, Tail(s)) ELSE NumeralSplit(FALSE, s)

(* Token: a string, or a number rendered canonically. *)
SpecToken(v) ==
    CASE v = Nullopt       -> Nullopt
      [] v.t = "str"       -> v.v
      [] IsNumber(v)       -> Dump(v)
      [] OTHER             -> Nullopt
(* Price: a float, an integer, or a numeric-looking string. *)
SpecPrice(v) ==
    CASE v = Nullopt       -> Nullopt
      [] v.t = "float"     -> v.v
      [] v.t = "int"       -> 10 * v.v
      [] v.t = "str"       -> Numeral(v.v)
      [] OTHER             -> Nullopt
(* Timestamp: an integer, a float, or a digit string, as a number of     *)
(* seconds or milliseconds; |v| >= 10^12 means milliseconds.            *)
(* A fractional number of seconds keeps its fraction (1.5 s is 1500 ms). *)
SpecInstant(n) ==
    CASE n = Nullopt                   -> 0
      [] AbsVal(n) >= 10 * MsThreshold -> n \div 10
      [] OTHER                         -> 100 * n
SpecTs(v) ==
    SpecInstant(CASE v = Nullopt                   -> Nullopt
                  [] v.t = "int"                   -> 10 * v.v
                  [] v.t = "float"                 -> v.v
                  [] v.t = "str" /\ AllDigits(v.v) -> 10 * DecVal(v.v)
                  [] OTHER                         -> Nullopt)

SpecLTP(tok, px, e, prefix) ==
    IF tok = Nullopt \/ px = Nullopt THEN Nullopt
    ELSE [token |-> IF prefix # <<>> /\ IsPrefix(prefix, tok)
                    THEN SubSeq(tok, Len(prefix) + 1, Len(tok)) ELSE tok,
          ltp   |-> px,
          ts    |-> SpecTs(FirstPresent(e, TS_KEYS))]
SpecFields(e, prefix) ==
    SpecLTP(SpecToken(FirstPresent(e, TOKEN_KEYS)), SpecPrice(FirstPresent(e, PRICE_KEYS)), e, prefix)
SpecParse(text, prefix) ==
    IF text = NotJson THEN Nullopt ELSE SpecFields(SpecElement(text), prefix)

=============================================================================
