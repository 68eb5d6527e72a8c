-------------------------------- MODULE Totp --------------------------------
(***************************************************************************)
(* The algorithms of src/src/totp.cpp as operators.  A string is the      *)
(* sequence of its character codes (ASCII); a byte string the sequence of *)
(* its byte values.  HMAC itself is the opaque constant operator Hmac:    *)
(* what is checked is everything the code does around it -- the Base32    *)
(* decoding of the secret in a 32-bit int, the big-endian counter, the    *)
(* dynamic truncation, the uint32 modulus and the zero padding, and the   *)
(* window of verify.                                                       *)
(***************************************************************************)
EXTENDS Integers, Sequences, SequencesExt

CONSTANTS Hmac(_, _, _),  \* Hmac(algo, key, msg): the MAC bytes
          Throws      \* what base32_decode yields when it throws

Algos == {"SHA1", "SHA256", "SHA512"}

(* EVP_MD_size(md_for_algo(algo)) *)
MdSize == [a \in Algos |-> CASE a = "SHA1" -> 20 [] a = "SHA256" -> 32 [] OTHER -> 64]

(* b32_val: the RFC 4648 alphabet A-Z, 2-7; -1 for anything else. *)
b32_val(c) ==
    IF c >= 65 /\ c <= 90 THEN c - 65
    ELSE IF c >= 50 /\ c <= 55 THEN 26 + (c - 50)
    ELSE -1

IsSpace(c) == c \in {9, 10, 11, 12, 13, 32}
ToUpper(c) == IF c >= 97 /\ c <= 122 THEN c - 32 ELSE c

(* The first loop of base32_decode_impl: drop '=' and white space, and    *)
(* upper-case the rest.                                                    *)
Normalize(s) ==
    LET kept == SelectSeq(s, LAMBDA c : c # 61 /\ ~IsSpace(c))
    IN  [i \in DOMAIN kept |-> ToUpper(kept[i])]

(* (buffer << 5) | v on a 32-bit int.  The shift overflows once more than *)
(* 26 significant bits are held: undefined before C++20, where compilers *)
(* emit a plain shl, and defined as this two's-complement wrap by C++20; *)
(* bit 26 of buffer becomes the sign.  Only the low 15 bits ever reach an *)
(* output byte, which is what SecretDecodesRFC4648 checks.                *)
Shl5Or(buffer, v) ==
    LET low == buffer % 2^27
    IN  IF low >= 2^26 THEN (low - 2^27) * 32 + v ELSE low * 32 + v

(* Mutant: the output byte is taken without the & 0xFF mask. *)
DecodeStepNoMask(st, c) ==
    LET v == b32_val(c)
        b == Shl5Or(st.buffer, v)
        k == st.bits_left + 5
    IN  IF st.threw THEN st
        ELSE IF v < 0 THEN [st EXCEPT !.threw = TRUE]
        ELSE IF k >= 8
             THEN [st EXCEPT !.buffer = b, !.bits_left = k - 8,
                             !.out = Append(@, b \div 2^(k - 8))]
             ELSE [st EXCEPT !.buffer = b, !.bits_left = k]

(* One turn of the decoding loop.  >> on a negative int is arithmetic    *)
(* (floor division); & 0xFF keeps the low byte.                           *)
DecodeStep(st, c) ==
    LET v == b32_val(c)
        b == Shl5Or(st.buffer, v)
        k == st.bits_left + 5
    IN  IF st.threw THEN st
        ELSE IF v < 0 THEN [st EXCEPT !.threw = TRUE]
        ELSE IF k >= 8
             THEN [st EXCEPT !.buffer = b, !.bits_left = k - 8,
                             !.out = Append(@, (b \div 2^(k - 8)) % 256)]
             ELSE [st EXCEPT !.buffer = b, !.bits_left = k]

(* base32_decode_impl: the decoded bytes, or Throws for an invalid        *)
(* character (leftover bits are dropped).                                  *)
base32_decode(s) ==
    LET r == FoldLeft(DecodeStep, [buffer |-> 0, bits_left |-> 0, out |-> <<>>,
                                   threw |-> FALSE], Normalize(s))
    IN  IF r.threw THEN Throws ELSE r.out

(* left_pad_int's `mod *= 10` loop in uint32, kept as two 16-bit limbs   *)
(* <<hi, lo>> so that no intermediate leaves TLC's integers.              *)
RECURSIVE Pow10U32(_)
Pow10U32(d) ==
    IF d = 0 THEN <<0, 1>>
    ELSE LET p == Pow10U32(d - 1)
             lo == 10 * p[2]
         IN  <<(10 * p[1] + lo \div 65536) % 65536, lo % 65536>>

(* The zero-padded decimal digits of n, at least w of them (setw and    *)
(* setfill('0') on an ostringstream).                                    *)
RECURSIVE DecimalPadded(_, _)
DecimalPadded(n, w) ==
    IF n = 0 /\ w <= 0 THEN <<>>
    ELSE Append(DecimalPadded(n \div 10, w - 1), n % 10)

(* Mutant: the code printed without setw/setfill, losing leading zeros. *)
left_pad_intUnpadded(val, digits) ==
    LET m == Pow10U32(digits)
    IN  DecimalPadded(val % (m[1] * 65536 + m[2]), 0)

(* left_pad_int: val % mod in uint32, printed in `digits` places.  The   *)
(* value of mod is below 2^31 for every digits the constructor admits.   *)
left_pad_int(val, digits) ==
    LET m == Pow10U32(digits)
    IN  DecimalPadded(val % (m[1] * 65536 + m[2]), digits)

(* time_counter: whole periods since the epoch, 0 before it. *)
time_counter(secs, period) == IF secs >= 0 THEN secs \div period ELSE 0

(* The counter as 8 big-endian bytes (hotp's first loop). *)
RECURSIVE BigEndian(_, _)
BigEndian(c, n) == IF n = 0 THEN <<>> ELSE Append(BigEndian(c \div 256, n - 1), c % 256)

(* RFC 4226 dynamic truncation: the low nibble of the last MAC byte picks *)
(* four bytes, read big-endian with the top bit cleared.                 *)
DynamicTruncate(mac) ==
    LET off == mac[Len(mac)] % 16
    IN  (mac[off + 1] % 128) * 2^24 + mac[off + 2] * 2^16
          + mac[off + 3] * 2^8 + mac[off + 4]

hotp(key, counter, digits, algo) ==
    left_pad_int(DynamicTruncate(Hmac(algo, key, BigEndian(counter, 8))), digits)

(* A TOTP object k is the record of its secret_, digits_, period_, algo_. *)
code_at(k, t) == hotp(k.secret, time_counter(t, k.period), k.digits, k.algo)

(* Mutant: the loop stops one step short of window_steps. *)
RECURSIVE VerifyFromShort(_, _, _, _, _)
VerifyFromShort(k, code, ctr, w, window) ==
    /\ w < window
    /\ \/ hotp(k.secret, ctr + w, k.digits, k.algo) = code
       \/ ctr >= w /\ hotp(k.secret, ctr - w, k.digits, k.algo) = code
       \/ VerifyFromShort(k, code, ctr, w + 1, window)

(* verify's loop from step w on: ctr + w, then ctr - w if ctr >= w. *)
RECURSIVE VerifyFrom(_, _, _, _, _)
VerifyFrom(k, code, ctr, w, window) ==
    /\ w <= window
    /\ \/ hotp(k.secret, ctr + w, k.digits, k.algo) = code
       \/ ctr >= w /\ hotp(k.secret, ctr - w, k.digits, k.algo) = code
       \/ VerifyFrom(k, code, ctr, w + 1, window)

verify(k, code, t, window) ==
    code_at(k, t) = code
    \/ VerifyFrom(k, code, time_counter(t, k.period), 1, window)

-----------------------------------------------------------------------------
(* Reference definitions.                                                  *)

(* RFC 4648 on an already normalized string: each character's position *)
(* in the alphabet as 5 bits, concatenated and cut into whole bytes; a   *)
(* character outside the alphabet is rejected.                            *)
Alphabet == [i \in 1..32 |-> IF i <= 26 THEN 64 + i ELSE 23 + i]   \* A-Z, 2-7
Rfc4648Decode(n) ==
    IF \E i \in DOMAIN n : n[i] \notin Range(Alphabet) THEN Throws
    ELSE LET pos(c) == (CHOOSE i \in 1..32 : Alphabet[i] = c) - 1
             bits == FlattenSeq([i \in DOMAIN n |->
                         [j \in 1..5 |-> (pos(n[i]) \div 2^(5 - j)) % 2]])
         IN  [b \in 1..(Len(bits) \div 8) |->
                FoldLeft(LAMBDA a, x : 2 * a + x, 0, SubSeq(bits, 8 * b - 7, 8 * b))]

(* RFC 4226 HOTP value: the truncated MAC modulo 10^digits, zero-padded; *)
(* a truncated MAC is below 2^31 < 10^10, so 10 digits keep it whole.    *)
RfcHotp(key, counter, digits, algo) ==
    LET bin == DynamicTruncate(Hmac(algo, key, BigEndian(counter, 8)))
    IN  DecimalPadded(IF digits >= 10 THEN bin ELSE bin % 10^digits, digits)

(* The counters verify is meant to accept: ctr - window .. ctr + window, *)
(* none below zero.                                                       *)
VerifyWindow(k, t, window) ==
    LET ctr == time_counter(t, k.period)
    IN  {c \in ctr - window .. ctr + window : c >= 0}
=============================================================================
