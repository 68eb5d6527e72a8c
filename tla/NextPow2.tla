----------------------------- MODULE NextPow2 -----------------------------
(***************************************************************************)
(* IngestQueue::next_pow2 (src/src/ingest_queue.cpp 5-13): the rounding   *)
(* of a requested capacity up to a power of two, at least 8, by smearing  *)
(* the top bit of n - 1 downwards.  size_t is kept as a W-bit word, so    *)
(* the final n + 1 wraps to 0 when no W-bit power of two is large enough. *)
(* The check is constant-level: the operator against its reference       *)
(* definition for every W-bit argument.                                   *)
(***************************************************************************)
EXTENDS Integers, Bitwise

CONSTANTS W   \* bits in size_t

ASSUME W \in 4..16

Modulus == 2^W

(* is_power_of_two: x && ((x & (x - 1)) == 0). *)
is_power_of_two(x) == x # 0 /\ (x & (x - 1)) = 0

(* for (i = 1; i < bits; i <<= 1) n |= (n >> i); *)
RECURSIVE Smear(_, _)
Smear(x, i) == IF i >= W THEN x ELSE Smear(x | shiftR(x, i), 2 * i)

(* Mutant: the power-of-two early return and the decrement dropped, so an *)
(* exact power of two is doubled.                                          *)
next_pow2NoPowerCheck(n) ==
    IF n < 8 THEN 8 ELSE (Smear(n, 1) + 1) % Modulus

next_pow2(n) ==
    IF n < 8 THEN 8
    ELSE IF is_power_of_two(n) THEN n
    ELSE (Smear(n - 1, 1) + 1) % Modulus

(* Reference: the least power of two that is at least n and at least 8,   *)
(* or 0 when it does not fit in W bits (the wrap of n + 1).               *)
NextPow2Ref(n) ==
    LET fits == {2^k : k \in 3..W-1} \cap {p \in Nat : p >= n}
    IN  IF fits = {} THEN 0
        ELSE CHOOSE p \in fits : \A p2 \in fits : p <= p2

=============================================================================
