------------------------------ MODULE Batching ------------------------------
(***************************************************************************)
(* SubscriptionManager::make_batches (src/src/subscription_manager.cpp    *)
(* 141-155) and the coercion of a zero batch size (lines 17, 47, 146):    *)
(* the pure slicing the reconciler applies to a diff.                      *)
(***************************************************************************)
EXTENDS Integers, Sequences

(* A batch size of 0 means 100. *)
Coerce(n) == IF n = 0 THEN 100 ELSE n

(* Mutant: the loop stops before a trailing partial batch. *)
RECURSIVE make_batchesFullOnly(_, _)
make_batchesFullOnly(items, n) ==
    IF Len(items) < n THEN <<>>
    ELSE <<SubSeq(items, 1, n)>> \o make_batchesFullOnly(SubSeq(items, n + 1, Len(items)), n)

(* Contiguous slices items[i, min(size, i + n)) for i = 0, n, 2n, ... *)
RECURSIVE make_batches(_, _)
make_batches(items, n) ==
    IF items = <<>> THEN <<>>
    ELSE LET last == IF Len(items) < n THEN Len(items) ELSE n
         IN  <<SubSeq(items, 1, last)>>
               \o make_batches(SubSeq(items, last + 1, Len(items)), n)
=============================================================================
