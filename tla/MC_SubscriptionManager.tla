------------------------ MODULE MC_SubscriptionManager ------------------------
(* Three tokens and batch sizes 0 (coerced to 100), 1 and 2: diffs of up  *)
(* to three tokens split into one, two and three batches.                 *)
EXTENDS SubscriptionManager

CONSTANTS t1, t2, t3
MCTokens == {t1, t2, t3}
MCBatchSizes == {0, 1, 2}
=============================================================================
