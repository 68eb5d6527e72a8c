\* Builders partition the desired/active diff into batches.
CONSTANTS
    t1 = t1
    t2 = t2
    t3 = t3
    Tokens <- MCTokens
    BatchSizes <- MCBatchSizes
SPECIFICATION Spec
INVARIANTS
    TypeOK
    BatchesPartitionDiff
