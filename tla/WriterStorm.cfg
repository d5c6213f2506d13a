SPECIFICATION Spec
CONSTANTS
    Pages = {seq, p2}
    SeqPage = seq
    AutoCheckpoint = FALSE
    MinCheckpointPageN = 2
    TruncatePageN = 0
    Races = {"mark0"}
    MaxHistory = 3
    Budgets <- BudgetsStorm
INVARIANT BucketContiguous
PROPERTY BucketAppendOnly
\* The host may stop pushing; a run ends when its events are spent.
CHECK_DEADLOCK FALSE
