SPECIFICATION Spec
CONSTANTS
    Pages = {seq, p2}
    SeqPage = seq
    AutoCheckpoint = FALSE
    MinCheckpointPageN = 2
    TruncatePageN = 0
    Races = {"mark0"}
    MaxHistory = 6
    Budgets <- BudgetsReadMark
INVARIANT RestoreOrdered
CHECK_DEADLOCK FALSE
