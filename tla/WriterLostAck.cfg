SPECIFICATION Spec
CONSTANTS
    Pages = {seq, p2}
    SeqPage = seq
    AutoCheckpoint = TRUE
    MinCheckpointPageN = 2
    TruncatePageN = 0
    Races = {}
    MaxHistory = 6
    Budgets <- BudgetsLostAck
INVARIANT RestoreOrdered
CHECK_DEADLOCK FALSE
