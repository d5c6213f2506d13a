SPECIFICATION Spec
CONSTANTS
    Pages = {seq, p2}
    SeqPage = seq
    AutoCheckpoint = FALSE
    MinCheckpointPageN = 2
    TruncatePageN = 0
    Races = {}
    MaxHistory = 6
    Budgets <- BudgetsBackup
INVARIANT NoMixture
CHECK_DEADLOCK FALSE
