SPECIFICATION Spec
CONSTANTS
    Pages = {seq, p2, p3}
    SeqPage = seq
    AutoCheckpoint = FALSE
    MinCheckpointPageN = 2
    TruncatePageN = 0
    Races = {}
    MaxHistory = 6
    Budgets <- BudgetsClosedCheckpoint
INVARIANT AckedDurable
SYMMETRY Symmetry
CHECK_DEADLOCK FALSE
