SPECIFICATION Spec
CONSTANTS
    Pages = {seq, p2, p3}
    SeqPage = seq
    AutoCheckpoint = TRUE
    MinCheckpointPageN = 2
    TruncatePageN = 3
    Races = {}
    MaxHistory = 4
    Budgets <- BudgetsCheckpoint
INVARIANTS
    TypeOK
    RestoreOrdered
    AckedDurable
PROPERTIES
    CheckpointCaptures
SYMMETRY Symmetry
\* The host may stop pushing; a run ends when its events are spent.
CHECK_DEADLOCK FALSE
