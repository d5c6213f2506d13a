SPECIFICATION Spec
CONSTANTS
    Pages = {seq, p2}
    SeqPage = seq
    AutoCheckpoint = TRUE
    MinCheckpointPageN = 2
    TruncatePageN = 0
    Races = {"precopy"}
    MaxHistory = 6
    Budgets <- BudgetsPrecopyRace
PROPERTY CheckpointCaptures
CHECK_DEADLOCK FALSE
