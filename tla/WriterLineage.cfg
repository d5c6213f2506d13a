SPECIFICATION FairSpec
CONSTANTS
    Pages = {seq, p2}
    SeqPage = seq
    AutoCheckpoint = FALSE
    MinCheckpointPageN = 2
    TruncatePageN = 0
    Races = {}
    MaxHistory = 9
    Budgets <- BudgetsLineage
INVARIANTS
    RestoreOrdered
    AckedDurable
    NoMixture
PROPERTY EventuallyReplicated
CHECK_DEADLOCK FALSE
