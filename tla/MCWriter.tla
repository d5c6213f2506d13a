------------------------------ MODULE MCWriter ------------------------------
(* Instances of Writer for TLC. *)
EXTENDS Writer, TLC

\* The application's pages are interchangeable.
Symmetry == Permutations(Pages \ {SeqPage})

\* Nothing happens but what b allows.
With(b) == [k \in Kinds |-> IF k \in DOMAIN b THEN b[k] ELSE 0]

\* The cases of each run.  Crashes and a lost bucket are kept apart from the
\* application's own checkpoints, other writers from meta directories without
\* verified-pos: together they repeat the disagreements that README.md lists.
BudgetsCheckpoint ==
    {With([commit |-> 2, crash |-> 1, wipe |-> 1, relock |-> 1]),
     With([commit |-> 1, spill |-> 1, crash |-> 1]),
     With([commit |-> 1, spill |-> 1, appckpt |-> 1, busy |-> 1, cancel |-> 1])}
BudgetsLineage ==
    {With([commit |-> 2, close |-> 1, foreign |-> 1, lostack |-> 1, error |-> 1, reset |-> 1]),
     With([commit |-> 2, close |-> 2, lostack |-> 1, vplost |-> 1, legacy |-> 1]),
     With([commit |-> 1, spill |-> 1, close |-> 1, crash |-> 1, lostack |-> 1, cancel |-> 1])}
BudgetsStorm ==
    {With([commit |-> 1, close |-> 2, backup |-> 1, unlockedckpt |-> 1, legacy |-> 1, wipe |-> 1,
           foreign |-> 1]),
     With([commit |-> 1, crash |-> 1, cancel |-> 1, error |-> 1, lostack |-> 1, reset |-> 1,
           clearfail |-> 1, foreign |-> 1])}

BudgetsPrecopyRace == {With([commit |-> 2])}
BudgetsClosedCheckpoint == {With([commit |-> 3, close |-> 1, unlockedckpt |-> 1])}
BudgetsLostAck == {With([commit |-> 2, lostack |-> 1])}
BudgetsReadMark == {With([commit |-> 2, close |-> 1, unlockedckpt |-> 1])}
BudgetsBackup == {With([commit |-> 3, close |-> 2, backup |-> 1])}
BudgetsReseed == {With([commit |-> 2, close |-> 1, wipe |-> 1, foreign |-> 1])}
=============================================================================
