----------------------------- MODULE MCSharing -----------------------------
(* Instances of Sharing for TLC. *)
EXTENDS Sharing

\* Transactions write one page, both, or the other one.
Writes == [t \in 1..TxidBound |->
              CASE t % 3 = 0 -> {"b"} [] t % 3 = 1 -> {"a", "b"} [] t % 3 = 2 -> {"a"}]

\* auto_reset is a, and nothing fails but what f allows.
Case(a, f) == [auto_reset |-> a,
               faults |-> [k \in FaultKinds |-> IF k \in DOMAIN f THEN f[k] ELSE 0]]

\* A kill leaves what a failed sync leaves, at every step.
RaceCases == {Case(FALSE, [crash |-> 1]), Case(TRUE, [busy |-> 1, reset |-> 1]),
              Case(TRUE, [badimage |-> 1])}
LiveCases == {Case(TRUE, [fail |-> 1]), Case(FALSE, [fail |-> 0])}
NoFaults  == {Case(TRUE, [fail |-> 0])}
OneFail   == {Case(TRUE, [fail |-> 1])}
OneBusy   == {Case(TRUE, [busy |-> 1])}
OneCrash  == {Case(TRUE, [crash |-> 1])}
OneBad    == {Case(TRUE, [badimage |-> 1])}

\* A device that is never asked to maintain its bucket.
OnlyPushes == \A f \in bucket : f.lvl = 0
=============================================================================
