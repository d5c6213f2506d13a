---------------------------- MODULE MCHttpStream ----------------------------
(* Instances of HttpStream for TLC. *)
EXTENDS HttpStream

Aged(l, from, to) == [lvl |-> l, min |-> from, max |-> to, gen |-> 1]

\* A new bucket, and one that retention is at work in: transactions 1 and 2
\* were merged one by one, the snapshot of both was just deleted for that of
\* all three.
SomeBuckets ==
    {[files |-> {}, head |-> 0, lost |-> 0],
     [files |-> {Aged(0, 2, 2), Aged(0, 3, 3), Aged(1, 1, 1), Aged(1, 2, 2), Aged(SNAPSHOT_LEVEL, 1, 3)},
      head |-> 3, lost |-> 2]}
=============================================================================
