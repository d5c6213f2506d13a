---------------------------- MODULE MCHttpFence ----------------------------
(* Instances of HttpFence for TLC. *)
EXTENDS HttpFence

Write(level, min, max, w, id, takeover) ==
    [op |-> "put", lvl |-> level, min |-> min, max |-> max, body |-> w, id |-> id,
     takeover |-> takeover]

\* Two writers that push the same positions, one of them a file of two
\* transactions and a snapshot, a push without an id, a takeover, a deletion
\* and a wipe.
SomeRequests ==
    {Write(0, 1, 1, w, w, FALSE) : w \in Ids}
    \cup {Write(0, 2, 2, w, w, FALSE) : w \in Ids}
    \cup {Write(0, 1, 2, "b", NoId, FALSE), Write(0, 1, 1, "b", "b", TRUE),
          Write(SNAPSHOT_LEVEL, 1, 2, "a", "a", FALSE)}
    \cup {[Write(0, 1, 1, "a", "a", FALSE) EXCEPT !.op = "delete"],
          [Write(0, 1, 1, "b", "b", FALSE) EXCEPT !.op = "wipe"]}
=============================================================================
