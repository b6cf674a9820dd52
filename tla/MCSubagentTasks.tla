-------------------------- MODULE MCSubagentTasks --------------------------
(* Small instances of SubagentTasks. *)
EXTENDS SubagentTasks

CONSTANTS t1, t2, t3, w1, w2, book, summary, quote, picture

MCDocumentOf ==
    [k \in Keys |-> IF k = picture THEN NoDocument ELSE book]
=============================================================================
