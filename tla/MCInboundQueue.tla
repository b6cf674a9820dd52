--------------------------- MODULE MCInboundQueue ---------------------------
(* Small instances of InboundQueue. *)
EXTENDS InboundQueue, TLC

Delays == INSTANCE Backoff

CONSTANTS m1, m2, m3    \* messages
CONSTANTS group, friend \* conversations
CONSTANTS w1, w2        \* workers

MCGroup == [m \in Messages |-> group]
MCPrivate == [m \in Messages |-> friend]
MCLimit == [s \in Sessions |-> IF s = group THEN 2 ELSE 1]
MCLimitOne == [s \in Sessions |-> 1]
\* inboundRetryDelay with a first delay of one tick
MCRetryDelay ==
    [n \in 0 .. MaxAttempts |-> Delays!InboundRetryDelay(1, MaxDelay, n)]
MCEventTime == [m \in Messages |-> IF m = m1 THEN 1 ELSE 2]

\* The workers of a run are alike.
WorkerSymmetry == Permutations(Workers)
=============================================================================
