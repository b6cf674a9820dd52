---------------------------- MODULE MCReminders ----------------------------
EXTENDS Reminders, DelayReference, TLC

CONSTANTS i1, i2, q1, j1, j2

\* durableReminderRetryDelay with a first delay of one tick and no jitter
MCRetry ==
    [n \in 1 .. MaxFailures |-> Delays!JitteredDelay(1, MaxWait, n, 1000)]

\* Goroutines are alike, and so are items of a kind.
ReminderSymmetry ==
    Permutations(Jobs) \cup Permutations(Items \ Query) \cup Permutations(Query)
=============================================================================
