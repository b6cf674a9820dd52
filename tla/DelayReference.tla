--------------------------- MODULE DelayReference ---------------------------
(***************************************************************************)
(* The delays of Backoff against reference definitions, over all small     *)
(* inputs.  They are assumptions of the instances that use the delays, so  *)
(* that TLC evaluates them before it explores one.                         *)
(***************************************************************************)
EXTENDS Backoff, FiniteSetsExt

LOCAL Bases == {1, 5, 7, 30}
LOCAL MaxDelay == 40
LOCAL Jitters == {1000, 1001, 1100, 1200}
LOCAL Counts == 0 .. 8
LOCAL Times == 0 .. 12

LOCAL Exact(base, n) == Smaller(base * 2 ^ (AtLeastOne(n) - 1), MaxDelay)

\* The loop computes min(base * 2^(n-1), max), also where base does not divide
\* max and where the number of failures is 0; jitter adds at most a fifth and
\* never exceeds the maximum.
DoublesToMax ==
    \A base \in Bases, n \in Counts :
       /\ InboundRetryDelay(base, MaxDelay, n) = Exact(base, n)
       /\ \A p \in Jitters :
             JitteredDelay(base, MaxDelay, n, p) \in
                Exact(base, n) .. Smaller((Exact(base, n) * 6) \div 5, MaxDelay)

\* A payload never waits less after one failure more, although the jitter is
\* drawn again.
NeverShrinks ==
    \A base \in Bases, n \in Counts \ {0}, p, q \in Jitters :
       JitteredDelay(base, MaxDelay, n + 1, q) >= JitteredDelay(base, MaxDelay, n, p)

\* The next trigger is the first slot of the query's grid that lies after now:
\* missed slots are skipped, none is run twice and none is left out.
FirstSlotAhead ==
    \A interval \in 1 .. 4, previous \in Times \ {0}, now \in Times :
       previous <= now =>
          NextScheduledTrigger(previous, interval, now) =
             Min({t \in now + 1 .. now + interval :
                     \E k \in 1 .. 13 : t = previous + k * interval})

ASSUME DelaysAreRight == DoublesToMax /\ NeverShrinks /\ FirstSlotAhead
=============================================================================
