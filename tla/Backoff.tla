------------------------------- MODULE Backoff -------------------------------
(***************************************************************************)
(* The delays of the program as functions: how long a failed message, send *)
(* or reminder waits before it is tried again, and when a recurring query  *)
(* triggers next.  Durations are integers in a unit of the caller's        *)
(* choice; the source computes in nanoseconds.                             *)
(***************************************************************************)
EXTENDS Integers

Smaller(a, b) == IF a < b THEN a ELSE b
AtLeastOne(n) == IF n < 1 THEN 1 ELSE n

\* The loop that all delays share: double while below the maximum.
Doubled(base, max, n) ==
    LET delay[i \in 1 .. n] ==
          IF i = 1 THEN base
          ELSE IF delay[i - 1] < max THEN 2 * delay[i - 1] ELSE delay[i - 1]
    IN delay[n]

\* inboundRetryDelay: 5s, 10s, ... up to 5min
InboundRetryDelay(base, max, attempts) ==
    Smaller(Doubled(base, max, AtLeastOne(attempts)), max)

\* outboundBackoffDelay and durableReminderRetryDelay; a hash of the payload
\* and of the failures gives permille, which is between 1000 and 1200.
JitteredDelay(base, max, failures, permille) ==
    LET delay == Smaller(Doubled(base, max, AtLeastOne(failures)), max)
    IN Smaller((delay * permille) \div 1000, max)

\* nextScheduledTrigger; 0 stands for the zero time
NextScheduledTrigger(previous, interval, now) ==
    IF interval <= 0 THEN now
    ELSE IF previous = 0 THEN now + interval
    ELSE LET next == previous + interval IN
         IF next > now THEN next
         ELSE next + ((now - next) \div interval + 1) * interval
=============================================================================
