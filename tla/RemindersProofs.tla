--------------------------- MODULE RemindersProofs ---------------------------
(***************************************************************************)
(* Proofs about Reminders and the delays of Backoff: how long what failed  *)
(* waits, for any number of failures; the next trigger of a recurring      *)
(* query, for all times and intervals; and that the list stays sound under *)
(* polls, users, stops and restarts, for any number of items, goroutines   *)
(* and failures.  The inductive invariant is RemindersInv.  And that the   *)
(* file plugin finds a file in reach of the pages it looks through, for    *)
(* any log, page size and number of pages; the invariant is LookupInv.     *)
(***************************************************************************)
EXTENDS Reminders, Backoff, FileLookup, SequenceTheorems, FiniteSetTheorems,
        WellFoundedInduction, TLAPS

-----------------------------------------------------------------------------
(* Reminders: the invariant. *)

Stages == {"idle", "generate", "store", "send", "delivered", "failed", "release"}
Goroutines == [pc : Stages, item : Items \cup {NoItem}, copy : Entries, run : Nat,
               elapsed : 0 .. MaxWait]

\* A goroutine at work has an item; the run that is to come is counted for.
JobsTyped ==
    /\ job \in [Jobs -> Goroutines]
    /\ \A j \in Jobs : IF job[j].pc = "idle" THEN job[j] = Idle
                       ELSE job[j].item \in Items
    /\ running \in BOOLEAN /\ (~running => run < MaxRuns)

\* A text is there before an item is kept, claimed or sent, and every new
\* version is an edit.
TextsCounted ==
    \A i \in Items :
       /\ list[i].text <= edits + 1
       /\ sends[i] > 0 \/ i \in active \/ list[i].kept => list[i].text > 0

\* Where a goroutine has not yet sent its item
Unsent == {"generate", "store", "send", "failed"}

\* A reminder that was sent is done, or deleted, or about to be marked as done;
\* a goroutine that may still send it finds it unsent.
SentIsDone ==
    Faults \cap {"crash", "ack_lost", "save"} = {} =>
       \A i \in Items \ Query :
          /\ sends[i] <= 1
          /\ sends[i] > 0 =>
                \/ list[i].ran \/ ~list[i].kept
                \/ \E j \in Jobs : job[j].item = i /\ job[j].pc = "delivered"
          /\ \A j \in Jobs : job[j].item = i /\ job[j].pc \in Unsent => sends[i] = 0

RemindersInv ==
    TypeOK /\ JobsTyped /\ OneJobPerItem /\ TextsCounted /\ SentIsDone /\ QuotaKept

-----------------------------------------------------------------------------
(* The delays. *)

\* A set of numbers has a least one: induction, for sets.
LEMMA LeastOf ==
    ASSUME NEW T, T \subseteq Nat, T # {}
    PROVE  \E x \in T : \A y \in T : ~(y < x)
<1>1. \E x \in T : \A y \in T : ~(<<y, x>> \in OpToRel(<, Nat))
  BY NatLessThanWellFounded, WFMin
<1> QED  BY <1>1 DEF OpToRel

\* A set of numbers has all of them if it has 1 and with each number the next.
LEMMA Counting ==
    ASSUME NEW T, 1 \in T, \A n \in T \cap Nat : n + 1 \in T
    PROVE  Nat \ {0} \subseteq T
<1> SUFFICES ASSUME (Nat \ {0}) \ T # {}  PROVE FALSE
  OBVIOUS
<1>1. PICK x \in (Nat \ {0}) \ T : \A y \in (Nat \ {0}) \ T : ~(y < x)
  BY LeastOf
<1>2. x - 1 \in Nat \ {0} /\ x - 1 < x /\ x - 1 + 1 = x  OBVIOUS
<1>3. x - 1 \in T  BY <1>1, <1>2
<1> QED  BY <1>1, <1>2, <1>3

\* d is the loop of n failures.
Longer(delay, max) == IF delay < max THEN 2 * delay ELSE delay
Loop(d, base, max, n) ==
    d = [i \in 1 .. n |-> IF i = 1 THEN base ELSE Longer(d[i - 1], max)]

LEMMA LoopsAgree ==
    ASSUME NEW base, NEW max, NEW m \in Nat, NEW n \in Nat, m <= n,
           NEW d, NEW e, Loop(d, base, max, m), Loop(e, base, max, n)
    PROVE  \A i \in 1 .. m : d[i] = e[i]
<1> DEFINE T == {i \in Nat : i \in 1 .. m => d[i] = e[i]}
<1>1. /\ \A i \in 1 .. m : d[i] = IF i = 1 THEN base ELSE Longer(d[i - 1], max)
      /\ \A i \in 1 .. m : e[i] = IF i = 1 THEN base ELSE Longer(e[i - 1], max)
  <2>1. 1 .. m \subseteq 1 .. n  OBVIOUS
  <2> QED  BY <2>1 DEF Loop
<1>2. 1 \in T  BY <1>1
<1>3. ASSUME NEW i \in T \cap Nat  PROVE i + 1 \in T
  <2> SUFFICES ASSUME i + 1 \in 1 .. m  PROVE d[i + 1] = e[i + 1]
    OBVIOUS
  <2>1. CASE i = 0  BY <2>1, <1>1
  <2>2. CASE i # 0
    <3>1. i \in 1 .. m /\ i + 1 # 1 /\ (i + 1) - 1 = i  BY <2>2
    <3>2. d[i] = e[i]  BY <3>1
    <3> QED  BY <3>1, <3>2, <1>1
  <2> QED  BY <2>1, <2>2
<1> HIDE DEF T
<1>4. Nat \ {0} \subseteq T  BY <1>2, <1>3, Counting
<1> QED  BY <1>4 DEF T

LEMMA LoopExtends ==
    ASSUME NEW base, NEW max, NEW n \in Nat \ {0}, NEW d, Loop(d, base, max, n)
    PROVE  \E e : Loop(e, base, max, n + 1)
<1> DEFINE e == [i \in 1 .. n + 1 |-> IF i = n + 1 THEN Longer(d[n], max) ELSE d[i]]
<1>1. ASSUME NEW i \in 1 .. n + 1
      PROVE  e[i] = IF i = 1 THEN base ELSE Longer(e[i - 1], max)
  <2>1. CASE i = n + 1
    <3>1. i # 1 /\ i - 1 = n /\ n \in 1 .. n + 1 /\ n # n + 1  BY <2>1
    <3> QED  BY <2>1, <3>1
  <2>2. CASE i # n + 1 /\ i = 1
    <3>1. 1 \in 1 .. n  OBVIOUS
    <3> QED  BY <2>2, <3>1 DEF Loop
  <2>3. CASE i # n + 1 /\ i # 1
    <3>1. i \in 1 .. n /\ i - 1 \in 1 .. n /\ i - 1 \in 1 .. n + 1 /\ i - 1 # n + 1  BY <2>3
    <3>2. d[i] = Longer(d[i - 1], max)  BY <2>3, <3>1 DEF Loop
    <3> QED  BY <2>3, <3>1, <3>2
  <2> QED  BY <2>1, <2>2, <2>3
<1>2. e = [i \in 1 .. n + 1 |-> IF i = 1 THEN base ELSE Longer(e[i - 1], max)]
  BY <1>1
<1> HIDE DEF e
<1> QED  BY <1>2 DEF Loop

LEMMA LoopExists ==
    ASSUME NEW base, NEW max, NEW n \in Nat \ {0}
    PROVE  \E d : Loop(d, base, max, n)
<1> DEFINE T == {i \in Nat \ {0} : \E d : Loop(d, base, max, i)}
<1>1. Loop([i \in 1 .. 1 |-> base], base, max, 1)  BY DEF Loop
<1>2. 1 \in T  BY <1>1
<1>3. \A i \in T \cap Nat : i + 1 \in T  BY LoopExtends
<1> HIDE DEF T
<1>4. n \in T  BY <1>2, <1>3, Counting
<1> QED  BY <1>4 DEF T

LEMMA DoubledIsLoop ==
    ASSUME NEW base, NEW max, NEW n \in Nat \ {0}
    PROVE  \E d : Loop(d, base, max, n) /\ Doubled(base, max, n) = d[n]
<1>1. Doubled(base, max, n) = (CHOOSE d : Loop(d, base, max, n))[n]
  BY DEF Doubled, Loop, Longer
<1> QED  BY <1>1, LoopExists

\* Doubled begins with the base and doubles below the maximum.
LEMMA DoubledGoesOn ==
    ASSUME NEW base, NEW max, NEW n \in Nat \ {0}
    PROVE  /\ Doubled(base, max, 1) = base
           /\ Doubled(base, max, n + 1) = Longer(Doubled(base, max, n), max)
<1>1. Doubled(base, max, 1) = base
  BY DoubledIsLoop DEF Loop
<1>2. PICK d : Loop(d, base, max, n) /\ Doubled(base, max, n) = d[n]
  BY DoubledIsLoop
<1>3. n + 1 \in Nat \ {0}  OBVIOUS
<1>4. PICK e : Loop(e, base, max, n + 1) /\ Doubled(base, max, n + 1) = e[n + 1]
  BY <1>3, DoubledIsLoop
<1>5. d[n] = e[n]
  BY <1>2, <1>4, LoopsAgree
<1>6. e[n + 1] = Longer(e[n], max)
  <2>1. n + 1 \in 1 .. n + 1 /\ n + 1 # 1 /\ (n + 1) - 1 = n  OBVIOUS
  <2> QED  BY <1>4, <2>1 DEF Loop
<1> QED  BY <1>1, <1>2, <1>4, <1>5, <1>6

LEMMA DoubledType ==
    ASSUME NEW base \in Nat \ {0}, NEW max \in Nat, NEW n \in Nat \ {0}
    PROVE  Doubled(base, max, n) \in Nat \ {0}
<1> DEFINE T == {i \in Nat \ {0} : Doubled(base, max, i) \in Nat \ {0}}
<1>1. 1 \in T  BY DoubledGoesOn
<1>2. ASSUME NEW i \in T \cap Nat  PROVE i + 1 \in T
  <2>1. Doubled(base, max, i + 1) = Longer(Doubled(base, max, i), max)  BY DoubledGoesOn
  <2>2. i + 1 \in Nat \ {0}  OBVIOUS
  <2> QED  BY <2>1, <2>2 DEF Longer
<1> HIDE DEF T
<1>3. n \in T  BY <1>1, <1>2, Counting
<1> QED  BY <1>3 DEF T

\* The delay of a message that failed begins with the base, doubles with each
\* failure and stays at the maximum: min(base * 2^(n-1), max).
THEOREM DelaysDouble ==
    ASSUME NEW base \in Nat \ {0}, NEW max \in Nat \ {0}, NEW n \in Nat
    PROVE  /\ InboundRetryDelay(base, max, n) \in 1 .. max
           /\ n <= 1 => InboundRetryDelay(base, max, n) = Smaller(base, max)
           /\ n > 0 => InboundRetryDelay(base, max, n + 1) =
                         Smaller(2 * InboundRetryDelay(base, max, n), max)
<1> DEFINE D(i) == Doubled(base, max, i)
<1>1. /\ AtLeastOne(n) \in Nat \ {0} /\ AtLeastOne(n + 1) = n + 1
      /\ n <= 1 => AtLeastOne(n) = 1
      /\ n > 0 => AtLeastOne(n) = n /\ n \in Nat \ {0}
  BY DEF AtLeastOne
<1>2. D(AtLeastOne(n)) \in Nat \ {0}  BY <1>1, DoubledType
<1>3. D(1) = base  BY DoubledGoesOn
<1>4. n > 0 => D(n + 1) = Longer(D(n), max)  BY DoubledGoesOn
<1>5. /\ InboundRetryDelay(base, max, n) = Smaller(D(AtLeastOne(n)), max)
      /\ InboundRetryDelay(base, max, n + 1) = Smaller(D(n + 1), max)
  BY <1>1 DEF InboundRetryDelay
<1> HIDE DEF D
<1>6. InboundRetryDelay(base, max, n) \in 1 .. max  BY <1>2, <1>5 DEF Smaller
<1>7. n <= 1 => InboundRetryDelay(base, max, n) = Smaller(base, max)  BY <1>1, <1>3, <1>5
<1>8. ASSUME n > 0
      PROVE  InboundRetryDelay(base, max, n + 1) =
                Smaller(2 * InboundRetryDelay(base, max, n), max)
  <2>1. D(n) \in Nat \ {0}  BY <1>1, <1>2, <1>8
  <2>2. Smaller(Longer(D(n), max), max) = Smaller(2 * Smaller(D(n), max), max)
    BY <2>1 DEF Smaller, Longer
  <2> QED  BY <1>1, <1>4, <1>5, <1>8, <2>2
<1> QED  BY <1>6, <1>7, <1>8

\* Jitter adds at most a fifth to a delay and never exceeds the maximum.
LEMMA JitterAdds ==
    ASSUME NEW base \in Nat \ {0}, NEW max \in Nat \ {0}, NEW n \in Nat,
           NEW permille \in Int, 1000 <= permille, permille <= 1200
    PROVE  /\ JitteredDelay(base, max, n, permille) \in Nat
           /\ InboundRetryDelay(base, max, n) <= JitteredDelay(base, max, n, permille)
           /\ JitteredDelay(base, max, n, permille)
                 <= Smaller((InboundRetryDelay(base, max, n) * 6) \div 5, max)
<1> DEFINE delay == InboundRetryDelay(base, max, n)
<1>1. delay \in 1 .. max  BY DelaysDouble
<1>2. JitteredDelay(base, max, n, permille) = Smaller((delay * permille) \div 1000, max)
  BY DEF JitteredDelay, InboundRetryDelay
<1> HIDE DEF delay
<1>3. delay * permille \in Int /\ delay * 1000 <= delay * permille /\ delay * permille <= delay * 1200
  <2>1. delay * permille \in Int  BY <1>1
  <2>2. delay * (permille - 1000) >= 0 /\ delay * (1200 - permille) >= 0  BY <1>1
  <2>3. /\ delay * (permille - 1000) = delay * permille - delay * 1000
        /\ delay * (1200 - permille) = delay * 1200 - delay * permille
    BY <1>1
  <2> QED  BY <1>1, <2>1, <2>2, <2>3
<1>4. ASSUME NEW x \in Int, delay * 1000 <= x, x <= delay * 1200
      PROVE  x \div 1000 \in delay .. (delay * 6) \div 5
  BY <1>1, <1>4
<1>5. (delay * permille) \div 1000 \in delay .. (delay * 6) \div 5  BY <1>3, <1>4
<1>6. Smaller((delay * permille) \div 1000, max) \in delay .. Smaller((delay * 6) \div 5, max)
  <2>1. (delay * 6) \div 5 \in Int  BY <1>1
  <2> QED  BY <1>1, <1>5, <2>1 DEF Smaller
<1>7. (delay * 6) \div 5 \in Int  BY <1>1
<1>8. Smaller((delay * 6) \div 5, max) \in Int  BY <1>7 DEF Smaller
<1> HIDE DEF delay
<1> QED  BY <1>1, <1>2, <1>6, <1>8 DEF delay

\* A payload never waits less after one failure more, although the jitter is
\* drawn again (outboundBackoffDelay, durableReminderRetryDelay).
THEOREM DelaysNeverShrink ==
    ASSUME NEW base \in Nat \ {0}, NEW max \in Nat \ {0}, NEW n \in Nat \ {0},
           NEW p \in Int, 1000 <= p, p <= 1200, NEW q \in Int, 1000 <= q, q <= 1200
    PROVE  JitteredDelay(base, max, n + 1, q) >= JitteredDelay(base, max, n, p)
<1>1. n \in Nat /\ n + 1 \in Nat  OBVIOUS
<1>2. /\ InboundRetryDelay(base, max, n) \in 1 .. max
      /\ InboundRetryDelay(base, max, n + 1) = Smaller(2 * InboundRetryDelay(base, max, n), max)
  BY <1>1, DelaysDouble
<1>3. /\ JitteredDelay(base, max, n, p) \in Nat
      /\ JitteredDelay(base, max, n, p)
            <= Smaller((InboundRetryDelay(base, max, n) * 6) \div 5, max)
  BY <1>1, JitterAdds
<1>4. /\ JitteredDelay(base, max, n + 1, q) \in Nat
      /\ InboundRetryDelay(base, max, n + 1) <= JitteredDelay(base, max, n + 1, q)
  BY <1>1, JitterAdds
<1> DEFINE d == InboundRetryDelay(base, max, n)
           e == InboundRetryDelay(base, max, n + 1)
           x == JitteredDelay(base, max, n, p)
           y == JitteredDelay(base, max, n + 1, q)
<1> HIDE DEF d, e, x, y
<1>5. d \in 1 .. max /\ (d * 6) \div 5 <= 2 * d /\ (d * 6) \div 5 \in Int
  <2>1. d \in 1 .. max  BY <1>2 DEF d
  <2> QED  BY <2>1
<1>6. Smaller((d * 6) \div 5, max) <= e /\ e \in Int /\ Smaller((d * 6) \div 5, max) \in Int
  <2>1. e = Smaller(2 * d, max)  BY <1>2 DEF d, e
  <2> QED  BY <1>5, <2>1 DEF Smaller
<1>7. x <= y  BY <1>3, <1>4, <1>6 DEF d, e, x, y
<1> QED  BY <1>3, <1>4, <1>7 DEF x, y

\* Division rounds down: now lies in the slot that its quotient names.
LEMMA Quotient ==
    ASSUME NEW n \in Nat, NEW d \in Nat \ {0}
    PROVE  /\ n \div d \in Nat
           /\ (n \div d) * d <= n
           /\ n < (n \div d) * d + d
<1>1. n \div d \in Int /\ n % d \in 0 .. d - 1 /\ n = d * (n \div d) + (n % d)
  OBVIOUS
<1> DEFINE q == n \div d
<1>2. q \in Int /\ d * q <= n /\ n < d * q + d
  BY <1>1
<1>3. q >= 0
  <2> SUFFICES ASSUME q <= -1 PROVE FALSE
    BY <1>2
  <2> HIDE DEF q
  <2>1. d * q <= d * (-1)
    BY <1>2
  <2> QED
    BY <1>2, <2>1
<1>4. d * q = q * d
  BY <1>2
<1> QED
  BY <1>2, <1>3, <1>4

\* nextScheduledTrigger returns a slot of the query's grid, counted from its
\* previous trigger, that lies after now, and no more than one interval after
\* it unless the next slot is still ahead: missed slots are skipped, and none
\* that lies ahead is.
THEOREM NextSlotAhead ==
    ASSUME NEW previous \in Nat \ {0}, NEW interval \in Nat \ {0}, NEW now \in Nat,
           previous <= now
    PROVE  LET t == NextScheduledTrigger(previous, interval, now) IN
           /\ t > now
           /\ t <= now + interval
           /\ \E k \in Nat \ {0} : t = previous + k * interval
<1> DEFINE t == NextScheduledTrigger(previous, interval, now)
           next == previous + interval
           q == (now - next) \div interval
<1>1. CASE next > now
  <2>1. t = next
    BY <1>1 DEF NextScheduledTrigger
  <2>2. t = previous + 1 * interval
    BY <2>1
  <2> QED
    BY <1>1, <2>1, <2>2
<1>2. CASE ~ (next > now)
  <2>1. t = next + (q + 1) * interval
    BY <1>2 DEF NextScheduledTrigger
  <2>2. now - next \in Nat
    BY <1>2
  <2>3. q \in Nat /\ q * interval <= now - next /\ now - next < q * interval + interval
    BY <2>2, Quotient
  <2> HIDE DEF q
  <2>4. (q + 1) * interval = q * interval + interval
    BY <2>3
  <2>5. next + (q + 1) * interval = previous + (q + 2) * interval
    BY <2>3
  <2> HIDE DEF t
  <2>6. q * interval \in Nat
    BY <2>3
  <2>7. t > now /\ t <= now + interval
    BY <2>1, <2>3, <2>4, <2>6
  <2>8. q + 2 \in Nat \ {0} /\ t = previous + (q + 2) * interval
    BY <2>1, <2>3, <2>5
  <2> QED
    BY <2>7, <2>8 DEF t
<1> QED
  BY <1>1, <1>2

\* The time to the next trigger, counted from where a run has got to
LEMMA NextRunTyped ==
    ASSUME NEW elapsed \in 0 .. MaxWait
    PROVE  NextRun(elapsed) \in 0 .. MaxWait
<1> DEFINE now == 1 + elapsed
           t == NextScheduledTrigger(1, Interval, now)
<1>1. MaxWait \in Nat /\ Interval \in Nat \ {0} /\ Interval <= MaxWait
  BY ReminderConstants
<1>2. now \in Nat /\ 1 <= now /\ 1 \in Nat \ {0}  BY <1>1
<1>3. t > now /\ t <= now + Interval /\ \E k \in Nat \ {0} : t = 1 + k * Interval
  BY <1>1, <1>2, NextSlotAhead
<1>4. t \in Int  BY <1>1, <1>3
<1>5. NextRun(elapsed) = t - now
  BY DEF NextRun, Delays!NextScheduledTrigger, NextScheduledTrigger
<1> HIDE DEF t
<1> QED  BY <1>1, <1>2, <1>3, <1>4, <1>5

-----------------------------------------------------------------------------
(* Reminders: what a step does to the list. *)

\* What users did to an item stays, and what has run has run.
Same(old, new) ==
    /\ new.kept = old.kept /\ new.cancelled = old.cancelled /\ new.text = old.text
    /\ old.ran => new.ran

\* An edit may add a version, end the item or delete it.
Later(old, new) ==
    /\ new.kept => old.kept
    /\ old.cancelled => new.cancelled
    /\ old.ran => new.ran
    /\ new.text \in {old.text, old.text + 1}

Worked == /\ edits' = edits /\ \A k \in Items : Same(list[k], list'[k])
Edited == /\ edits' = edits + 1 /\ UNCHANGED <<active, job, life, sends>>
          /\ \A k \in Items : Later(list[k], list'[k])

LEMMA ItemConstants ==
    /\ MaxWait \in Nat /\ MaxFailures \in Nat /\ MaxFailures > 0 /\ MaxEdits \in Nat
    /\ MaxRuns \in Nat /\ MaxRuns > 0 /\ MaxSends \in Nat /\ Limit \in Nat
    /\ Interval \in 0 .. MaxWait /\ NoItem \notin Items
    /\ IsFiniteSet(Items) /\ Query \subseteq Items
    /\ \A n \in 1 .. MaxFailures : Retry[n] \in 0 .. MaxWait
BY ReminderConstants

LEMMA AbsentTyped == Absent \in Entries /\ Idle \in Goroutines
<1>1. 0 \in 0 .. MaxWait /\ 0 \in 0 .. MaxEdits + 1 /\ 0 \in 0 .. MaxFailures /\ 0 \in Nat
  BY ItemConstants
<1>2. Absent \in Entries  BY <1>1 DEF Absent, Entries
<1> QED  BY <1>1, <1>2 DEF Idle, Goroutines, Stages

\* Entries with new fields are entries.
LEMMA EntryWith ==
    ASSUME NEW e \in Entries, NEW ran \in BOOLEAN, NEW wait \in 0 .. MaxWait,
           NEW text \in 0 .. MaxEdits + 1, NEW pending \in 0 .. MaxEdits + 1,
           NEW failures \in 0 .. MaxFailures
    PROVE  [e EXCEPT !.ran = ran, !.wait = wait, !.text = text, !.pending = pending,
                     !.failures = failures] \in Entries
<1> DEFINE W == 0 .. MaxWait
           T == 0 .. MaxEdits + 1
           F == 0 .. MaxFailures
<1>1. Entries = [kept : BOOLEAN, cancelled : BOOLEAN, ran : BOOLEAN, wait : W,
                 text : T, pending : T, failures : F]
  BY DEF Entries
<1>2. wait \in W /\ text \in T /\ pending \in T /\ failures \in F  OBVIOUS
<1> HIDE DEF W, T, F
<1> QED  BY <1>1, <1>2

\* One item is written.
LEMMA ItemWritten ==
    ASSUME list \in [Items -> Entries], NEW i \in Items, NEW new \in Entries,
           list' = [list EXCEPT ![i] = new]
    PROVE  /\ list' \in [Items -> Entries]
           /\ \A k \in Items : list'[k] = IF k = i THEN new ELSE list[k]
OBVIOUS

LEMMA ItemWorked ==
    ASSUME list \in [Items -> Entries], edits' = edits, NEW i \in Items,
           NEW new \in Entries, Same(list[i], new), list' = [list EXCEPT ![i] = new]
    PROVE  list' \in [Items -> Entries] /\ Worked
BY ItemWritten DEF Worked, Same

LEMMA ItemEdited ==
    ASSUME list \in [Items -> Entries], edits' = edits + 1, NEW i \in Items,
           UNCHANGED <<active, job, life, sends>>,
           NEW new \in Entries, Later(list[i], new), list' = [list EXCEPT ![i] = new]
    PROVE  list' \in [Items -> Entries] /\ Edited
<1>1. \A k \in Items : Later(list[k], list[k])  BY DEF Later
<1>2. \A k \in Items : Later(list[k], list'[k])  BY <1>1, ItemWritten
<1> QED  BY <1>2, ItemWritten DEF Edited

\* Nobody but a user changes what users wrote.
LEMMA ListStep ==
    ASSUME RemindersInv, [Next]_vars
    PROVE  /\ list' \in [Items -> Entries]
           /\ (\E i \in Items : Add(i)) \/ Worked \/ Edited
<1> USE ItemConstants
<1>0. /\ list \in [Items -> Entries] /\ job \in [Jobs -> Goroutines]
      /\ edits \in 0 .. MaxEdits
      /\ \A i \in Items : list[i].text <= edits + 1
      /\ \A j \in Jobs : job[j].pc # "idle" => job[j].item \in Items
  BY DEF RemindersInv, TypeOK, JobsTyped, TextsCounted
<1>1. ASSUME list' = list, edits' = edits  PROVE list' \in [Items -> Entries] /\ Worked
  BY <1>0, <1>1 DEF Worked, Same
<1>2. ASSUME NEW i \in Items, Add(i)  PROVE list' \in [Items -> Entries]
  <2>1. PICK wait \in 0 .. MaxWait :
           list' = [list EXCEPT ![i] = [Absent EXCEPT !.kept = TRUE, !.wait = wait,
                                                      !.text = 1]]
    BY <1>2 DEF Add
  <2> DEFINE new == [Absent EXCEPT !.kept = TRUE, !.wait = wait, !.text = 1]
  <2>2. 1 \in 0 .. MaxEdits + 1  OBVIOUS
  <2>3. new \in Entries  BY <2>2, AbsentTyped DEF Entries
  <2> HIDE DEF new
  <2> QED  BY <1>0, <2>1, <2>3 DEF new
<1>3. ASSUME NEW i \in Items, Cancel(i)  PROVE list' \in [Items -> Entries] /\ Edited
  <2> DEFINE pending == IF i \in Query THEN 0 ELSE list[i].pending
             new == [list[i] EXCEPT !.cancelled = TRUE, !.pending = pending]
  <2>1. pending \in 0 .. MaxEdits + 1  BY <1>0 DEF Entries
  <2>2. new \in Entries /\ Later(list[i], new)
    <3> HIDE DEF pending
    <3> QED  BY <1>0, <2>1 DEF Entries, Later
  <2>3. list' = [list EXCEPT ![i] = new]  BY <1>0, <1>3 DEF Cancel, Entries
  <2>4. edits' = edits + 1 /\ UNCHANGED <<active, job, life, sends>>
    BY <1>3 DEF Cancel, Edit
  <2> HIDE DEF new
  <2> QED  BY <1>0, <2>2, <2>3, <2>4, ItemEdited
<1>4. ASSUME NEW i \in Items, Delete(i)  PROVE list' \in [Items -> Entries] /\ Edited
  <2> DEFINE new == [list[i] EXCEPT !.kept = FALSE]
  <2>1. new \in Entries /\ Later(list[i], new)  BY <1>0 DEF Entries, Later
  <2>2. list' = [list EXCEPT ![i] = new]  BY <1>4 DEF Delete
  <2>3. edits' = edits + 1 /\ UNCHANGED <<active, job, life, sends>>  BY <1>4 DEF Delete
  <2> HIDE DEF new
  <2> QED  BY <1>0, <2>1, <2>2, <2>3, ItemEdited
<1>5. ASSUME NEW i \in Items, UpdateReminder(i)
      PROVE  list' \in [Items -> Entries] /\ Edited
  <2>1. PICK wait \in {list[i].wait} \cup 1 .. MaxWait,
             text \in list[i].text .. list[i].text + 1 :
           list' = [list EXCEPT ![i].text = text, ![i].wait = wait]
    BY <1>5 DEF UpdateReminder
  <2> DEFINE new == [list[i] EXCEPT !.text = text, !.wait = wait]
  <2>2. edits' = edits + 1 /\ edits < MaxEdits /\ UNCHANGED <<active, job, life, sends>>
    BY <1>5 DEF UpdateReminder, Edit
  <2>3. list[i].text \in 0 .. MaxEdits + 1 /\ list[i].wait \in 0 .. MaxWait
    BY <1>0 DEF Entries
  <2>4. wait \in 0 .. MaxWait /\ text \in 0 .. MaxEdits + 1
        /\ text \in {list[i].text, list[i].text + 1}
    BY <1>0, <2>2, <2>3
  <2>5. new \in Entries /\ Later(list[i], new)  BY <1>0, <2>4 DEF Entries, Later
  <2>6. list' = [list EXCEPT ![i] = new]  BY <2>1
  <2> HIDE DEF new
  <2> QED  BY <1>0, <2>2, <2>5, <2>6, ItemEdited
<1>6. ASSUME NEW i \in Items, UpdateQuery(i)
      PROVE  list' \in [Items -> Entries] /\ Edited
  <2>1. edits' = edits + 1 /\ edits < MaxEdits /\ UNCHANGED <<active, job, life, sends>>
    BY <1>6 DEF UpdateQuery, Edit
  <2>2. CASE list' = [list EXCEPT ![i].wait = Interval]
    <3> DEFINE new == [list[i] EXCEPT !.wait = Interval]
    <3>1. new \in Entries /\ Later(list[i], new)  BY <1>0 DEF Entries, Later
    <3> HIDE DEF new
    <3> QED  BY <1>0, <2>1, <2>2, <3>1, ItemEdited DEF new
  <2>3. CASE list' = [list EXCEPT ![i].text = @ + 1, ![i].pending = 0,
                                  ![i].failures = 0, ![i].wait = Interval]
    <3> DEFINE new == [list[i] EXCEPT !.text = list[i].text + 1, !.pending = 0,
                                      !.failures = 0, !.wait = Interval]
    <3>1. list[i].text + 1 \in 0 .. MaxEdits + 1  BY <1>0, <2>1 DEF Entries
    <3>2. 0 \in 0 .. MaxEdits + 1 /\ 0 \in 0 .. MaxFailures  OBVIOUS
    <3>3. new \in Entries
      <4>1. list[i].ran \in BOOLEAN  BY <1>0 DEF Entries
      <4>2. new = [list[i] EXCEPT !.ran = list[i].ran, !.wait = Interval,
                     !.text = list[i].text + 1, !.pending = 0, !.failures = 0]
        BY <1>0 DEF Entries
      <4> HIDE DEF new
      <4> QED  BY <1>0, <3>1, <3>2, <4>1, <4>2, EntryWith
    <3>4. /\ new.kept = list[i].kept /\ new.cancelled = list[i].cancelled
          /\ new.ran = list[i].ran /\ new.text = list[i].text + 1
      BY <1>0 DEF Entries
    <3>5. list' = [list EXCEPT ![i] = new]  BY <1>0, <2>3 DEF Entries
    <3> HIDE DEF new
    <3>6. Later(list[i], new)  BY <3>4 DEF Later
    <3> QED  BY <1>0, <2>1, <3>3, <3>5, <3>6, ItemEdited
  <2> QED  BY <1>6, <2>2, <2>3 DEF UpdateQuery
<1>7. ASSUME NEW j \in Jobs, StorePending(j)
      PROVE  list' \in [Items -> Entries] /\ Worked
  <2> DEFINE i == job[j].item
             new == [list[i] EXCEPT !.pending = Version(j)]
  <2>1. i \in Items /\ edits' = edits  BY <1>0, <1>7 DEF StorePending
  <2>2. Version(j) \in 0 .. MaxEdits + 1  BY <1>0 DEF Version, Goroutines, Entries
  <2>3. new \in Entries /\ Same(list[i], new)  BY <1>0, <2>1, <2>2 DEF Entries, Same
  <2>4. list' = [list EXCEPT ![i] = new] \/ list' = list  BY <1>7 DEF StorePending
  <2> HIDE DEF new
  <2> QED  BY <1>0, <1>1, <2>1, <2>3, <2>4, ItemWorked
<1>8. ASSUME NEW j \in Jobs, Finish(j)
      PROVE  list' \in [Items -> Entries] /\ Worked
  <2> DEFINE i == job[j].item
  <2>1. i \in Items /\ edits' = edits  BY <1>0, <1>8 DEF Finish
  <2>2. \/ list' = list \/ list' = [list EXCEPT ![i] = Delivered(i, j)]
        \/ list' = [list EXCEPT ![i] = Failed(i)]
    BY <1>8 DEF Finish, Save
  <2>3. Delivered(i, j) \in Entries /\ Same(list[i], Delivered(i, j))
    <3>1. NextRun(job[j].elapsed) \in 0 .. MaxWait
      BY <1>0, NextRunTyped DEF Goroutines
    <3>2. 0 \in 0 .. MaxFailures /\ 0 \in 0 .. MaxEdits + 1  OBVIOUS
    <3> QED  BY <1>0, <2>1, <3>1, <3>2 DEF Delivered, Entries, Same
  <2>4. Failed(i) \in Entries /\ Same(list[i], Failed(i))
    <3> DEFINE n == AtMost(list[i].failures + 1, MaxFailures)
               ran == list[i].ran \/ i \in Query
    <3>1. n \in 1 .. MaxFailures  BY <1>0, <2>1 DEF AtMost, Entries
    <3>2. n \in 0 .. MaxFailures /\ Retry[n] \in 0 .. MaxWait  BY <3>1
    <3>3. Failed(i) = [list[i] EXCEPT !.failures = n, !.wait = Retry[n], !.ran = ran]
      BY <1>0, <2>1 DEF Failed, Entries
    <3>4. ran \in BOOLEAN /\ (list[i].ran => ran)  OBVIOUS
    <3> HIDE DEF n, ran
    <3>5. /\ Failed(i).kept = list[i].kept /\ Failed(i).cancelled = list[i].cancelled
          /\ Failed(i).text = list[i].text /\ Failed(i).ran = ran
      BY <1>0, <2>1, <3>3 DEF Entries
    <3>6. Failed(i) \in Entries
      <4>1. list[i].text \in 0 .. MaxEdits + 1 /\ list[i].pending \in 0 .. MaxEdits + 1
        BY <1>0, <2>1 DEF Entries
      <4>2. Failed(i) = [list[i] EXCEPT !.ran = ran, !.wait = Retry[n],
                           !.text = list[i].text, !.pending = list[i].pending,
                           !.failures = n]
        BY <1>0, <2>1, <3>3 DEF Entries
      <4>3. list[i] \in Entries /\ ran \in BOOLEAN  BY <1>0, <2>1, <3>4
      <4> HIDE DEF i
      <4>4. [list[i] EXCEPT !.ran = ran, !.wait = Retry[n], !.text = list[i].text,
                            !.pending = list[i].pending, !.failures = n] \in Entries
        BY <3>2, <4>1, <4>3, EntryWith, Zenon
      <4> QED  BY <4>2, <4>4, Zenon
    <3> QED  BY <3>4, <3>5, <3>6 DEF Same
  <2> QED  BY <1>0, <1>1, <2>1, <2>2, <2>3, <2>4, ItemWorked
<1>9. ASSUME Tick  PROVE list' \in [Items -> Entries] /\ Worked
  <2>1. edits' = edits /\ \A k \in Items :
           list'[k] = [list[k] EXCEPT !.wait = IF @ > 0 THEN @ - 1 ELSE 0]
    BY <1>9 DEF Tick
  <2>2. ASSUME NEW k \in Items  PROVE list'[k] \in Entries /\ Same(list[k], list'[k])
    <3> DEFINE wait == IF list[k].wait > 0 THEN list[k].wait - 1 ELSE 0
    <3>1. wait \in 0 .. MaxWait  BY <1>0 DEF Entries
    <3>2. list'[k] = [list[k] EXCEPT !.wait = wait]  BY <1>0, <2>1 DEF Entries
    <3> HIDE DEF wait
    <3> QED  BY <1>0, <3>1, <3>2 DEF Entries, Same
  <2>3. list' = [k \in Items |-> list'[k]]  BY <1>9 DEF Tick
  <2> QED  BY <2>1, <2>2, <2>3 DEF Worked
<1>10. ASSUME NEW j \in Jobs, Generate(j) \/ SendSucceeds(j) \/ SendFails(j) \/ Release(j)
       PROVE  list' = list /\ edits' = edits
  BY <1>10 DEF Generate, SendSucceeds, SendFails, Release
<1>11. ASSUME NEW i \in Items, NEW j \in Jobs, Claim(i, j)
       PROVE  list' = list /\ edits' = edits
  BY <1>11 DEF Claim
<1>12. CASE Stop \/ Start \/ Crash \/ UNCHANGED vars
  BY <1>1, <1>12 DEF Stop, Start, Crash, vars
<1> QED
  BY <1>1, <1>2, <1>3, <1>4, <1>5, <1>6, <1>7, <1>8, <1>9, <1>10, <1>11, <1>12
  DEF Next, JobStep

-----------------------------------------------------------------------------
(* Reminders: what a step does to the goroutines. *)

\* Goroutine j takes item i on, moves on, or lets its item go; the others stay.
Alone(j) == \A k \in Jobs \ {j} : job'[k] = job[k]
Takes(i, j) ==
    /\ Alone(j) /\ i \notin active /\ active' = active \cup {i} /\ job[j].pc = "idle"
    /\ job'[j].item = i /\ job'[j].pc \in {"generate", "send"}
Moves(j) ==
    /\ Alone(j) /\ active' = active /\ job[j].pc # "idle" /\ job'[j].pc # "idle"
    /\ job'[j].item = job[j].item
Leaves(j) ==
    /\ Alone(j) /\ active' = active \ {job[j].item} /\ job[j].pc = "release"
    /\ job'[j] = Idle
Stay ==
    /\ active' = active
    /\ \A j \in Jobs : job'[j].pc = job[j].pc /\ job'[j].item = job[j].item
Die == active' = {} /\ \A j \in Jobs : job'[j] = Idle

LEMMA GotoGives ==
    ASSUME job \in [Jobs -> Goroutines], NEW j \in Jobs, NEW pc \in Stages \ {"idle"},
           job[j].pc # "idle", Goto(j, pc), active' = active
    PROVE  job' \in [Jobs -> Goroutines] /\ Moves(j) /\ job'[j].pc = pc
<1> DEFINE new == [job[j] EXCEPT !.pc = pc]
<1>1. new \in Goroutines /\ new.pc = pc /\ new.item = job[j].item  BY DEF Goroutines
<1>2. job' = [job EXCEPT ![j] = new]  BY DEF Goto
<1> HIDE DEF new
<1> QED  BY <1>1, <1>2 DEF Moves, Alone

LEMMA JobStepGives ==
    ASSUME RemindersInv, NEW j \in Jobs, JobStep(j)
    PROVE  /\ job' \in [Jobs -> Goroutines]
           /\ \/ /\ Moves(j) /\ (job[j].pc = "delivered" => Finish(j))
                 /\ job'[j].pc \in Unsent => job[j].pc \in Unsent
              \/ Leaves(j) /\ UNCHANGED <<list, sends>>
<1> USE DEF RemindersInv, JobsTyped
<1>1. CASE Generate(j)
  <2>1. /\ active' = active /\ job[j].pc = "generate"
        /\ Goto(j, "store") \/ Goto(j, "failed")
    BY <1>1 DEF Generate
  <2> QED  BY <2>1, GotoGives DEF Stages, Unsent
<1>2. CASE StorePending(j)
  <2>1. /\ active' = active /\ job[j].pc = "store"
        /\ Goto(j, "send") \/ Goto(j, "failed")
    BY <1>2 DEF StorePending
  <2> QED  BY <2>1, GotoGives DEF Stages, Unsent
<1>3. CASE SendSucceeds(j)
  <2>1. active' = active /\ job[j].pc = "send" /\ Goto(j, "delivered")
    BY <1>3 DEF SendSucceeds
  <2> QED  BY <1>3, <2>1, GotoGives DEF Stages, Unsent
<1>4. CASE SendFails(j)
  <2>1. active' = active /\ job[j].pc = "send" /\ Goto(j, "failed")
    BY <1>4 DEF SendFails
  <2> QED  BY <2>1, GotoGives DEF Stages, Unsent
<1>5. CASE Finish(j)
  <2>1. active' = active /\ job[j].pc \in {"delivered", "failed"} /\ Goto(j, "release")
    BY <1>5 DEF Finish
  <2> QED  BY <1>5, <2>1, GotoGives DEF Stages, Unsent
<1>6. CASE Release(j)
  BY <1>6, AbsentTyped DEF Release, Unclaimed, Leaves, Alone
<1> QED  BY <1>1, <1>2, <1>3, <1>4, <1>5, <1>6 DEF JobStep

LEMMA ClaimGives ==
    ASSUME RemindersInv, NEW i \in Items, NEW j \in Jobs, Claim(i, j)
    PROVE  /\ job' \in [Jobs -> Goroutines] /\ Takes(i, j) /\ Open(i)
           /\ UNCHANGED <<list, life, edits, sends>>
<1> DEFINE pc == IF i \in Query /\ list[i].pending = 0 THEN "generate" ELSE "send"
           new == [pc |-> pc, item |-> i, copy |-> list[i], run |-> run, elapsed |-> 0]
<1>1. /\ job' = [job EXCEPT ![j] = new] /\ active' = active \cup {i}
      /\ job[j] = Idle /\ i \notin active /\ Open(i)
      /\ UNCHANGED <<list, life, edits, sends>>
  BY DEF Claim, Due
<1>2. pc \in {"generate", "send"} /\ pc \in Stages  BY DEF Stages
<1>3. new \in Goroutines /\ new.item = i /\ new.pc = pc
  <2>1. list[i] \in Entries /\ run \in Nat /\ 0 \in 0 .. MaxWait
    BY ItemConstants DEF RemindersInv, TypeOK
  <2> HIDE DEF pc
  <2> QED  BY <1>2, <2>1 DEF Goroutines
<1>4. job \in [Jobs -> Goroutines] /\ Idle.pc = "idle"
  BY DEF RemindersInv, JobsTyped, Idle
<1> HIDE DEF new, pc
<1> QED  BY <1>1, <1>2, <1>3, <1>4 DEF Takes, Alone

\* A step of no goroutine: they stay, or the process ends.
LEMMA OtherStepGives ==
    ASSUME RemindersInv, [Next]_vars,
           ~(\E i \in Items, j \in Jobs : Claim(i, j)), ~(\E j \in Jobs : JobStep(j))
    PROVE  /\ job' \in [Jobs -> Goroutines]
           /\ sends' = sends /\ (Stay \/ (Die /\ Crash /\ list' = list))
<1> USE DEF RemindersInv, JobsTyped
<1>1. ASSUME job' = job, active' = active  PROVE job' \in [Jobs -> Goroutines] /\ Stay
  BY <1>1 DEF Stay
<1>2. ASSUME NEW i \in Items, Add(i) \/ Cancel(i) \/ Delete(i) \/ UpdateReminder(i)
                              \/ UpdateQuery(i)
      PROVE  job' = job /\ active' = active /\ sends' = sends
  BY <1>2 DEF Add, Cancel, Delete, UpdateReminder, UpdateQuery
<1>3. CASE Stop \/ Start \/ UNCHANGED vars
  BY <1>1, <1>3 DEF Stop, Start, vars
<1>4. CASE Crash  BY <1>4, AbsentTyped DEF Crash, Die
<1>5. CASE Tick
  <2>1. sends' = sends /\ active' = active  BY <1>5 DEF Tick
  <2>2. ASSUME NEW j \in Jobs
        PROVE  job'[j] \in Goroutines /\ job'[j].pc = job[j].pc /\ job'[j].item = job[j].item
    <3> DEFINE elapsed == AtMost(job[j].elapsed + 1, MaxWait)
    <3>1. job'[j] = IF job[j] = Idle THEN Idle ELSE [job[j] EXCEPT !.elapsed = elapsed]
      BY <1>5 DEF Tick, Goroutines
    <3>2. elapsed \in 0 .. MaxWait
      BY ItemConstants DEF Goroutines, AtMost
    <3> HIDE DEF elapsed
    <3> QED  BY <3>1, <3>2 DEF Goroutines
  <2>3. job' = [j \in Jobs |-> job'[j]]  BY <1>5 DEF Tick
  <2> QED  BY <2>1, <2>2, <2>3 DEF Stay
<1> QED  BY <1>1, <1>2, <1>3, <1>4, <1>5 DEF Next

\* Items at work and goroutines at work belong together, one to one.
LEMMA JobsStep ==
    ASSUME RemindersInv, [Next]_vars
    PROVE  /\ job' \in [Jobs -> Goroutines]
           /\ \A j \in Jobs : IF job'[j].pc = "idle" THEN job'[j] = Idle
                              ELSE job'[j].item \in Items
           /\ active' = {job'[j].item : j \in {k \in Jobs : job'[k].pc # "idle"}}
           /\ \A j, k \in Jobs : job'[j].item = job'[k].item /\ j # k
                                    => job'[j].item = NoItem
<1>0. /\ \A j \in Jobs : IF job[j].pc = "idle" THEN job[j] = Idle
                         ELSE job[j].item \in Items
      /\ active = {job[j].item : j \in {k \in Jobs : job[k].pc # "idle"}}
      /\ \A j, k \in Jobs : job[j].item = job[k].item /\ j # k => job[j].item = NoItem
      /\ Idle.pc = "idle" /\ Idle.item = NoItem /\ NoItem \notin Items
  BY ItemConstants DEF RemindersInv, TypeOK, JobsTyped, OneJobPerItem, Idle
<1>1. ASSUME NEW i \in Items, NEW j \in Jobs, Claim(i, j)
      PROVE  /\ \A k \in Jobs : IF job'[k].pc = "idle" THEN job'[k] = Idle
                                ELSE job'[k].item \in Items
             /\ active' = {job'[k].item : k \in {l \in Jobs : job'[l].pc # "idle"}}
             /\ \A k, l \in Jobs : job'[k].item = job'[l].item /\ k # l
                                      => job'[k].item = NoItem
  BY <1>0, <1>1, ClaimGives DEF Takes, Alone
<1>2. ASSUME NEW j \in Jobs, Moves(j)
      PROVE  /\ \A k \in Jobs : IF job'[k].pc = "idle" THEN job'[k] = Idle
                                ELSE job'[k].item \in Items
             /\ active' = {job'[k].item : k \in {l \in Jobs : job'[l].pc # "idle"}}
             /\ \A k, l \in Jobs : job'[k].item = job'[l].item /\ k # l
                                      => job'[k].item = NoItem
  BY <1>0, <1>2 DEF Moves, Alone
<1>3. ASSUME NEW j \in Jobs, Leaves(j)
      PROVE  /\ \A k \in Jobs : IF job'[k].pc = "idle" THEN job'[k] = Idle
                                ELSE job'[k].item \in Items
             /\ active' = {job'[k].item : k \in {l \in Jobs : job'[l].pc # "idle"}}
             /\ \A k, l \in Jobs : job'[k].item = job'[l].item /\ k # l
                                      => job'[k].item = NoItem
  BY <1>0, <1>3 DEF Leaves, Alone
<1>4. CASE ~(\E i \in Items, j \in Jobs : Claim(i, j)) /\ ~(\E j \in Jobs : JobStep(j))
  <2>1. \A j \in Jobs : job'[j].pc = "idle" => job'[j] = Idle
    <3>1. CASE Tick  BY <1>0, <1>4, <3>1, OtherStepGives DEF Tick, Stay
    <3>2. CASE ~Tick
      <4>1. job' = job \/ Die
        BY <1>4, <3>2
        DEF Next, Add, Cancel, Delete, UpdateReminder, UpdateQuery, Stop, Start, Crash,
            Die, vars
      <4> QED  BY <1>0, <4>1 DEF Die
    <3> QED  BY <3>1, <3>2
  <2> QED  BY <1>0, <1>4, <2>1, OtherStepGives DEF Stay, Die
<1> QED  BY <1>1, <1>2, <1>3, <1>4, JobStepGives, ClaimGives, OtherStepGives

-----------------------------------------------------------------------------
(* Reminders: the invariant, part by part. *)

\* Only a goroutine at its send sends.
LEMMA SendsStep ==
    ASSUME RemindersInv, [Next]_vars
    PROVE  /\ sends' \in [Items -> 0 .. MaxSends]
           /\ \A i \in Items : sends'[i] # sends[i] =>
                 /\ sends'[i] = AtMost(sends[i] + 1, MaxSends)
                 /\ \E j \in Jobs :
                       /\ job[j].item = i /\ job[j].pc = "send"
                       /\ SendSucceeds(j) \/ "ack_lost" \in Faults
<1> USE ItemConstants
<1>0. sends \in [Items -> 0 .. MaxSends] /\ job \in [Jobs -> Goroutines]
      /\ \A j \in Jobs : job[j].pc # "idle" => job[j].item \in Items
  BY DEF RemindersInv, TypeOK, JobsTyped
<1>1. ASSUME NEW j \in Jobs, SendSucceeds(j) \/ SendFails(j)
      PROVE  /\ sends' \in [Items -> 0 .. MaxSends]
             /\ \A i \in Items : sends'[i] # sends[i] =>
                   /\ sends'[i] = AtMost(sends[i] + 1, MaxSends)
                   /\ job[j].item = i /\ job[j].pc = "send"
                   /\ SendSucceeds(j) \/ "ack_lost" \in Faults
  <2>1. /\ job[j].pc = "send" /\ (sends' = sends \/ Accepted(j))
        /\ sends' = sends \/ SendSucceeds(j) \/ "ack_lost" \in Faults
    BY <1>1 DEF SendSucceeds, SendFails
  <2>2. job[j].item \in Items  BY <1>0, <2>1
  <2>3. AtMost(sends[job[j].item] + 1, MaxSends) \in 0 .. MaxSends
    BY <1>0, <2>2 DEF AtMost
  <2> QED  BY <1>0, <2>1, <2>2, <2>3 DEF Accepted
<1>2. ASSUME ~(\E j \in Jobs : SendSucceeds(j) \/ SendFails(j))  PROVE sends' = sends
  BY <1>2
  DEF Next, JobStep, Add, Cancel, Delete, UpdateReminder, UpdateQuery, Claim, Generate,
      StorePending, Finish, Release, Stop, Start, Crash, Tick, vars
<1> QED  BY <1>0, <1>1, <1>2

LEMMA AddGives ==
    ASSUME RemindersInv, NEW i \in Items, Add(i)
    PROVE  /\ list[i] = Absent /\ \A k \in Items \ {i} : list'[k] = list[k]
           /\ list'[i].text = 1 /\ ~list'[i].ran
           /\ UNCHANGED <<active, job, life, edits, sends>>
           /\ Cardinality(SameKind(i)) < Limit
<1>1. PICK wait \in 0 .. MaxWait :
         list' = [list EXCEPT ![i] = [Absent EXCEPT !.kept = TRUE, !.wait = wait,
                                                    !.text = 1]]
  BY DEF Add
<1>2. list \in [Items -> Entries]  BY DEF RemindersInv, TypeOK
<1> QED  BY <1>1, <1>2 DEF Add, Absent

LEMMA RunStep ==
    ASSUME RemindersInv, [Next]_vars
    PROVE  /\ run' \in 1 .. MaxRuns /\ edits' \in 0 .. MaxEdits
           /\ running' \in BOOLEAN /\ (~running' => run' < MaxRuns)
<1> USE ItemConstants DEF RemindersInv, TypeOK, JobsTyped
<1>1. edits' \in 0 .. MaxEdits
  <2>1. CASE \E i \in Items : Cancel(i) \/ Delete(i) \/ UpdateReminder(i) \/ UpdateQuery(i)
    BY <2>1 DEF Cancel, Delete, UpdateReminder, UpdateQuery, Edit
  <2>2. CASE ~(\E i \in Items :
                 Cancel(i) \/ Delete(i) \/ UpdateReminder(i) \/ UpdateQuery(i))
    <3>1. edits' = edits
      BY <2>2
      DEF Next, JobStep, Add, Claim, Generate, StorePending, SendSucceeds, SendFails,
          Finish, Release, Stop, Start, Crash, Tick, vars
    <3> QED  BY <3>1
  <2> QED  BY <2>1, <2>2
<1>2. CASE UNCHANGED life  BY <1>1, <1>2 DEF life
<1>3. CASE Stop \/ Crash
  <2>1. running' = FALSE /\ run' = run /\ run < MaxRuns  BY <1>3 DEF Stop, Crash
  <2>2. running' \in BOOLEAN  BY <2>1, Zenon
  <2> QED  BY <1>1, <2>1, <2>2
<1>4. CASE Start
  <2>1. running' = TRUE /\ run' = run + 1 /\ run < MaxRuns  BY <1>4 DEF Start
  <2>2. running' \in BOOLEAN /\ ~(~running')  BY <2>1, Zenon
  <2> QED  BY <1>1, <2>1, <2>2
<1>5. UNCHANGED life \/ Stop \/ Crash \/ Start
  BY DEF Next, JobStep, Add, Cancel, Delete, UpdateReminder, UpdateQuery, Claim,
         Generate, StorePending, SendSucceeds, SendFails, Finish, Release, Tick, vars,
         life
<1> QED  BY <1>1, <1>2, <1>3, <1>4, <1>5

LEMMA TextsStep ==
    ASSUME RemindersInv, [Next]_vars
    PROVE  TextsCounted'
<1> USE DEF RemindersInv, TextsCounted
<1>0. /\ edits \in Nat /\ \A i \in Items : list[i].text \in Nat /\ sends[i] \in Nat
      /\ sends' \in [Items -> 0 .. MaxSends] /\ MaxSends \in Nat
  BY ItemConstants, SendsStep DEF TypeOK, Entries
<1>1. CASE \E i \in Items : Add(i)
  BY <1>0, <1>1, AddGives
<1>2. ASSUME Worked \/ Edited, NEW i \in Items
      PROVE  /\ list'[i].text <= edits' + 1
             /\ list[i].text > 0 => list'[i].text > 0
             /\ list'[i].kept => list[i].kept
  BY <1>0, <1>2 DEF Worked, Edited, Same, Later
<1>3. ASSUME NEW i \in Items, sends'[i] > 0
      PROVE  sends[i] > 0 \/ i \in active
  <2>1. CASE sends'[i] = sends[i]  BY <1>3, <2>1
  <2>2. CASE sends'[i] # sends[i]
    <3>1. PICK j \in Jobs : job[j].item = i /\ job[j].pc = "send"  BY <2>2, SendsStep
    <3> QED  BY <3>1 DEF TypeOK
  <2> QED  BY <2>1, <2>2
<1>4. ASSUME NEW i \in Items, i \in active'
      PROVE  i \in active \/ list[i].kept
  <2>1. PICK j \in Jobs : job'[j].item = i /\ job'[j].pc # "idle"
    BY <1>4, JobsStep
  <2>2. CASE \E k \in Items, l \in Jobs : Claim(k, l)
    BY <1>4, <2>2, ClaimGives DEF Takes, Open
  <2>3. CASE \E l \in Jobs : JobStep(l)
    BY <1>4, <2>3, JobStepGives DEF Moves, Leaves
  <2> QED  BY <1>4, <2>2, <2>3, OtherStepGives DEF Stay, Die
<1> QED  BY <1>1, <1>2, <1>3, <1>4, ListStep

\* Goroutine j of an item that was sent marks it as done.
LEMMA FinishMarks ==
    ASSUME RemindersInv, NEW j \in Jobs, Finish(j), job[j].pc = "delivered",
           "save" \notin Faults
    PROVE  list'[job[j].item].ran \/ ~list'[job[j].item].kept
<1> DEFINE i == job[j].item
<1>1. i \in Items /\ list \in [Items -> Entries]
  BY DEF RemindersInv, TypeOK, JobsTyped
<1>2. \/ ~list[i].kept /\ list' = list
      \/ list' = [list EXCEPT ![i] = Delivered(i, j)]
  BY DEF Finish, Save
<1>3. Delivered(i, j).ran = TRUE  BY <1>1 DEF Delivered, Entries
<1> QED  BY <1>1, <1>2, <1>3

LEMMA SentStep ==
    ASSUME RemindersInv, [Next]_vars
    PROVE  SentIsDone'
<1> SUFFICES ASSUME Faults \cap {"crash", "ack_lost", "save"} = {},
                    NEW i \in Items \ Query
             PROVE  /\ sends'[i] <= 1
                    /\ sends'[i] > 0 =>
                          \/ list'[i].ran \/ ~list'[i].kept
                          \/ \E j \in Jobs : job'[j].item = i /\ job'[j].pc = "delivered"
                    /\ \A j \in Jobs :
                          job'[j].item = i /\ job'[j].pc \in Unsent => sends'[i] = 0
  BY DEF SentIsDone
<1>0. /\ sends[i] <= 1
      /\ sends[i] > 0 =>
            \/ list[i].ran \/ ~list[i].kept
            \/ \E j \in Jobs : job[j].item = i /\ job[j].pc = "delivered"
      /\ \A j \in Jobs : job[j].item = i /\ job[j].pc \in Unsent => sends[i] = 0
      /\ sends[i] \in Nat /\ i # NoItem /\ MaxSends \in Nat
      /\ sends[i] > 0 => list[i] # Absent
      /\ i \notin active => \A j \in Jobs : job[j].item = i => job[j].pc = "idle"
  BY ItemConstants DEF RemindersInv, SentIsDone, TypeOK, TextsCounted, Absent
<1>1. CASE sends'[i] # sends[i]
  <2>1. PICK j \in Jobs : job[j].item = i /\ job[j].pc = "send" /\ SendSucceeds(j)
    BY <1>1, SendsStep
  <2>2. sends[i] = 0 /\ sends'[i] <= 1
    BY <1>0, <1>1, <2>1, SendsStep DEF Unsent, AtMost
  <2>3. job'[j].item = i /\ job'[j].pc = "delivered"
    <3>1. Goto(j, "delivered") /\ active' = active  BY <2>1 DEF SendSucceeds
    <3> QED  BY <2>1, <3>1, GotoGives DEF Stages, RemindersInv, JobsTyped, Moves
  <2>4. \A k \in Jobs : job'[k].item = i => k = j  BY <1>0, <2>3, JobsStep
  <2> QED  BY <2>2, <2>3, <2>4 DEF Unsent
<1>2. CASE sends'[i] = sends[i]
  <2>1. ASSUME sends[i] > 0
        PROVE  /\ list[i].ran => list'[i].ran
               /\ ~list[i].kept => ~list'[i].kept
    <3>1. CASE \E k \in Items : Add(k)  BY <1>0, <2>1, <3>1, AddGives
    <3> QED  BY <3>1, ListStep DEF Worked, Edited, Same, Later
  <2>2. ASSUME NEW j \in Jobs, job[j].item = i, job[j].pc = "delivered"
        PROVE  \/ list'[i].ran \/ ~list'[i].kept
               \/ job'[j].item = i /\ job'[j].pc = "delivered"
    <3>1. CASE JobStep(j)
      <4>1. Finish(j)  BY <2>2, <3>1, JobStepGives DEF Leaves
      <4> QED  BY <2>2, <4>1, FinishMarks
    <3>2. CASE \E k \in Jobs \ {j} : JobStep(k)
      BY <2>2, <3>2, JobStepGives DEF Moves, Leaves, Alone
    <3>3. CASE \E k \in Items, l \in Jobs : Claim(k, l)
      BY <2>2, <3>3, ClaimGives DEF Takes, Alone
    <3>4. ~Crash  BY DEF Crash
    <3> QED  BY <2>2, <3>1, <3>2, <3>3, <3>4, OtherStepGives DEF Stay
  <2>3. ASSUME NEW j \in Jobs, job'[j].item = i, job'[j].pc \in Unsent
        PROVE  sends[i] = 0
    <3>0. Idle.pc \notin Unsent  BY DEF Idle, Unsent
    <3>1. CASE job[j].item = i /\ job[j].pc \in Unsent  BY <1>0, <3>1
    <3>2. CASE \E k \in Items, l \in Jobs : Claim(k, l)
      <4>1. PICK k \in Items, l \in Jobs : Claim(k, l)  BY <3>2
      <4>2. CASE l = j
        <5>1. k = i /\ i \notin active /\ Open(i)
          BY <2>3, <4>1, <4>2, ClaimGives DEF Takes
        <5> QED  BY <1>0, <5>1 DEF Open
      <4> QED  BY <2>3, <3>1, <4>1, <4>2, ClaimGives DEF Takes, Alone
    <3>3. CASE \E k \in Jobs : JobStep(k)
      <4>1. PICK k \in Jobs : JobStep(k)  BY <3>3
      <4>2. CASE k = j
        BY <2>3, <3>0, <3>1, <4>1, <4>2, JobStepGives DEF Moves, Leaves
      <4>3. CASE k # j
        BY <2>3, <3>1, <4>1, <4>3, JobStepGives DEF Moves, Leaves, Alone
      <4> QED  BY <4>2, <4>3
    <3> QED  BY <2>3, <3>0, <3>1, <3>2, <3>3, OtherStepGives DEF Stay, Die
  <2> QED  BY <1>0, <1>2, <2>1, <2>2, <2>3
<1> QED  BY <1>1, <1>2

\* Only an addition opens an item, and only below the limit.
LEMMA QuotaStep ==
    ASSUME RemindersInv, [Next]_vars
    PROVE  QuotaKept'
<1> DEFINE After(k) == list'[k].kept /\ ~list'[k].cancelled /\ (k \in Query \/ ~list'[k].ran)
           Rest == Items \ Query
<1>0. /\ IsFiniteSet(Query) /\ IsFiniteSet(Rest) /\ Query \subseteq Items /\ Limit \in Nat
      /\ Cardinality({k \in Query : Open(k)}) <= Limit
      /\ Cardinality({k \in Rest : Open(k)}) <= Limit
  BY ItemConstants, FS_Subset DEF RemindersInv, QuotaKept
<1> SUFFICES /\ Cardinality({k \in Query : After(k)}) <= Limit
             /\ Cardinality({k \in Rest : After(k)}) <= Limit
  BY DEF QuotaKept, Open
<1> HIDE DEF After
<1>1. ASSUME NEW kind, IsFiniteSet(kind), Cardinality({k \in kind : Open(k)}) <= Limit,
             \A k \in kind : After(k) => Open(k)
      PROVE  Cardinality({k \in kind : After(k)}) <= Limit
  <2>1. IsFiniteSet({k \in kind : Open(k)})  BY <1>1, FS_Subset
  <2>2. {k \in kind : After(k)} \subseteq {k \in kind : Open(k)}  BY <1>1
  <2>3. /\ Cardinality({k \in kind : After(k)}) <= Cardinality({k \in kind : Open(k)})
        /\ IsFiniteSet({k \in kind : After(k)})
    BY <2>1, <2>2, FS_Subset
  <2> QED  BY <1>0, <1>1, <2>1, <2>3, FS_CardinalityType
<1>2. ASSUME NEW kind, IsFiniteSet(kind), NEW i \in kind,
             Cardinality({k \in kind : Open(k)}) < Limit,
             \A k \in kind \ {i} : After(k) => Open(k)
      PROVE  Cardinality({k \in kind : After(k)}) <= Limit
  <2> DEFINE old == {k \in kind : Open(k)}
             new == {k \in kind : After(k)}
  <2>1. IsFiniteSet(old)  BY <1>2, FS_Subset
  <2>2. /\ IsFiniteSet(old \cup {i}) /\ Cardinality(old) \in Nat
        /\ Cardinality(old \cup {i}) <= Cardinality(old) + 1
    <3> HIDE DEF old
    <3>1. Cardinality(old) \in Nat  BY <2>1, FS_CardinalityType
    <3>2. /\ IsFiniteSet(old \cup {i})
          /\ Cardinality(old \cup {i}) \in {Cardinality(old), Cardinality(old) + 1}
      BY <2>1, FS_AddElement
    <3> QED  BY <3>1, <3>2
  <2>3. new \subseteq old \cup {i}  BY <1>2
  <2>4. /\ Cardinality(new) <= Cardinality(old \cup {i}) /\ IsFiniteSet(new)
        /\ Cardinality(old \cup {i}) \in Nat
    BY <2>2, <2>3, FS_Subset, FS_CardinalityType
  <2>5. Cardinality(new) \in Nat  BY <2>4, FS_CardinalityType
  <2> HIDE DEF old, new
  <2>6. Cardinality(old) < Limit  BY <1>2 DEF old
  <2>7. Cardinality(new) <= Limit  BY <1>0, <2>2, <2>4, <2>5, <2>6
  <2> QED  BY <2>7 DEF new
<1>3. CASE Worked \/ Edited
  <2>1. \A k \in Items : After(k) => Open(k)
    BY <1>3 DEF After, Open, Worked, Edited, Same, Later
  <2> QED  BY <1>0, <1>1, <2>1
<1>4. ASSUME NEW i \in Items, Add(i)
      PROVE  /\ Cardinality({k \in Query : After(k)}) <= Limit
             /\ Cardinality({k \in Rest : After(k)}) <= Limit
  <2>1. \A k \in Items \ {i} : After(k) => Open(k)
    BY <1>4, AddGives DEF After, Open
  <2>2. CASE i \in Query
    <3>1. SameKind(i) = {k \in Query : Open(k)}  BY <1>0, <2>2 DEF SameKind
    <3>2. Cardinality({k \in Query : Open(k)}) < Limit  BY <1>4, <3>1, AddGives
    <3>3. Cardinality({k \in Query : After(k)}) <= Limit
      BY <1>0, <1>2, <2>1, <2>2, <3>2
    <3> QED  BY <1>0, <1>1, <2>1, <2>2, <3>3
  <2>3. CASE i \notin Query
    <3>1. SameKind(i) = {k \in Rest : Open(k)}  BY <1>0, <2>3 DEF SameKind
    <3>2. Cardinality({k \in Rest : Open(k)}) < Limit  BY <1>4, <3>1, AddGives
    <3>3. Cardinality({k \in Rest : After(k)}) <= Limit
      BY <1>0, <1>2, <2>1, <2>3, <3>2
    <3> QED  BY <1>0, <1>1, <2>1, <2>3, <3>3
  <2> QED  BY <2>2, <2>3
<1> QED  BY <1>3, <1>4, ListStep

-----------------------------------------------------------------------------
(* Reminders: theorems. *)

\* The invariant holds at the start and every step keeps it: polls, goroutines
\* that work with copies, users, stops, starts and crashes (runtime.go,
\* reminder_tool.go, schedule_tool.go).
THEOREM RemindersAreSound == Spec => []RemindersInv
<1>1. Init => RemindersInv
  <2> SUFFICES ASSUME Init PROVE RemindersInv  OBVIOUS
  <2> USE ItemConstants, AbsentTyped DEF Init
  <2>1. Idle.pc = "idle" /\ Idle.item = NoItem  BY DEF Idle
  <2>2. TypeOK
    <3>1. list \in [Items -> Entries] /\ sends \in [Items -> 0 .. MaxSends]
      OBVIOUS
    <3>2. run \in 1 .. MaxRuns /\ edits \in 0 .. MaxEdits  OBVIOUS
    <3>3. active = {job[j].item : j \in {k \in Jobs : job[k].pc # "idle"}}  BY <2>1
    <3> QED  BY <3>1, <3>2, <3>3 DEF TypeOK
  <2>3. JobsTyped
    <3>1. running = TRUE  OBVIOUS
    <3>2. running \in BOOLEAN /\ ~(~running)  BY <3>1, Zenon
    <3> QED  BY <2>1, <3>2 DEF JobsTyped
  <2>4. OneJobPerItem  BY <2>1 DEF OneJobPerItem
  <2>5. TextsCounted  BY DEF TextsCounted, Absent
  <2>6. SentIsDone  BY <2>1 DEF SentIsDone
  <2>7. QuotaKept
    <3>1. {i \in Query : Open(i)} = {} /\ {i \in Items \ Query : Open(i)} = {}
      BY DEF Open, Absent
    <3> QED  BY <3>1, FS_EmptySet DEF QuotaKept
  <2> QED  BY <2>2, <2>3, <2>4, <2>5, <2>6, <2>7 DEF RemindersInv
<1>2. RemindersInv /\ [Next]_vars => RemindersInv'
  <2> SUFFICES ASSUME RemindersInv, [Next]_vars PROVE RemindersInv'  OBVIOUS
  <2>1. TypeOK'  BY ListStep, JobsStep, SendsStep, RunStep DEF TypeOK
  <2>2. JobsTyped'  BY JobsStep, RunStep DEF JobsTyped
  <2>3. OneJobPerItem'  BY JobsStep DEF OneJobPerItem
  <2> QED  BY <2>1, <2>2, <2>3, TextsStep, SentStep, QuotaStep DEF RemindersInv
<1> QED  BY <1>1, <1>2, PTL DEF Spec

\* No item is worked on twice at a time, a reminder is sent once, and nobody
\* has more than the quota (claimDueReminders, addOneTimeReminders).
THEOREM RemindersAreSafe == Spec => []RemindersSafe
<1>1. RemindersInv => RemindersSafe
  BY DEF RemindersInv, RemindersSafe, SentIsDone, RemindsOnce
<1> QED  BY <1>1, RemindersAreSound, PTL

\* A late result never undoes what a user did to its item meanwhile
\* (finishScheduledQuery, markDeliveredReminder, storeScheduledQueryPending).
THEOREM UsersHaveTheLastWord == Spec => UserChangesStick
<1>1. RemindersInv /\ [Next]_vars
        => [edits' = edits =>
              \A i \in Items : list[i].kept =>
                 /\ list'[i].kept
                 /\ list'[i].cancelled = list[i].cancelled
                 /\ list'[i].text = list[i].text]_vars
  <2> SUFFICES ASSUME RemindersInv, [Next]_vars, edits' = edits,
                      NEW i \in Items, list[i].kept
               PROVE  /\ list'[i].kept
                      /\ list'[i].cancelled = list[i].cancelled
                      /\ list'[i].text = list[i].text
    OBVIOUS
  <2>1. CASE \E k \in Items : Add(k)  BY <2>1, AddGives DEF Absent
  <2>2. CASE Worked  BY <2>2 DEF Worked, Same
  <2>3. ~Edited  BY ItemConstants DEF Edited, RemindersInv, TypeOK
  <2> QED  BY <2>1, <2>2, <2>3, ListStep
<1> QED  BY <1>1, RemindersAreSound, PTL DEF Spec, UserChangesStick

-----------------------------------------------------------------------------
(* The files: the invariant. *)

FileIds == Nat \X Nat
Requests == [how : {"url", "name", "file_id", "file"}, id : FileIds]
Lookups ==
    {l \in [at : {"idle", "ignored", "next", "ask", "history", "read", "task", "context"},
            refs : Seq(References), nth : Nat \ {0}, id : FileIds, asks : Seq(Requests),
            renewed : BOOLEAN, seq : Nat, page : Nat, place : Nat, late : BOOLEAN, clear : BOOLEAN] :
        l.page > 0 => l.seq \in DOMAIN log}
Results == [ref : References, place : Nat, as : {"text", "scanned", "error"}, clear : BOOLEAN]
AtWork == lookup.at \in {"ask", "history", "read"}

LookupTyped ==
    /\ log \in GroupLogs
    /\ napcat \in [run : Nat, ids : SUBSET FileIds, disk : SUBSET Uploads]
    /\ lookup \in Lookups /\ readings \in Seq(Results) /\ refusals \in Nat
    /\ \A i \in DOMAIN lookup.refs : lookup.refs[i].message \in Uploads
    /\ AtWork => lookup.nth <= Len(lookup.refs)

\* What is asked for, and what was found, has the name of what is meant.
RightName ==
    /\ lookup.at \in {"ask", "history"} => lookup.id[1] \in Uploads /\ log[lookup.id[1]] = Name
    /\ \A i \in DOMAIN lookup.asks : lookup.asks[i].id = lookup.id
    /\ lookup.at \in {"ask", "history"} => lookup.place = 0
    /\ lookup.at = "read" /\ lookup.place # 0 => lookup.place \in Uploads /\ log[lookup.place] = Name

\* The file is on a page that is still to come.
StillAhead ==
    /\ lookup.page < MaxPages
    /\ lookup.page > 0 =>
          /\ Ref.message < lookup.seq /\ lookup.seq <= Len(log)
          /\ lookup.seq <= Len(log) - PageSize - (lookup.page - 1) * (PageSize - 1) + 1

\* With nothing in the way, a request that will be answered is still to be made.
WillBeFound ==
    AtWork /\ lookup.clear /\ Ref.grouped /\ InReach(Ref.message) =>
        /\ ~lookup.late
        /\ lookup.at = "ask" /\ ~lookup.renewed => lookup.page = 0
        /\ lookup.at = "ask" /\ lookup.renewed =>
              /\ lookup.id[2] = napcat.run /\ lookup.id \in napcat.ids
              /\ lookup.asks # <<>> /\ lookup.asks[Len(lookup.asks)].how = "file"
        /\ lookup.at = "history" => StillAhead
        /\ lookup.at = "read" => lookup.place # 0

LookupInv == LookupTyped /\ RightName /\ WillBeFound /\ FileIsFound

-----------------------------------------------------------------------------
(* The files: the references that are kept. *)

\* kept is what Kept has taken of each of the first n references.
Wanted(refs, ref, parcel) ==
    /\ ref.from # "recent" \/ parcel.mentions
    /\ log[ref.message] \notin Unreadable
    /\ \A i \in DOMAIN refs : Key(refs[i]) # Key(ref)
OneMore(refs, parcel, n) ==
    IF Wanted(refs, parcel.refs[n], parcel) THEN Append(refs, parcel.refs[n]) ELSE refs
Keeping(kept, parcel, last) ==
    kept = [n \in 0 .. last |-> IF n = 0 THEN <<>> ELSE OneMore(kept[n - 1], parcel, n)]

LEMMA KeepingExtends ==
    ASSUME NEW parcel, NEW n \in Nat, NEW kept, Keeping(kept, parcel, n)
    PROVE  \E e : Keeping(e, parcel, n + 1)
<1> DEFINE e == [i \in 0 .. n + 1 |-> IF i = n + 1 THEN OneMore(kept[n], parcel, i) ELSE kept[i]]
<1>1. ASSUME NEW i \in 0 .. n + 1
      PROVE  e[i] = IF i = 0 THEN <<>> ELSE OneMore(e[i - 1], parcel, i)
  <2>1. CASE i = n + 1
    <3>1. i # 0 /\ i - 1 = n /\ n \in 0 .. n + 1 /\ n # n + 1  BY <2>1
    <3> QED  BY <2>1, <3>1
  <2>2. CASE i # n + 1 /\ i = 0
    <3>1. 0 \in 0 .. n  OBVIOUS
    <3> QED  BY <2>2, <3>1 DEF Keeping
  <2>3. CASE i # n + 1 /\ i # 0
    <3>1. i \in 0 .. n /\ i - 1 \in 0 .. n /\ i - 1 \in 0 .. n + 1 /\ i - 1 # n + 1  BY <2>3
    <3>2. kept[i] = OneMore(kept[i - 1], parcel, i)  BY <2>3, <3>1 DEF Keeping
    <3> QED  BY <2>3, <3>1, <3>2
  <2> QED  BY <2>1, <2>2, <2>3
<1>2. e = [i \in 0 .. n + 1 |-> IF i = 0 THEN <<>> ELSE OneMore(e[i - 1], parcel, i)]
  BY <1>1
<1> HIDE DEF e
<1> QED  BY <1>2 DEF Keeping

\* What is kept are files of the mail.
LEMMA KeptAreReferred ==
    ASSUME NEW A, NEW parcel, parcel.refs \in Seq(A),
           NEW P, \A i \in DOMAIN parcel.refs : parcel.refs[i] \in P
    PROVE  Kept(parcel) \in Seq(P)
<1> DEFINE last == Len(parcel.refs)
           T == {n \in Nat \ {0} : \E kept : Keeping(kept, parcel, n - 1)}
<1>1. last \in Nat /\ DOMAIN parcel.refs = 1 .. last  BY LenProperties
<1>2. 1 \in T
  <2>1. Keeping([n \in 0 .. 0 |-> <<>>], parcel, 0)  BY DEF Keeping
  <2> QED  BY <2>1
<1>3. \A n \in T \cap Nat : n + 1 \in T
  <2> TAKE n \in T \cap Nat
  <2>1. PICK kept : Keeping(kept, parcel, n - 1)  OBVIOUS
  <2>2. n - 1 \in Nat /\ (n - 1) + 1 = (n + 1) - 1 /\ n + 1 \in Nat \ {0}  OBVIOUS
  <2>3. \E e : Keeping(e, parcel, (n - 1) + 1)  BY <2>1, <2>2, KeepingExtends
  <2> QED  BY <2>2, <2>3
<1>4. \E kept : Keeping(kept, parcel, last)
  <2> HIDE DEF T, last
  <2>1. last + 1 \in T  BY <1>1, <1>2, <1>3, Counting
  <2>2. (last + 1) - 1 = last  BY <1>1
  <2> QED  BY <2>1, <2>2 DEF T
<1>5. Kept(parcel) = (CHOOSE kept : Keeping(kept, parcel, last))[last]
  BY DEF Kept, Keeping, OneMore, Wanted
<1> HIDE DEF T, last
<1>6. PICK kept : Keeping(kept, parcel, last) /\ Kept(parcel) = kept[last]
  BY <1>4, <1>5
<1> DEFINE S == {n \in Nat \ {0} : n - 1 <= last => kept[n - 1] \in Seq(P)}
<1>7. 1 \in S
  <2>1. kept[0] = <<>>  BY <1>1, <1>6 DEF Keeping
  <2>2. <<>> \in Seq(P)  BY EmptySeq
  <2>3. kept[0] \in Seq(P)  BY <2>1, <2>2
  <2> DEFINE none == 1 - 1
  <2>4. none = 0  OBVIOUS
  <2> HIDE DEF none
  <2>5. kept[none] \in Seq(P)  BY <2>3, <2>4
  <2> QED  BY <2>5 DEF none
<1>8. \A n \in S \cap Nat : n + 1 \in S
  <2> TAKE n \in S \cap Nat
  <2>1. n \in Nat \ {0} /\ n + 1 \in Nat \ {0} /\ (n + 1) - 1 = n  OBVIOUS
  <2> SUFFICES ASSUME n <= last  PROVE kept[n] \in Seq(P)
    BY <2>1
  <2>2. kept[n - 1] \in Seq(P)  BY <1>1, <2>1
  <2>3. kept[n] = OneMore(kept[n - 1], parcel, n)
    <3>1. n \in 0 .. last /\ n # 0  BY <1>1, <2>1
    <3> QED  BY <1>6, <3>1 DEF Keeping
  <2>4. parcel.refs[n] \in P  BY <1>1, <2>1
  <2> HIDE DEF S
  <2> QED  BY <2>2, <2>3, <2>4, AppendProperties DEF OneMore
<1> HIDE DEF S
<1>9. last + 1 \in S  BY <1>1, <1>7, <1>8, Counting
<1>10. (last + 1) - 1 = last  BY <1>1
<1> QED  BY <1>1, <1>6, <1>9, <1>10 DEF S

-----------------------------------------------------------------------------
(* The files: proofs. *)

LEMMA TheLog ==
    ASSUME LookupTyped
    PROVE  /\ Len(log) \in Nat /\ DOMAIN log = 1 .. Len(log)
           /\ Uploads \subseteq 1 .. Len(log) /\ Uploads \subseteq Nat
<1>1. log \in Seq(Range(log))  BY LookupAssumption DEF LookupTyped
<1>2. Len(log) \in Nat /\ DOMAIN log = 1 .. Len(log)  BY <1>1, LenProperties
<1> QED  BY <1>2 DEF Uploads

LEMMA TheRef ==
    ASSUME LookupTyped, lookup.nth <= Len(lookup.refs)
    PROVE  Ref \in References /\ Ref.message \in Uploads
<1>1. lookup.refs \in Seq(References) /\ lookup.nth \in Nat \ {0}
  BY DEF LookupTyped, Lookups
<1>2. Len(lookup.refs) \in Nat /\ DOMAIN lookup.refs = 1 .. Len(lookup.refs)
  BY <1>1, LenProperties
<1>3. lookup.nth \in 1 .. Len(lookup.refs)  BY <1>1, <1>2
<1>4. lookup.refs[lookup.nth] \in References  BY <1>1, <1>3, ElementOfSeq
<1> QED  BY <1>2, <1>3, <1>4 DEF Ref, LookupTyped

\* The requests are for the id, and the last of them is for the file.
AreFor(asks, id) ==
    /\ asks \in Seq(Requests) /\ asks # <<>> /\ asks[Len(asks)].how = "file"
    /\ \A i \in DOMAIN asks : asks[i].id = id
LEMMA AsksAgainAreFor ==
    ASSUME NEW id \in FileIds
    PROVE  AreFor(AsksAgain(id), id) /\ Len(AsksAgain(id)) = 3
<1> DEFINE asks == AsksAgain(id)
<1>1. Len(asks) = 3 /\ DOMAIN asks = 1 .. 3  BY DEF AsksAgain
<1>2. /\ asks[1] = [how |-> "name", id |-> id] /\ asks[2] = [how |-> "file_id", id |-> id]
      /\ asks[3] = [how |-> "file", id |-> id]
  BY DEF AsksAgain
<1>3. asks \in Seq(Requests)  BY DEF AsksAgain, Requests
<1>4. asks # <<>>  BY <1>1
<1> HIDE DEF asks
<1>5. \A i \in 1 .. 3 : i = 1 \/ i = 2 \/ i = 3  OBVIOUS
<1>6. \A i \in DOMAIN asks : asks[i].id = id  BY <1>1, <1>2, <1>5
<1>7. asks[Len(asks)].how = "file"  BY <1>1, <1>2
<1>8. AreFor(asks, id) /\ Len(asks) = 3  BY <1>1, <1>3, <1>4, <1>6, <1>7 DEF AreFor
<1> QED  BY <1>8 DEF asks

LEMMA AsksAreFor ==
    ASSUME NEW id \in FileIds
    PROVE  AreFor(Asks(id), id)
<1> DEFINE again == AsksAgain(id)  url == <<[how |-> "url", id |-> id]>>
<1>1. AreFor(again, id) /\ Len(again) = 3  BY AsksAgainAreFor
<1>2. CASE ~Ref.grouped
  <2>1. again \in Seq(Requests)  BY <1>1 DEF AreFor
  <2> HIDE DEF again
  <2>2. <<>> \o again = again  BY <2>1, ConcatEmptySeq
  <2>3. Asks(id) = again  BY <1>2, <2>2 DEF Asks, again
  <2> QED  BY <1>1, <2>3
<1>3. CASE Ref.grouped
  <2>1. url \in Seq(Requests) /\ Len(url) = 1 /\ url[1].id = id  BY DEF Requests
  <2>2. again \in Seq(Requests)  BY <1>1 DEF AreFor
  <2>3. Asks(id) = url \o again  BY <1>3 DEF Asks
  <2> HIDE DEF url, again
  <2> DEFINE asks == url \o again
  <2>4. /\ asks \in Seq(Requests) /\ Len(asks) = Len(url) + Len(again)
        /\ \A i \in 1 .. Len(url) + Len(again) :
              asks[i] = IF i <= Len(url) THEN url[i] ELSE again[i - Len(url)]
    BY <2>1, <2>2, ConcatProperties
  <2> HIDE DEF asks
  <2>5. Len(asks) = 4 /\ \A i \in 1 .. 4 : asks[i] = IF i <= 1 THEN url[i] ELSE again[i - 1]
    BY <1>1, <2>1, <2>4
  <2>6. DOMAIN asks = 1 .. 4  BY <2>4, <2>5, LenProperties
  <2>7. asks[1] = url[1] /\ asks[4] = again[3]  BY <2>5
  <2>8. DOMAIN again = 1 .. 3  BY <1>1, <2>2, LenProperties
  <2>9. \A i \in 1 .. 4 : asks[i].id = id
    <3> TAKE i \in 1 .. 4
    <3>1. CASE i = 1
      BY <2>1, <2>7, <3>1
    <3>2. CASE i # 1
      <4>1. i - 1 \in 1 .. 3 /\ ~(i <= 1)  BY <3>2
      <4> QED  BY <1>1, <2>5, <2>8, <4>1 DEF AreFor
    <3> QED  BY <3>1, <3>2
  <2>10. asks[Len(asks)].how = "file"  BY <1>1, <2>5, <2>7 DEF AreFor
  <2>11. asks # <<>>  BY <2>5
  <2>12. AreFor(asks, id)  BY <2>4, <2>6, <2>9, <2>10, <2>11 DEF AreFor
  <2> QED  BY <2>3, <2>12 DEF asks
<1> QED  BY <1>2, <1>3

LEMMA RenewedIs ==
    ASSUME lookup \in Lookups, NEW id \in FileIds
    PROVE  LET r == Renewed(id) IN
           /\ r \in Lookups /\ r.at = "ask" /\ r.renewed /\ r.id = id /\ AreFor(r.asks, id)
           /\ r.refs = lookup.refs /\ r.nth = lookup.nth /\ r.page = lookup.page
           /\ r.seq = lookup.seq /\ r.place = lookup.place /\ r.late = lookup.late
           /\ r.clear = lookup.clear
<1> DEFINE asks == AsksAgain(id)
<1>1. AreFor(asks, id)  BY AsksAgainAreFor
<1>2. Renewed(id) = [lookup EXCEPT !.at = "ask", !.renewed = TRUE, !.id = id, !.asks = asks]
  BY DEF Renewed
<1> HIDE DEF asks
<1>3. asks \in Seq(Requests)  BY <1>1 DEF AreFor
<1>4. Renewed(id) \in Lookups  BY <1>2, <1>3 DEF Lookups
<1> QED  BY <1>1, <1>2, <1>4 DEF Lookups

LEMMA LookupBegins ==
    ASSUME LookupInit
    PROVE  LookupInv
<1>1. log \in GroupLogs /\ lookup = NoLookup /\ readings = <<>> /\ refusals = 0
  BY DEF LookupInit
<1>2. log \in Seq(Range(log))  BY <1>1, LookupAssumption
<1>3. Uploads \subseteq Nat  BY <1>2, LenProperties DEF Uploads
<1>4. napcat \in [run : Nat, ids : SUBSET FileIds, disk : SUBSET Uploads]
  <2>1. PICK disk \in SUBSET Uploads :
           napcat = [run |-> 0, ids |-> {<<m, 0>> : m \in Uploads}, disk |-> disk]
    BY DEF LookupInit
  <2>2. {<<m, 0>> : m \in Uploads} \subseteq FileIds  BY <1>3 DEF FileIds
  <2> QED  BY <2>1, <2>2
<1>5. /\ NoLookup.at = "idle" /\ NoLookup.refs = <<>> /\ NoLookup.asks = <<>>
  BY DEF NoLookup
<1>6. NoLookup \in Lookups
  <2>1. <<>> \in Seq(References) /\ <<>> \in Seq(Requests)  BY EmptySeq
  <2>2. <<0, 0>> \in FileIds  BY DEF FileIds
  <2> QED  BY <2>1, <2>2 DEF NoLookup, Lookups
<1>7. readings \in Seq(Results)  BY <1>1, EmptySeq
<1>8. LookupTyped  BY <1>1, <1>4, <1>5, <1>6, <1>7 DEF LookupTyped, AtWork
<1>9. RightName  BY <1>1, <1>5 DEF RightName
<1>10. WillBeFound  BY <1>1, <1>5 DEF WillBeFound, AtWork
<1>11. FileIsFound  BY <1>1 DEF FileIsFound
<1> QED  BY <1>8, <1>9, <1>10, <1>11 DEF LookupInv

\* What stays, with the log, what was read and what is referred to.
LEMMA WhatStays ==
    ASSUME LookupInv, UNCHANGED <<log, readings>>, lookup'.refs = lookup.refs
    PROVE  /\ Uploads' = Uploads /\ FileIsFound'
           /\ lookup'.nth = lookup.nth => Ref' = Ref /\ Name' = Name
           /\ lookup' \in Lookups /\ refusals' \in Nat
              /\ napcat' \in [run : Nat, ids : SUBSET FileIds, disk : SUBSET Uploads]
              /\ (AtWork' => lookup'.nth <= Len(lookup.refs)) => LookupTyped'
<1>1. Uploads' = Uploads  BY DEF Uploads
<1>2. FileIsFound'  BY DEF LookupInv, FileIsFound, InReach
<1>3. lookup'.nth = lookup.nth => Ref' = Ref /\ Name' = Name  BY DEF Ref, Name
<1>4. LookupTyped  BY DEF LookupInv
<1>5. Lookups' = Lookups  BY DEF Lookups
<1> QED  BY <1>1, <1>2, <1>3, <1>4, <1>5 DEF LookupTyped

LEMMA NapCatRestarts ==
    ASSUME LookupInv, RestartNapCat
    PROVE  LookupInv'
<1>1. /\ napcat' = [napcat EXCEPT !.run = @ + 1, !.ids = {}]
      /\ lookup' = [lookup EXCEPT !.clear = FALSE] /\ UNCHANGED <<log, readings, refusals>>
  BY DEF RestartNapCat
<1>2. LookupTyped /\ RightName  BY DEF LookupInv
<1>3. /\ lookup' \in Lookups /\ lookup'.refs = lookup.refs /\ lookup'.nth = lookup.nth
      /\ lookup'.at = lookup.at /\ lookup'.id = lookup.id /\ lookup'.asks = lookup.asks
      /\ lookup'.place = lookup.place /\ lookup'.clear = FALSE
  BY <1>1, <1>2 DEF LookupTyped, Lookups
<1>4. napcat' \in [run : Nat, ids : SUBSET FileIds, disk : SUBSET Uploads]
  <2>1. napcat \in [run : Nat, ids : SUBSET FileIds, disk : SUBSET Uploads]
    BY <1>2 DEF LookupTyped
  <2>2. napcat' = [run |-> napcat.run + 1, ids |-> {}, disk |-> napcat.disk]  BY <1>1, <2>1
  <2>3. napcat.run + 1 \in Nat /\ napcat.disk \in SUBSET Uploads  BY <2>1
  <2> QED  BY <2>2, <2>3
<1>5. refusals' \in Nat /\ (AtWork' => lookup'.nth <= Len(lookup.refs))
  BY <1>1, <1>2, <1>3 DEF LookupTyped, AtWork
<1>6. LookupTyped' /\ FileIsFound' /\ Uploads' = Uploads /\ Name' = Name
  BY <1>1, <1>3, <1>4, <1>5, WhatStays
<1>7. RightName'  BY <1>1, <1>2, <1>3, <1>6 DEF RightName
<1>8. WillBeFound'  BY <1>3 DEF WillBeFound
<1> QED  BY <1>6, <1>7, <1>8 DEF LookupInv

LEMMA FilesAreCollected ==
    ASSUME LookupInv, NEW parcel \in Parcels, CollectFiles(parcel)
    PROVE  LookupInv'
<1> DEFINE kept == Kept(parcel)  at == IF kept = <<>> THEN "ignored" ELSE "next"
<1>1. lookup' = [NoLookup EXCEPT !.refs = kept, !.at = at] /\ UNCHANGED <<log, napcat, readings, refusals>>
  BY DEF CollectFiles
<1>2. LookupTyped  BY DEF LookupInv
<1>3. kept \in Seq({ref \in References : ref.message \in Uploads})
  <2>1. parcel.refs \in Seq(References)  BY LookupAssumption
  <2>2. \A i \in DOMAIN parcel.refs : parcel.refs[i] \in {ref \in References : ref.message \in Uploads}
    <3> TAKE i \in DOMAIN parcel.refs
    <3>1. i \in 1 .. Len(parcel.refs)  BY <2>1, LenProperties
    <3>2. parcel.refs[i] \in References  BY <2>1, <3>1, ElementOfSeq
    <3> QED  BY <3>2 DEF CollectFiles
  <2> HIDE DEF kept
  <2>3. Kept(parcel) \in Seq({ref \in References : ref.message \in Uploads})
    BY <2>1, <2>2, KeptAreReferred
  <2> QED  BY <2>3 DEF kept
<1>0. at \in {"ignored", "next"}  OBVIOUS
<1> HIDE DEF kept, at
<1>4. kept \in Seq(References)  BY <1>3, SeqMonotonic
<1>5. \A i \in DOMAIN kept : kept[i].message \in Uploads
  <2>1. DOMAIN kept = 1 .. Len(kept)  BY <1>3, LenProperties
  <2>2. \A i \in 1 .. Len(kept) : kept[i] \in {ref \in References : ref.message \in Uploads}
    BY <1>3, ElementOfSeq
  <2> QED  BY <2>1, <2>2
<1>6. NoLookup \in Lookups /\ NoLookup.asks = <<>>
  <2>1. <<>> \in Seq(References) /\ <<>> \in Seq(Requests)  BY EmptySeq
  <2>2. <<0, 0>> \in FileIds  BY DEF FileIds
  <2> QED  BY <2>1, <2>2 DEF NoLookup, Lookups
<1>7. lookup' \in Lookups /\ lookup'.refs = kept /\ lookup'.at = at /\ lookup'.asks = <<>>
  BY <1>0, <1>1, <1>4, <1>6 DEF Lookups
<1>8. ~AtWork' /\ lookup'.at \in {"ignored", "next"}  BY <1>0, <1>7 DEF AtWork
<1>9. Uploads' = Uploads /\ Lookups' = Lookups  BY <1>1 DEF Uploads, Lookups
<1>10. LookupTyped'  BY <1>1, <1>2, <1>5, <1>7, <1>8, <1>9 DEF LookupTyped
<1>11. RightName'  BY <1>7, <1>8 DEF RightName
<1>12. WillBeFound'  BY <1>8 DEF WillBeFound
<1>13. FileIsFound'  BY <1>1 DEF LookupInv, FileIsFound, InReach
<1> QED  BY <1>10, <1>11, <1>12, <1>13 DEF LookupInv

LEMMA FileBegins ==
    ASSUME LookupInv, BeginFile
    PROVE  LookupInv'
<1> DEFINE id == <<Ref.message, 0>>  asks == IF Ref.linked THEN <<>> ELSE Asks(id)
           at == IF Ref.linked THEN "read" ELSE "ask"
           place == IF Ref.linked THEN Ref.message ELSE 0
<1>1. /\ lookup.nth <= Len(lookup.refs) /\ UNCHANGED <<log, napcat, readings, refusals>>
      /\ lookup' = [NoLookup EXCEPT !.refs = lookup.refs, !.nth = lookup.nth, !.id = id,
                       !.at = at, !.asks = asks, !.place = place]
  BY DEF BeginFile
<1>2. LookupTyped /\ lookup \in Lookups /\ lookup.refs \in Seq(References) /\ lookup.nth \in Nat \ {0}
  BY DEF LookupInv, LookupTyped, Lookups
<1>3. Ref \in References /\ Ref.message \in Uploads /\ Ref.message \in Nat \ {0}
  BY <1>1, <1>2, TheRef, TheLog
<1>4. id \in FileIds /\ id[1] = Ref.message  BY <1>3 DEF FileIds
<1>5. asks \in Seq(Requests) /\ \A i \in DOMAIN asks : asks[i].id = id
  <2>1. CASE Ref.linked
    BY <2>1, EmptySeq
  <2>2. CASE ~Ref.linked
    <3>1. AreFor(Asks(id), id)  BY <1>4, AsksAreFor
    <3> QED  BY <2>2, <3>1 DEF AreFor
  <2> QED  BY <2>1, <2>2
<1>6. /\ at \in {"read", "ask"} /\ place \in Nat /\ (at = "ask" => ~Ref.linked /\ place = 0)
      /\ at = "read" => place = Ref.message
  BY <1>3
<1> HIDE DEF id, asks, at, place
<1>7. NoLookup \in Lookups /\ ~NoLookup.renewed /\ ~NoLookup.late /\ NoLookup.page = 0
  <2>1. <<>> \in Seq(References) /\ <<>> \in Seq(Requests)  BY EmptySeq
  <2>2. <<0, 0>> \in FileIds  BY DEF FileIds
  <2> QED  BY <2>1, <2>2 DEF NoLookup, Lookups
<1>8. lookup' \in Lookups
  BY <1>1, <1>2, <1>4, <1>5, <1>6, <1>7 DEF Lookups
<1>9. /\ lookup'.refs = lookup.refs /\ lookup'.nth = lookup.nth /\ lookup'.id = id
      /\ lookup'.at = at /\ lookup'.asks = asks /\ lookup'.place = place
      /\ ~lookup'.renewed /\ ~lookup'.late /\ lookup'.page = 0
  BY <1>1, <1>7 DEF Lookups
<1>10. LookupTyped' /\ FileIsFound' /\ Uploads' = Uploads /\ Ref' = Ref /\ Name' = Name
  <2>1. napcat' \in [run : Nat, ids : SUBSET FileIds, disk : SUBSET Uploads] /\ refusals' \in Nat
    BY <1>1, <1>2 DEF LookupTyped
  <2> QED  BY <1>1, <1>8, <1>9, <2>1, WhatStays
<1>11. log[Ref.message] = Name  BY DEF Name
<1>12. RightName'
  BY <1>1, <1>3, <1>4, <1>5, <1>6, <1>9, <1>10, <1>11 DEF RightName
<1>13. WillBeFound'  BY <1>3, <1>6, <1>9, <1>10 DEF WillBeFound
<1> QED  BY <1>10, <1>12, <1>13 DEF LookupInv

\* What NapCat gives is a file with the name that is asked for.
LEMMA GivenHasTheName ==
    ASSUME LookupInv, lookup.at = "ask", lookup.asks # <<>>,
           NEW m \in GivenFor(Head(lookup.asks))
    PROVE  m \in Uploads /\ log[m] = Name
<1> DEFINE ask == Head(lookup.asks)
<1>1. lookup.asks \in Seq(Requests) /\ napcat.disk \subseteq Uploads
  BY DEF LookupInv, LookupTyped, Lookups
<1>2. ask = lookup.asks[1] /\ 1 \in DOMAIN lookup.asks
  <2>1. Len(lookup.asks) \in Nat /\ DOMAIN lookup.asks = 1 .. Len(lookup.asks) /\ Len(lookup.asks) # 0
    BY <1>1, LenProperties, EmptySeq
  <2>2. Head(lookup.asks) = lookup.asks[1]  BY <1>1, HeadTailProperties
  <2> QED  BY <2>1, <2>2
<1>3. ask.id = lookup.id /\ lookup.id[1] \in Uploads /\ log[lookup.id[1]] = Name
  BY <1>2 DEF LookupInv, RightName
<1> HIDE DEF ask
<1>4. CASE ask.how = "name"
  BY <1>1, <1>4 DEF GivenFor, ask
<1>5. CASE ask.how # "name"
  <2>1. m \in Uploads /\ ask.id = <<m, napcat.run>>  BY <1>5 DEF GivenFor, ask
  <2>2. lookup.id[1] = m  BY <1>3, <2>1
  <2> QED  BY <1>3, <2>1, <2>2
<1> QED  BY <1>4, <1>5

LEMMA FileIsGot ==
    ASSUME LookupInv, GetFile
    PROVE  LookupInv'
<1>1. PICK m \in GivenFor(Head(lookup.asks)) :
          /\ lookup' = [lookup EXCEPT !.at = "read", !.place = m]
          /\ napcat' = IF Head(lookup.asks).how = "url" THEN napcat
                       ELSE [napcat EXCEPT !.disk = @ \cup {m}]
  BY DEF GetFile
<1>2. LookupTyped /\ RightName /\ UNCHANGED <<log, readings, refusals>> /\ lookup.at = "ask"
      /\ lookup.asks # <<>>
  BY DEF GetFile, LookupInv
<1>3. m \in Uploads /\ log[m] = Name  BY <1>2, GivenHasTheName
<1>4. m \in Nat \ {0}  BY <1>2, <1>3, TheLog
<1>5. /\ lookup' \in Lookups /\ lookup'.refs = lookup.refs /\ lookup'.nth = lookup.nth
      /\ lookup'.at = "read" /\ lookup'.place = m /\ lookup'.asks = lookup.asks
      /\ lookup'.id = lookup.id /\ lookup'.late = lookup.late /\ lookup'.clear = lookup.clear
  BY <1>1, <1>2, <1>4 DEF LookupTyped, Lookups
<1>6. napcat' \in [run : Nat, ids : SUBSET FileIds, disk : SUBSET Uploads]
  <2>1. napcat \in [run : Nat, ids : SUBSET FileIds, disk : SUBSET Uploads]
    BY <1>2 DEF LookupTyped
  <2> QED  BY <1>1, <1>3, <2>1
<1>7. refusals' \in Nat /\ lookup'.nth <= Len(lookup.refs)
  BY <1>2, <1>5 DEF LookupTyped, AtWork
<1>8. LookupTyped' /\ FileIsFound' /\ Uploads' = Uploads /\ Ref' = Ref /\ Name' = Name
  BY <1>2, <1>5, <1>6, <1>7, WhatStays
<1>9. RightName'  BY <1>2, <1>3, <1>5, <1>8 DEF RightName
<1>10. WillBeFound'  BY <1>2, <1>4, <1>5, <1>8 DEF WillBeFound, LookupInv, AtWork, InReach
<1> QED  BY <1>8, <1>9, <1>10 DEF LookupInv

\* The next request is asked: the rest stays as it is, and the last request if
\* there are any.
LEMMA AskNextIs ==
    ASSUME LookupInv, lookup.at = "ask", lookup.asks # <<>>, NEW next, next = AskNext
    PROVE  /\ next \in Lookups /\ next.refs = lookup.refs /\ next.nth = lookup.nth
           /\ next.at = "ask" /\ next.id = lookup.id /\ next.place = lookup.place
           /\ next.renewed = lookup.renewed /\ next.page = lookup.page /\ next.seq = lookup.seq
           /\ next.late = lookup.late /\ next.clear = lookup.clear
           /\ \A i \in DOMAIN next.asks : next.asks[i].id = lookup.id
           /\ next.asks # <<>> => next.asks[Len(next.asks)] = lookup.asks[Len(lookup.asks)]
           /\ next.asks = <<>> => Head(lookup.asks) = lookup.asks[Len(lookup.asks)]
<1> DEFINE asks == lookup.asks  rest == Tail(asks)
<1>1. asks \in Seq(Requests) /\ lookup \in Lookups  BY DEF LookupInv, LookupTyped, Lookups
<1>2. asks # <<>> /\ \A i \in DOMAIN asks : asks[i].id = lookup.id  BY DEF LookupInv, RightName
<1>3. next = [lookup EXCEPT !.asks = rest]  BY DEF AskNext
<1> HIDE DEF asks
<1>4. /\ rest \in Seq(Requests) /\ Len(rest) = Len(asks) - 1 /\ Head(asks) = asks[1]
      /\ \A i \in 1 .. Len(rest) : rest[i] = asks[i + 1]
  BY <1>1, <1>2, HeadTailProperties
<1> HIDE DEF rest
<1>5. /\ next \in Lookups /\ next.asks = rest /\ next.refs = lookup.refs /\ next.nth = lookup.nth
      /\ next.at = "ask" /\ next.id = lookup.id /\ next.place = lookup.place
      /\ next.renewed = lookup.renewed /\ next.page = lookup.page /\ next.seq = lookup.seq
      /\ next.late = lookup.late /\ next.clear = lookup.clear
  BY <1>1, <1>3, <1>4 DEF Lookups
<1>6. /\ Len(asks) \in Nat /\ DOMAIN asks = 1 .. Len(asks)
      /\ Len(rest) \in Nat /\ DOMAIN rest = 1 .. Len(rest)
  BY <1>1, <1>4, LenProperties
<1>7. \A i \in DOMAIN rest : rest[i].id = lookup.id
  <2> TAKE i \in DOMAIN rest
  <2>1. i \in 1 .. Len(rest) /\ i + 1 \in 1 .. Len(asks)  BY <1>4, <1>6
  <2> QED  BY <1>2, <1>4, <1>6, <2>1
<1>8. rest # <<>> => rest[Len(rest)] = asks[Len(asks)]
  <2> SUFFICES ASSUME rest # <<>>  PROVE rest[Len(rest)] = asks[Len(asks)]
    OBVIOUS
  <2>1. Len(rest) # 0  BY <1>4, EmptySeq
  <2>2. Len(rest) \in 1 .. Len(rest) /\ Len(rest) + 1 = Len(asks)  BY <1>4, <1>6, <2>1
  <2> QED  BY <1>4, <2>2
<1>9. rest = <<>> => Head(asks) = asks[Len(asks)]
  <2> SUFFICES ASSUME rest = <<>>  PROVE Head(asks) = asks[Len(asks)]
    OBVIOUS
  <2>1. Len(rest) = 0  BY EmptySeq
  <2>2. Len(asks) = 1  BY <1>4, <1>6, <2>1
  <2> QED  BY <1>4, <2>2
<1> QED  BY <1>5, <1>7, <1>8, <1>9 DEF asks

LEMMA FileIsNotThere ==
    ASSUME LookupInv, NotThere
    PROVE  LookupInv'
<1> DEFINE next == AskNext
<1>1. /\ lookup' = next /\ UNCHANGED <<log, napcat, readings, refusals>>
      /\ lookup.at = "ask" /\ lookup.asks # <<>>
      /\ lookup.late \/ GivenFor(Head(lookup.asks)) = {}
  BY DEF NotThere
<1>2. /\ next \in Lookups /\ next.refs = lookup.refs /\ next.nth = lookup.nth
      /\ next.at = "ask" /\ next.id = lookup.id /\ next.place = lookup.place
      /\ next.renewed = lookup.renewed /\ next.page = lookup.page /\ next.seq = lookup.seq
      /\ next.late = lookup.late /\ next.clear = lookup.clear
      /\ \A i \in DOMAIN next.asks : next.asks[i].id = lookup.id
      /\ next.asks # <<>> => next.asks[Len(next.asks)] = lookup.asks[Len(lookup.asks)]
      /\ next.asks = <<>> => Head(lookup.asks) = lookup.asks[Len(lookup.asks)]
  BY <1>1, AskNextIs
<1> HIDE DEF next
<1>3. LookupTyped /\ RightName /\ WillBeFound  BY DEF LookupInv
<1>4. lookup'.nth <= Len(lookup.refs) /\ refusals' \in Nat
      /\ napcat' \in [run : Nat, ids : SUBSET FileIds, disk : SUBSET Uploads]
  BY <1>1, <1>2, <1>3 DEF LookupTyped, AtWork
<1>5. LookupTyped' /\ FileIsFound' /\ Uploads' = Uploads /\ Ref' = Ref /\ Name' = Name
  BY <1>1, <1>2, <1>4, WhatStays
<1>6. RightName'  BY <1>1, <1>2, <1>3, <1>5 DEF RightName
<1>7. WillBeFound'
  <2> SUFFICES ASSUME lookup'.clear, Ref'.grouped, InReach(Ref.message)
               PROVE  /\ ~lookup'.late
                      /\ ~lookup'.renewed => lookup'.page = 0
                      /\ lookup'.renewed =>
                            /\ lookup'.id[2] = napcat'.run /\ lookup'.id \in napcat'.ids
                            /\ lookup'.asks # <<>> /\ lookup'.asks[Len(lookup'.asks)].how = "file"
    BY <1>1, <1>2, <1>5 DEF WillBeFound, InReach
  <2>1. /\ ~lookup.late /\ (~lookup.renewed => lookup.page = 0)
        /\ lookup.renewed => /\ lookup.id[2] = napcat.run /\ lookup.id \in napcat.ids
                             /\ lookup.asks[Len(lookup.asks)].how = "file"
    BY <1>1, <1>2, <1>3, <1>5 DEF WillBeFound, AtWork
  <2>2. ASSUME lookup.renewed  PROVE next.asks # <<>>
    <3> SUFFICES ASSUME next.asks = <<>>  PROVE FALSE
      OBVIOUS
    <3> DEFINE ask == Head(lookup.asks)
    <3>1. ask = lookup.asks[Len(lookup.asks)] /\ ask.how = "file"  BY <1>2, <2>1, <2>2
    <3>2. ask.id = lookup.id
      <4>1. lookup.asks \in Seq(Requests)  BY <1>3 DEF LookupTyped, Lookups
      <4>2. Len(lookup.asks) \in Nat /\ DOMAIN lookup.asks = 1 .. Len(lookup.asks) /\ Len(lookup.asks) # 0
        BY <1>1, <4>1, LenProperties, EmptySeq
      <4>3. Len(lookup.asks) \in DOMAIN lookup.asks  BY <4>2
      <4> QED  BY <1>3, <3>1, <4>3 DEF RightName
    <3>3. GivenFor(ask) = {}  BY <1>1, <2>1
    <3> HIDE DEF ask
    <3>4. lookup.id \in FileIds /\ lookup.id[1] \in Uploads
      BY <1>1, <1>3 DEF LookupTyped, Lookups, RightName
    <3>5. lookup.id = <<lookup.id[1], napcat.run>>  BY <2>1, <2>2, <3>4 DEF FileIds
    <3>6. lookup.id[1] \in GivenFor(ask)  BY <2>1, <2>2, <3>1, <3>2, <3>4, <3>5 DEF GivenFor
    <3> QED  BY <3>3, <3>6
  <2> QED  BY <1>1, <1>2, <2>1, <2>2
<1> QED  BY <1>5, <1>6, <1>7 DEF LookupInv

LEMMA RequestFails ==
    ASSUME LookupInv, CallFails
    PROVE  LookupInv'
<1> DEFINE next == AskNext
<1>1. /\ lookup' = [next EXCEPT !.clear = FALSE] /\ UNCHANGED <<log, napcat, readings>>
      /\ refusals' = refusals + 1 /\ lookup.at = "ask" /\ lookup.asks # <<>>
  BY DEF CallFails, Refusal
<1>2. /\ next \in Lookups /\ next.refs = lookup.refs /\ next.nth = lookup.nth
      /\ next.at = "ask" /\ next.id = lookup.id /\ next.place = lookup.place
      /\ \A i \in DOMAIN next.asks : next.asks[i].id = lookup.id
  BY <1>1, AskNextIs
<1> HIDE DEF next
<1>3. LookupTyped /\ RightName  BY DEF LookupInv
<1>4. /\ lookup' \in Lookups /\ lookup'.refs = lookup.refs /\ lookup'.nth = lookup.nth
      /\ lookup'.at = "ask" /\ lookup'.id = lookup.id /\ lookup'.asks = next.asks
      /\ lookup'.clear = FALSE
  BY <1>1, <1>2 DEF Lookups
<1>5. lookup'.nth <= Len(lookup.refs) /\ refusals' \in Nat
      /\ napcat' \in [run : Nat, ids : SUBSET FileIds, disk : SUBSET Uploads]
  BY <1>1, <1>3, <1>4 DEF LookupTyped, AtWork
<1>6. LookupTyped' /\ FileIsFound' /\ Uploads' = Uploads /\ Name' = Name
  BY <1>1, <1>4, <1>5, WhatStays
<1>7. RightName'  BY <1>1, <1>2, <1>3, <1>4, <1>6 DEF RightName
<1>8. WillBeFound'  BY <1>4 DEF WillBeFound
<1> QED  BY <1>6, <1>7, <1>8 DEF LookupInv

LEMMA TimeIsUp ==
    ASSUME LookupInv, TimeIsOver
    PROVE  LookupInv'
<1>1. /\ lookup' = [lookup EXCEPT !.late = TRUE, !.clear = FALSE] /\ UNCHANGED <<log, napcat, readings>>
      /\ refusals' = refusals + 1 /\ lookup.at \in {"ask", "history"}
  BY DEF TimeIsOver, Refusal
<1>2. LookupTyped /\ RightName  BY DEF LookupInv
<1>3. /\ lookup' \in Lookups /\ lookup'.refs = lookup.refs /\ lookup'.nth = lookup.nth
      /\ lookup'.at = lookup.at /\ lookup'.id = lookup.id /\ lookup'.asks = lookup.asks
      /\ lookup'.clear = FALSE
  BY <1>1, <1>2 DEF LookupTyped, Lookups
<1>4. lookup'.nth <= Len(lookup.refs) /\ refusals' \in Nat
      /\ napcat' \in [run : Nat, ids : SUBSET FileIds, disk : SUBSET Uploads]
  BY <1>1, <1>2, <1>3 DEF LookupTyped, AtWork
<1>5. LookupTyped' /\ FileIsFound' /\ Uploads' = Uploads /\ Name' = Name
  BY <1>1, <1>3, <1>4, WhatStays
<1>6. RightName'  BY <1>1, <1>2, <1>3, <1>5 DEF RightName
<1>7. WillBeFound'  BY <1>3 DEF WillBeFound
<1> QED  BY <1>5, <1>6, <1>7 DEF LookupInv

LEMMA HistoryIsSearched ==
    ASSUME LookupInv, SearchHistory
    PROVE  LookupInv'
<1>1. /\ lookup.at = "ask" /\ ~lookup.renewed /\ UNCHANGED <<log, napcat, readings, refusals>>
      /\ lookup' = IF Ref.grouped THEN [lookup EXCEPT !.at = "history"] ELSE Renewed(lookup.id)
  BY DEF SearchHistory
<1>2. LookupTyped /\ RightName /\ WillBeFound /\ lookup \in Lookups /\ lookup.id \in FileIds
      /\ lookup.nth <= Len(lookup.refs)
  BY <1>1 DEF LookupInv, LookupTyped, Lookups, AtWork
<1>3. refusals' \in Nat /\ napcat' \in [run : Nat, ids : SUBSET FileIds, disk : SUBSET Uploads]
  BY <1>1, <1>2 DEF LookupTyped
<1>4. CASE Ref.grouped
  <2>1. /\ lookup' \in Lookups /\ lookup'.refs = lookup.refs /\ lookup'.nth = lookup.nth
        /\ lookup'.at = "history" /\ lookup'.id = lookup.id /\ lookup'.asks = lookup.asks
        /\ lookup'.clear = lookup.clear /\ lookup'.late = lookup.late /\ lookup'.page = lookup.page
        /\ lookup'.place = lookup.place
    BY <1>1, <1>2, <1>4 DEF Lookups
  <2>2. LookupTyped' /\ FileIsFound' /\ Uploads' = Uploads /\ Ref' = Ref /\ Name' = Name
    BY <1>1, <1>2, <1>3, <2>1, WhatStays
  <2>3. RightName'  BY <1>1, <1>2, <2>1, <2>2 DEF RightName
  <2>4. WillBeFound'
    <3> SUFFICES ASSUME lookup'.clear, InReach(Ref.message)
                 PROVE  ~lookup'.late /\ StillAhead'
      BY <1>1, <2>1, <2>2 DEF WillBeFound, InReach
    <3>1. ~lookup.late /\ lookup.page = 0  BY <1>1, <1>2, <1>4, <2>1 DEF WillBeFound, AtWork
    <3>2. MaxPages \in Nat \ {0}  BY LookupAssumption
    <3> QED  BY <2>1, <3>1, <3>2 DEF StillAhead
  <2> QED  BY <2>2, <2>3, <2>4 DEF LookupInv
<1>5. CASE ~Ref.grouped
  <2> DEFINE r == Renewed(lookup.id)
  <2>1. /\ r \in Lookups /\ r.at = "ask" /\ r.renewed /\ r.id = lookup.id /\ AreFor(r.asks, lookup.id)
        /\ r.refs = lookup.refs /\ r.nth = lookup.nth /\ r.place = lookup.place
    BY <1>2, RenewedIs
  <2>2. lookup' = r  BY <1>1, <1>5
  <2> HIDE DEF r
  <2>3. LookupTyped' /\ FileIsFound' /\ Uploads' = Uploads /\ Ref' = Ref /\ Name' = Name
    BY <1>1, <1>2, <1>3, <2>1, <2>2, WhatStays
  <2>4. RightName'  BY <1>1, <1>2, <2>1, <2>2, <2>3 DEF RightName, AreFor
  <2>5. WillBeFound'  BY <1>5, <2>3 DEF WillBeFound
  <2> QED  BY <2>3, <2>4, <2>5 DEF LookupInv
<1> QED  BY <1>4, <1>5

\* The requests are made again after the history was looked through: with a
\* new id, or with the old one when something was in the way or the file is
\* not in reach.
LEMMA AsksAfterHistory ==
    ASSUME LookupInv, lookup.at = "history", UNCHANGED <<log, readings>>, refusals' \in Nat,
           napcat' \in [run : Nat, ids : SUBSET FileIds, disk : SUBSET Uploads],
           NEW id \in FileIds, id[1] \in Uploads, log[id[1]] = Name,
           NEW clear \in BOOLEAN,
           lookup' = [Renewed(id) EXCEPT !.clear = clear],
           clear /\ Ref.grouped /\ InReach(Ref.message) =>
              ~lookup.late /\ id[2] = napcat'.run /\ id \in napcat'.ids
    PROVE  LookupInv'
<1> DEFINE r == Renewed(id)
<1>1. lookup \in Lookups /\ lookup.nth <= Len(lookup.refs) /\ lookup.place = 0
  BY DEF LookupInv, LookupTyped, RightName, AtWork
<1>2. /\ r \in Lookups /\ r.at = "ask" /\ r.renewed /\ r.id = id /\ AreFor(r.asks, id)
      /\ r.refs = lookup.refs /\ r.nth = lookup.nth /\ r.late = lookup.late /\ r.place = 0
  BY <1>1, RenewedIs
<1> HIDE DEF r
<1>3. lookup' = [r EXCEPT !.clear = clear]  BY DEF r
<1>4. /\ lookup' \in Lookups /\ lookup'.at = "ask" /\ lookup'.renewed /\ lookup'.id = id
      /\ AreFor(lookup'.asks, id) /\ lookup'.refs = lookup.refs /\ lookup'.nth = lookup.nth
      /\ lookup'.late = lookup.late /\ lookup'.clear = clear /\ lookup'.place = 0
  BY <1>2, <1>3 DEF Lookups
<1>5. LookupTyped' /\ FileIsFound' /\ Uploads' = Uploads /\ Ref' = Ref /\ Name' = Name
  BY <1>1, <1>4, WhatStays
<1>6. RightName'  BY <1>4, <1>5 DEF RightName, AreFor
<1>7. WillBeFound'  BY <1>4, <1>5 DEF WillBeFound, AreFor, InReach
<1> QED  BY <1>5, <1>6, <1>7 DEF LookupInv

LEMMA PageIsNotGiven ==
    ASSUME LookupInv, PageIsRefused
    PROVE  LookupInv'
<1>1. lookup.at = "history" /\ UNCHANGED <<log, napcat, readings>>
  BY DEF PageIsRefused
<1>2. LookupTyped /\ lookup \in Lookups /\ lookup.id \in FileIds /\ refusals \in Nat
      /\ lookup.nth <= Len(lookup.refs) /\ lookup.clear \in BOOLEAN
  BY <1>1 DEF LookupInv, LookupTyped, Lookups, AtWork
<1>3. lookup.id[1] \in Uploads /\ log[lookup.id[1]] = Name
  BY <1>1 DEF LookupInv, RightName
<1>4. napcat' \in [run : Nat, ids : SUBSET FileIds, disk : SUBSET Uploads]
  BY <1>1, <1>2 DEF LookupTyped
<1> DEFINE r == Renewed(lookup.id)
<1>5. CASE lookup.late /\ UNCHANGED refusals /\ lookup' = r
  <2>1. r \in Lookups /\ r.clear = lookup.clear  BY <1>2, RenewedIs
  <2> HIDE DEF r
  <2>2. lookup' = [r EXCEPT !.clear = lookup.clear]  BY <1>5, <2>1 DEF Lookups
  <2>3. ~(lookup.clear /\ Ref.grouped /\ InReach(Ref.message))
    BY <1>1, <1>5 DEF LookupInv, WillBeFound, AtWork
  <2> QED  BY <1>1, <1>2, <1>3, <1>4, <1>5, <2>2, <2>3, AsksAfterHistory DEF r
<1>6. CASE Refusal /\ lookup' = [r EXCEPT !.clear = FALSE]
  <2>1. refusals' \in Nat  BY <1>2, <1>6 DEF Refusal
  <2> QED  BY <1>1, <1>2, <1>3, <1>4, <1>6, <2>1, AsksAfterHistory
<1> QED  BY <1>5, <1>6 DEF PageIsRefused

LEMMA NothingFound ==
    ASSUME LookupInv, NowhereFound
    PROVE  LookupInv'
<1>1. /\ lookup.at = "ask" /\ lookup.asks = <<>> /\ lookup.renewed
      /\ lookup' = [lookup EXCEPT !.at = "read"] /\ UNCHANGED <<log, napcat, readings, refusals>>
  BY DEF NowhereFound
<1>2. LookupTyped /\ RightName /\ WillBeFound /\ lookup \in Lookups
      /\ lookup.nth <= Len(lookup.refs) /\ refusals' \in Nat
      /\ napcat' \in [run : Nat, ids : SUBSET FileIds, disk : SUBSET Uploads]
  BY <1>1 DEF LookupInv, LookupTyped, AtWork
<1>3. /\ lookup' \in Lookups /\ lookup'.refs = lookup.refs /\ lookup'.nth = lookup.nth
      /\ lookup'.at = "read" /\ lookup'.id = lookup.id /\ lookup'.asks = lookup.asks
      /\ lookup'.place = lookup.place /\ lookup'.clear = lookup.clear
  BY <1>1, <1>2 DEF Lookups
<1>4. LookupTyped' /\ FileIsFound' /\ Uploads' = Uploads /\ Ref' = Ref /\ Name' = Name
  BY <1>1, <1>2, <1>3, WhatStays
<1>5. lookup.place = 0  BY <1>1, <1>2 DEF RightName
<1>6. RightName'  BY <1>1, <1>2, <1>3, <1>4, <1>5 DEF RightName
<1>7. WillBeFound'  BY <1>1, <1>2, <1>3, <1>4 DEF WillBeFound, AtWork, InReach
<1> QED  BY <1>4, <1>6, <1>7 DEF LookupInv

\* A page that ends in the log has a place if it is not empty.
LEMMA ThePage ==
    ASSUME LookupInv, lookup.at = "history"
    PROVE  /\ PageOf \subseteq 1 .. Len(log) /\ PageOf \cap Uploads \subseteq Nat
           /\ Namesakes \subseteq Uploads
           /\ Namesakes # {} => \E m \in Namesakes : \A k \in Namesakes : k <= m
<1>1. Len(log) \in Nat /\ DOMAIN log = 1 .. Len(log) /\ Uploads \subseteq 1 .. Len(log)
  BY TheLog DEF LookupInv
<1>2. lookup.id[1] \in Uploads /\ log[lookup.id[1]] = Name  BY DEF LookupInv, RightName
<1>3. Namesakes \subseteq Uploads  BY <1>2 DEF Namesakes, PageOf, Uploads
<1>4. ASSUME Namesakes # {}
      PROVE  \E m \in Namesakes : \A k \in Namesakes : k <= m
  <2> DEFINE T == {Len(log) - m : m \in Namesakes}
  <2>1. Namesakes \subseteq 1 .. Len(log)  BY <1>1, <1>3
  <2> DEFINE last == Len(log)
  <2>0. last \in Nat /\ Namesakes \subseteq 1 .. last  BY <1>1, <2>1
  <2>6. T = {last - m : m \in Namesakes}  OBVIOUS
  <2> HIDE DEF T, last
  <2>7. ASSUME NEW m \in Namesakes  PROVE last - m \in Nat /\ last - m \in T
    <3>1. m \in 1 .. last  BY <2>0
    <3>2. last - m \in Nat  BY <2>0, <3>1
    <3> QED  BY <2>6, <3>2
  <2>2. T \subseteq Nat /\ T # {}  BY <1>4, <2>6, <2>7
  <2>3. PICK x \in T : \A y \in T : ~(y < x)
    <3> HIDE DEF T
    <3> QED  BY <2>2, LeastOf
  <2>4. PICK m \in Namesakes : x = last - m  BY <2>3, <2>6
  <2>5. \A k \in Namesakes : k <= m
    <3> TAKE k \in Namesakes
    <3>1. ~(last - k < last - m)  BY <2>3, <2>4, <2>7
    <3>2. k \in 1 .. last /\ m \in 1 .. last  BY <2>0
    <3> QED  BY <2>0, <3>1, <3>2
  <2> QED  BY <2>5
<1> QED  BY <1>1, <1>3, <1>4 DEF PageOf

\* With nothing in the way, a file in reach that is not on this page is on one
\* that comes.
LEMMA NextPage ==
    ASSUME LookupInv, lookup.at = "history", lookup.clear, Ref.grouped, InReach(Ref.message),
           Namesakes = {}
    PROVE  /\ ~(lookup.page > 0 /\ Oldest = lookup.seq) /\ lookup.page + 1 < MaxPages
           /\ Ref.message < Oldest /\ Oldest <= Len(log)
           /\ Oldest <= Len(log) - PageSize - lookup.page * (PageSize - 1) + 1
<1>1. Len(log) \in Nat /\ DOMAIN log = 1 .. Len(log) /\ Uploads \subseteq 1 .. Len(log)
  BY TheLog DEF LookupInv
<1>2. lookup \in Lookups /\ lookup.nth <= Len(lookup.refs) /\ StillAhead
  BY DEF LookupInv, LookupTyped, WillBeFound, AtWork
<1>3. lookup.page \in Nat /\ lookup.seq \in Nat  BY <1>2 DEF Lookups
<1>4. Ref.message \in Uploads  BY <1>2, TheRef DEF LookupInv
<1>5. PageSize \in Nat /\ PageSize >= 2 /\ MaxPages \in Nat \ {0}
  BY LookupAssumption
<1> DEFINE m == Ref.message  end == PageEnd  step == PageSize - 1  L == Len(log)
           p == lookup.page  done == (p - 1) * step  now == p * step  all == (MaxPages - 1) * step
<1>6. m \in 1 .. L /\ m \notin PageOf
  <2>1. log[m] = Name  BY DEF Name
  <2> QED  BY <1>1, <1>4, <2>1 DEF Namesakes
<1>7. end \in Nat /\ end <= L /\ (p = 0 => end = L) /\ (p > 0 => m < end /\ end = lookup.seq
         /\ end <= L - PageSize - done + 1)
  BY <1>1, <1>2, <1>3 DEF PageEnd, StillAhead
<1>20. PageOf = {x \in 1 .. L : end - PageSize < x /\ x <= end}  BY <1>1 DEF PageOf
<1>21. L \in Nat  BY <1>1
<1> HIDE DEF m, end, L
<1>24. p = 0 \/ p > 0  BY <1>3
<1>8. m <= end - PageSize
  <2>1. m <= end  BY <1>6, <1>7, <1>21, <1>24
  <2>2. ~(end - PageSize < m)  BY <1>6, <1>20, <2>1
  <2> QED  BY <1>5, <1>6, <1>7, <1>21, <2>2
<1>10. Oldest = end - PageSize + 1
  <2> DEFINE first == end - PageSize + 1
  <2>1. first \in PageOf /\ \A k \in PageOf : first <= k
    BY <1>5, <1>6, <1>7, <1>8, <1>20, <1>21
  <2>2. \A x, y \in PageOf : x <= y /\ y <= x => x = y  BY <1>20, <1>21
  <2> HIDE DEF first
  <2>3. Oldest \in PageOf /\ \A k \in PageOf : Oldest <= k
    <3>1. \E x \in PageOf : \A k \in PageOf : x <= k  BY <2>1
    <3> QED  BY <3>1 DEF Oldest
  <2>4. Oldest = first  BY <2>1, <2>2, <2>3
  <2> QED  BY <2>4 DEF first
<1>11. done \in Int /\ now \in Int /\ all \in Int /\ step \in Nat
  BY <1>3, <1>5
<1>12. now = done + step
  BY <1>3, <1>5
<1>13. p = 0 => now = 0
  BY <1>3, <1>5
<1>14. m > L - PageSize - all  BY DEF InReach, m, L
<1>15. p + 1 >= MaxPages => all <= now
  <2>1. p < MaxPages  BY <1>2 DEF StillAhead
  <2>2. p + 1 >= MaxPages => MaxPages - 1 = p  BY <1>3, <1>5, <2>1
  <2> QED  BY <1>11, <2>2
<1>16. step = PageSize - 1 /\ L \in Nat /\ p \in Nat /\ m \in Nat
  BY <1>3, <1>6, <1>21
<1> HIDE DEF step, p, done, now, all
<1>17. Oldest <= L - PageSize - now + 1
  <2>1. CASE p = 0
    BY <1>5, <1>7, <1>10, <1>13, <1>16, <2>1
  <2>2. CASE p > 0
    BY <1>5, <1>7, <1>10, <1>11, <1>12, <1>16, <2>2
  <2> QED  BY <1>16, <2>1, <2>2
<1>22. m < Oldest /\ Oldest <= L /\ Oldest < end
  BY <1>5, <1>7, <1>8, <1>10, <1>16
<1>23. p > 0 => Oldest # lookup.seq  BY <1>7, <1>22
<1>18. m < Oldest /\ Oldest <= L /\ (p > 0 => Oldest # lookup.seq)
  BY <1>22, <1>23
<1>19. p + 1 < MaxPages
  <2> SUFFICES ASSUME p + 1 >= MaxPages  PROVE FALSE
    BY <1>5, <1>16
  <2>1. all <= now /\ Oldest \in Int  BY <1>5, <1>7, <1>10, <1>15
  <2> QED  BY <1>5, <1>11, <1>14, <1>16, <1>17, <1>18, <2>1
<1> QED  BY <1>17, <1>18, <1>19 DEF m, L, p, now, step

\* A page is never empty.
LEMMA OldestIs ==
    ASSUME LookupInv, lookup.at = "history"
    PROVE  Oldest \in Nat /\ Oldest \in DOMAIN log
<1> DEFINE L == Len(log)  end == PageEnd
<1>1. L \in Nat /\ DOMAIN log = 1 .. L  BY TheLog DEF LookupInv
<1>2. L # 0
  <2>1. lookup.id[1] \in Uploads  BY DEF LookupInv, RightName
  <2> QED  BY <1>1, <2>1, TheLog DEF LookupInv
<1>3. lookup \in Lookups  BY DEF LookupInv, LookupTyped
<1>4. end \in 1 .. L
  <2>1. CASE lookup.page = 0
    BY <1>1, <1>2, <2>1 DEF PageEnd
  <2>2. CASE lookup.page # 0
    BY <1>1, <1>3, <2>2 DEF PageEnd, Lookups
  <2> QED  BY <2>1, <2>2
<1>5. PageSize \in Nat \ {0, 1}  BY LookupAssumption
<1>6. PageOf = {m \in 1 .. L : end - PageSize < m /\ m <= end}  BY <1>1 DEF PageOf
<1> HIDE DEF L, end
<1>7. PageOf \subseteq Nat /\ end \in PageOf  BY <1>1, <1>4, <1>5, <1>6
<1>8. PICK x \in PageOf : \A y \in PageOf : ~(y < x)  BY <1>7, LeastOf
<1>9. \A y \in PageOf : x <= y  BY <1>7, <1>8
<1>10. Oldest \in PageOf  BY <1>8, <1>9 DEF Oldest
<1> QED  BY <1>1, <1>6, <1>7, <1>10

LEMMA PageIsTurned ==
    ASSUME LookupInv, TurnPage
    PROVE  LookupInv'
<1> DEFINE newest == CHOOSE m \in Namesakes : \A k \in Namesakes : k <= m
           given == {<<m, napcat.run>> : m \in PageOf \cap Uploads}
<1>1. /\ lookup.at = "history" /\ ~lookup.late /\ UNCHANGED <<log, readings, refusals>>
      /\ napcat' = [napcat EXCEPT !.ids = @ \cup given]
  BY DEF TurnPage
<1>2. /\ LookupTyped /\ RightName /\ lookup \in Lookups /\ lookup.nth <= Len(lookup.refs)
      /\ napcat \in [run : Nat, ids : SUBSET FileIds, disk : SUBSET Uploads]
      /\ lookup.id \in FileIds /\ lookup.clear \in BOOLEAN
  BY <1>1 DEF LookupInv, LookupTyped, Lookups, AtWork
<1>3. /\ PageOf \subseteq 1 .. Len(log) /\ PageOf \cap Uploads \subseteq Nat
      /\ Namesakes \subseteq Uploads
      /\ Namesakes # {} => \E m \in Namesakes : \A k \in Namesakes : k <= m
  BY <1>1, ThePage
<1>4. given \subseteq FileIds  BY <1>2, <1>3 DEF FileIds
<1>5. Namesakes # {} => newest \in Namesakes  BY <1>3
<1>6. \A m \in Namesakes : <<m, napcat.run>> \in given  BY <1>3 DEF Namesakes
<1> HIDE DEF newest, given
<1>7. /\ napcat' \in [run : Nat, ids : SUBSET FileIds, disk : SUBSET Uploads]
      /\ napcat'.run = napcat.run /\ napcat'.ids = napcat.ids \cup given
  BY <1>1, <1>2, <1>4
<1>8. refusals' \in Nat  BY <1>1, <1>2 DEF LookupTyped
<1>9. CASE Namesakes # {}
  <2> DEFINE id == <<newest, napcat.run>>  r == Renewed(id)
  <2>1. newest \in Namesakes /\ newest \in Uploads /\ newest \in Nat /\ log[newest] = Name
    BY <1>3, <1>5, <1>9 DEF Namesakes
  <2>2. id \in FileIds /\ id[1] = newest /\ id[2] = napcat'.run /\ id \in napcat'.ids
    BY <1>2, <1>6, <1>7, <2>1 DEF FileIds
  <2>3. lookup' = r  BY <1>9 DEF TurnPage, newest
  <2> HIDE DEF id
  <2>4. r \in Lookups /\ r.clear = lookup.clear  BY <1>2, <2>2, RenewedIs
  <2> HIDE DEF r
  <2>5. lookup' = [r EXCEPT !.clear = lookup.clear]  BY <2>3, <2>4 DEF Lookups
  <2> QED  BY <1>1, <1>2, <1>7, <1>8, <2>1, <2>2, <2>5, AsksAfterHistory DEF r
<1> DEFINE over == (lookup.page > 0 /\ Oldest = lookup.seq) \/ lookup.page + 1 = MaxPages
<1>10. CASE Namesakes = {} /\ over
  <2> DEFINE r == Renewed(lookup.id)
  <2>1. lookup' = r  BY <1>10 DEF TurnPage
  <2>2. r \in Lookups /\ r.clear = lookup.clear  BY <1>2, RenewedIs
  <2> HIDE DEF r
  <2>3. lookup' = [r EXCEPT !.clear = lookup.clear]  BY <2>1, <2>2 DEF Lookups
  <2>4. lookup.id[1] \in Uploads /\ log[lookup.id[1]] = Name  BY <1>1, <1>2 DEF RightName
  <2>5. ~(lookup.clear /\ Ref.grouped /\ InReach(Ref.message))
    <3> SUFFICES ASSUME lookup.clear, Ref.grouped, InReach(Ref.message)  PROVE FALSE
      OBVIOUS
    <3>1. ~(lookup.page > 0 /\ Oldest = lookup.seq) /\ lookup.page + 1 < MaxPages
      BY <1>1, <1>10, NextPage
    <3>2. lookup.page \in Nat /\ MaxPages \in Nat  BY <1>2, LookupAssumption DEF Lookups
    <3> QED  BY <1>10, <3>1, <3>2
  <2> QED  BY <1>1, <1>2, <1>7, <1>8, <2>3, <2>4, <2>5, AsksAfterHistory DEF r
<1>11. CASE Namesakes = {} /\ ~over
  <2> DEFINE oldest == Oldest  page == lookup.page + 1
  <2>1. lookup' = [lookup EXCEPT !.seq = oldest, !.page = page]  BY <1>11 DEF TurnPage
  <2>2. oldest \in Nat /\ oldest \in DOMAIN log
    BY <1>1, OldestIs DEF oldest
  <2>3. page \in Nat /\ page > 0 /\ page - 1 = lookup.page  BY <1>2 DEF Lookups
  <2> HIDE DEF oldest, page, over
  <2>4. /\ lookup' \in Lookups /\ lookup'.refs = lookup.refs /\ lookup'.nth = lookup.nth
        /\ lookup'.at = "history" /\ lookup'.id = lookup.id /\ lookup'.asks = lookup.asks
        /\ lookup'.clear = lookup.clear /\ lookup'.late = lookup.late
        /\ lookup'.place = lookup.place /\ lookup'.page = page /\ lookup'.seq = oldest
    BY <1>1, <1>2, <2>1, <2>2, <2>3 DEF Lookups
  <2>5. LookupTyped' /\ FileIsFound' /\ Uploads' = Uploads /\ Ref' = Ref /\ Name' = Name
    BY <1>1, <1>2, <1>7, <1>8, <2>4, WhatStays
  <2>6. RightName'  BY <1>1, <1>2, <2>4, <2>5 DEF RightName
  <2>7. WillBeFound'
    <3> SUFFICES ASSUME lookup'.clear, Ref'.grouped, InReach(Ref.message)
                 PROVE  ~lookup'.late /\ StillAhead'
      BY <1>1, <2>4, <2>5 DEF WillBeFound, InReach
    <3>1. lookup.clear /\ Ref.grouped  BY <2>4, <2>5
    <3>2. /\ lookup.page + 1 < MaxPages /\ Ref.message < oldest /\ oldest <= Len(log)
          /\ oldest <= Len(log) - PageSize - lookup.page * (PageSize - 1) + 1
      BY <1>1, <1>11, <3>1, NextPage DEF oldest
    <3>3. page < MaxPages /\ oldest <= Len(log) - PageSize - (page - 1) * (PageSize - 1) + 1
      BY <2>3, <3>2 DEF page
    <3>4. StillAhead'  BY <1>1, <2>4, <2>5, <3>2, <3>3 DEF StillAhead
    <3> QED  BY <1>1, <2>4, <3>4
  <2> QED  BY <2>5, <2>6, <2>7 DEF LookupInv
<1> QED  BY <1>9, <1>10, <1>11

LEMMA FileIsRead ==
    ASSUME LookupInv, ReadFile
    PROVE  LookupInv'
<1> DEFINE r(as) == [ref |-> Ref, place |-> lookup.place, as |-> as, clear |-> lookup.clear]
<1>1. PICK as \in ReadAs : readings' = Append(readings, r(as))
  BY DEF ReadFile
<1>2. /\ lookup.at = "read" /\ lookup' = [lookup EXCEPT !.at = "next", !.nth = @ + 1]
      /\ UNCHANGED <<log, napcat, refusals>>
  BY DEF ReadFile
<1>3. /\ LookupTyped /\ RightName /\ WillBeFound /\ FileIsFound /\ lookup \in Lookups
      /\ lookup.nth <= Len(lookup.refs) /\ readings \in Seq(Results)
  BY <1>2 DEF LookupInv, LookupTyped, AtWork
<1>4. Ref \in References  BY <1>3, TheRef
<1> DEFINE new == r(as)
<1>5. new \in Results  BY <1>3, <1>4 DEF Results, ReadAs, Lookups
<1>6. new.ref = Ref /\ new.place = lookup.place /\ new.clear = lookup.clear  OBVIOUS
<1> HIDE DEF new
<1>7. /\ readings' \in Seq(Results) /\ Len(readings') = Len(readings) + 1
      /\ \A i \in 1 .. Len(readings) : readings'[i] = readings[i]
      /\ readings'[Len(readings) + 1] = new
  BY <1>1, <1>3, <1>5, AppendProperties DEF new
<1>14. lookup.nth + 1 \in Nat \ {0}  BY <1>3 DEF Lookups
<1>8. /\ lookup' \in Lookups /\ lookup'.refs = lookup.refs /\ lookup'.at = "next"
      /\ lookup'.asks = lookup.asks /\ lookup'.id = lookup.id
  BY <1>2, <1>3, <1>14 DEF Lookups
<1>9. ~AtWork' /\ Uploads' = Uploads /\ Lookups' = Lookups
  BY <1>2, <1>8 DEF AtWork, Uploads, Lookups
<1>10. LookupTyped'  BY <1>2, <1>3, <1>7, <1>8, <1>9 DEF LookupTyped
<1>11. RightName'  BY <1>3, <1>8 DEF RightName
<1>12. WillBeFound'  BY <1>9 DEF WillBeFound
<1>13. FileIsFound'
  <2>1. /\ Len(readings) \in Nat /\ DOMAIN readings = 1 .. Len(readings)
        /\ DOMAIN readings' = 1 .. Len(readings')
    BY <1>3, <1>7, LenProperties
  <2> SUFFICES ASSUME NEW i \in DOMAIN readings'
               PROVE  /\ readings'[i].clear /\ readings'[i].ref.grouped /\ InReach(readings'[i].ref.message)
                            => readings'[i].place # 0
                      /\ readings'[i].place # 0 => log[readings'[i].place] = log[readings'[i].ref.message]
    BY <1>2 DEF FileIsFound, InReach
  <2>2. CASE i \in DOMAIN readings
    <3>1. readings'[i] = readings[i]  BY <1>7, <2>1, <2>2
    <3> QED  BY <1>3, <2>2, <3>1 DEF FileIsFound
  <2>3. CASE i \notin DOMAIN readings
    <3>1. i = Len(readings) + 1  BY <1>7, <2>1, <2>3
    <3>2. readings'[i] = new  BY <1>7, <3>1
    <3> QED  BY <1>2, <1>3, <1>6, <3>2 DEF WillBeFound, RightName, AtWork, Name
  <2> QED  BY <2>2, <2>3
<1> QED  BY <1>10, <1>11, <1>12, <1>13 DEF LookupInv

LEMMA FilesAreAnswered ==
    ASSUME LookupInv, AnswerFiles
    PROVE  LookupInv'
<1> DEFINE at == IF Documents # {} THEN "task" ELSE "context"
<1>1. lookup' = [lookup EXCEPT !.at = at] /\ UNCHANGED <<log, napcat, readings, refusals>>
  BY DEF AnswerFiles
<1>2. at \in {"task", "context"}  OBVIOUS
<1> HIDE DEF at
<1>3. LookupTyped /\ RightName /\ lookup \in Lookups  BY DEF LookupInv, LookupTyped
<1>4. /\ lookup' \in Lookups /\ lookup'.refs = lookup.refs /\ lookup'.at \in {"task", "context"}
      /\ lookup'.asks = lookup.asks /\ lookup'.id = lookup.id
  BY <1>1, <1>2, <1>3 DEF Lookups
<1>5. ~AtWork'  BY <1>4 DEF AtWork
<1>6. refusals' \in Nat /\ napcat' \in [run : Nat, ids : SUBSET FileIds, disk : SUBSET Uploads]
  BY <1>1, <1>3 DEF LookupTyped
<1>7. LookupTyped' /\ FileIsFound'  BY <1>1, <1>4, <1>5, <1>6, WhatStays
<1>8. RightName'  BY <1>3, <1>4 DEF RightName
<1>9. WillBeFound'  BY <1>5 DEF WillBeFound
<1> QED  BY <1>7, <1>8, <1>9 DEF LookupInv

\* Every step keeps the invariant.
LEMMA LookupStep ==
    ASSUME LookupInv, [FilesNext]_fileVars
    PROVE  LookupInv'
<1>1. CASE RestartNapCat  BY <1>1, NapCatRestarts
<1>2. CASE \E parcel \in Parcels : CollectFiles(parcel)  BY <1>2, FilesAreCollected
<1>3. CASE BeginFile  BY <1>3, FileBegins
<1>4. CASE GetFile  BY <1>4, FileIsGot
<1>5. CASE NotThere  BY <1>5, FileIsNotThere
<1>6. CASE CallFails  BY <1>6, RequestFails
<1>7. CASE TimeIsOver  BY <1>7, TimeIsUp
<1>8. CASE SearchHistory  BY <1>8, HistoryIsSearched
<1>9. CASE TurnPage  BY <1>9, PageIsTurned
<1>10. CASE PageIsRefused  BY <1>10, PageIsNotGiven
<1>11. CASE NowhereFound  BY <1>11, NothingFound
<1>12. CASE ReadFile  BY <1>12, FileIsRead
<1>13. CASE AnswerFiles  BY <1>13, FilesAreAnswered
<1>14. CASE UNCHANGED fileVars
  BY <1>14 DEF fileVars, LookupInv, LookupTyped, RightName, WillBeFound, StillAhead, FileIsFound,
               InReach, AtWork, Uploads, Ref, Name, Lookups
<1> QED
  BY <1>1, <1>2, <1>3, <1>4, <1>5, <1>6, <1>7, <1>8, <1>9, <1>10, <1>11, <1>12, <1>13, <1>14
  DEF FilesNext

\* The lookup is sound: what it asks for and what it finds has the name that is
\* meant, and with nothing in the way a request that will be answered is still
\* to come (file_plugin.go, resolveFile and what it calls).
THEOREM LookupIsSound == LookupInit /\ [][FilesNext]_fileVars => []LookupInv
<1>1. LookupInit => LookupInv  BY LookupBegins
<1>2. LookupInv /\ [FilesNext]_fileVars => LookupInv'  BY LookupStep
<1> QED  BY <1>1, <1>2, PTL

\* A group's file in reach of the pages is found whatever NapCat has forgotten,
\* unless a call fails or NapCat restarts meanwhile, and what is read has the
\* name of what is meant: for every log, page size, number of pages and mail.
THEOREM FilesAreFound == LookupInit /\ [][FilesNext]_fileVars => []FileIsFound
<1>1. LookupInv => FileIsFound  BY DEF LookupInv
<1> QED  BY <1>1, LookupIsSound, PTL
=============================================================================
