------------------------- MODULE InboxAndRunProofs -------------------------
(***************************************************************************)
(* Proofs about InboundQueue, for every set of messages, every number of   *)
(* workers and runs, every lease and delay, and every environment; and     *)
(* about AgentRun, the runs of the model that answer the messages, for any *)
(* number of runs, profiles, tools and edits, every budget and every time. *)
(***************************************************************************)
EXTENDS InboundQueue, AgentRun, FiniteSetTheorems, SequenceTheorems,
        WellFoundedInduction, TLAPS

\* The numeric part of the assumptions, without the functions.
LEMMA Bounds ==
    /\ MaxRuns \in Nat \ {0} /\ LeaseDuration \in Nat \ {0}
    /\ ReplayWindow \in Nat /\ MaxDelay \in Nat
    /\ MaxAttempts \in Nat \ {0} /\ MaxDbFaults \in Nat
    /\ RetryDelay \in [0 .. MaxAttempts -> 0 .. MaxDelay]
    /\ Priorities \subseteq Nat /\ 0 \in Priorities
BY QueueConstants

\* The values rows and goroutines start from have their types.
LEMMA InitialValues == NoRow \in Rows /\ Off \in Goroutines /\ Idle \in Goroutines
BY Bounds DEF NoRow, Rows, Goroutines

\* A worker that is not off or idle holds a message.
LEMMA Working ==
    ASSUME worker \in [Slots -> Goroutines], NEW w \in Slots,
           worker[w].pc \notin {"off", "idle"}
    PROVE  worker[w] \in AtWork /\ worker[w].msg \in Messages
BY DEF Goroutines, AtWork, Off, Idle

\* A worker that only moves on keeps the shape of a goroutine.
LEMMA MoveKeepsShape ==
    ASSUME worker \in [Slots -> Goroutines], NEW w \in Slots,
           worker[w] \in AtWork,
           NEW pc \in {"reply", "send", "await", "commit"},
           NEW verdict \in Outcomes \cup {"none", "retry"},
           Move(w, pc, verdict)
    PROVE  worker' \in [Slots -> Goroutines]
<1>1. [worker[w] EXCEPT !.pc = pc, !.verdict = verdict] \in AtWork
  BY DEF AtWork
<1> QED
  BY <1>1 DEF Move, Goroutines

\* The statements of the store turn rows into rows.
LEMMA NewShape == ASSUME NEW p \in Priorities PROVE NewRow(p) \in Rows
BY InitialValues DEF NewRow, Rows

\* A duplicate delivery (EnqueueInboundEvent) keeps a row a row.
LEMMA RefreshedShape ==
    ASSUME NEW q \in Rows, NEW p \in Priorities PROVE Refreshed(q, p) \in Rows
BY DEF Refreshed, Rows

\* So does the claim statement.
LEMMA ClaimedShape ==
    ASSUME NEW q \in Rows, NEW r \in Runs PROVE Claimed(q, r) \in Rows
<1>0. r \in 0 .. MaxRuns /\ LeaseDuration \in 0 .. LeaseDuration
  BY Bounds DEF Runs
<1>1. Owned(q, r) \in Rows
  BY <1>0 DEF Owned, Rows
<1>2. \A n \in 0 .. MaxAttempts : AtMost(n + 1, MaxAttempts) \in 0 .. MaxAttempts
  BY Bounds DEF AtMost
<1> QED
  BY <1>1, <1>2 DEF Claimed, Rows

\* So does clearing the lease columns.
LEMMA FreedShape == ASSUME NEW q \in Rows PROVE Freed(q) \in Rows
<1>1. 0 \in 0 .. MaxRuns /\ 0 \in 0 .. LeaseDuration
  BY Bounds
<1> QED
  BY <1>1 DEF Freed, Rows

\* So does CompleteInboundEvent.
LEMMA SettledShape ==
    ASSUME NEW q \in Rows, NEW outcome \in Outcomes \cup {"none"}
    PROVE  Settled(q, outcome) \in Rows
BY FreedShape DEF Settled, Rows

\* So do RetryInboundEvent and ReleaseInboundLeases.
LEMMA RequeuedShape ==
    ASSUME NEW q \in Rows, NEW delay \in 0 .. MaxDelay
    PROVE  Requeued(q, delay) \in Rows
BY FreedShape DEF Requeued, Rows

\* So does the passing of time.
LEMMA AgedShape == ASSUME NEW q \in Rows PROVE Aged(q) \in Rows
<1>1. \A n \in Nat : \A k \in 0 .. n : Elapse(k) \in 0 .. n
  BY DEF Elapse
<1> QED
  BY <1>1, Bounds DEF Aged, Rows

\* Releasing leases, whoever's, keeps the shape of the table.
LEMMA ReleaseKeepsShape ==
    ASSUME row \in [Messages -> Rows], NEW owners, ReleaseInboundLeases(owners)
    PROVE  row' \in [Messages -> Rows]
<1>1. 0 \in 0 .. MaxDelay
  BY Bounds
<1> QED
  BY <1>1, RequeuedShape DEF ReleaseInboundLeases

\* A failed write keeps the count of failures within its bound.
LEMMA FaultKeepsShape ==
    ASSUME dbFaults \in 0 .. MaxDbFaults, DbFault
    PROVE  dbFaults' \in 0 .. MaxDbFaults
BY Bounds DEF DbFault

\* The flags take their values from constants and from each other.
LEMMA FlagsStep == FlagsOK /\ [Next]_vars => FlagsOK'
BY Zenon DEF FlagsOK, Next, vars, life, link, table, Start, Stop, Crash, Poll,
       Connect, Disconnect, Tick, Drain, HandleEvent, Claim, WorkerStep, Quit,
       Prepare, Reply, SendAccepted, SendReturns, SendFailed, Commit

\* Every step keeps the types.
LEMMA TypeCorrectStep == TypeOK /\ [Next]_vars => TypeOK'
<1> SUFFICES ASSUME ShapesOK, [Next]_vars PROVE ShapesOK'
  BY FlagsStep DEF TypeOK
<1> USE DEF ShapesOK
<1>1. CASE Start
  BY <1>1, Bounds, InitialValues, ReleaseKeepsShape, FaultKeepsShape
     DEF Start, Runs
<1>2. CASE Stop
  BY <1>2 DEF Stop
<1>3. CASE Crash
  BY <1>3, InitialValues DEF Crash
<1>4. CASE Poll \/ Connect \/ Disconnect
  BY <1>4 DEF Poll, Connect, Disconnect, table, life
<1>5. CASE Tick
  <2>1. row' \in [Messages -> Rows]
    BY <1>5, AgedShape DEF Tick
  <2>2. age' \in [Messages -> 0 .. ReplayWindow + 1]
    <3>1. \A m \in Messages : AtMost(age[m] + 1, ReplayWindow + 1)
                                 \in 0 .. ReplayWindow + 1
      BY Bounds DEF AtMost
    <3> QED
      BY <1>5, <3>1 DEF Tick
  <2> QED
    BY <1>5, <2>1, <2>2 DEF Tick, life
<1>6. ASSUME NEW r \in Runs, Drain(r) PROVE ShapesOK'
  BY <1>6, ReleaseKeepsShape, FaultKeepsShape DEF Drain
<1>7. ASSUME NEW m \in Messages, NEW p \in Priorities,
             NEW a \in {0, ReplayWindow + 1}, HandleEvent(m, p, a)
      PROVE  ShapesOK'
  <2>2. row' \in [Messages -> Rows]
    BY <1>7, NewShape, RefreshedShape DEF HandleEvent, Enqueue
  <2>3. age' \in [Messages -> 0 .. ReplayWindow + 1]
    <3>1. a \in 0 .. ReplayWindow + 1
      BY Bounds
    <3>2. age' = age \/ age' = [age EXCEPT ![m] = a]
      BY <1>7 DEF HandleEvent, Enqueue
    <3> QED
      BY <3>1, <3>2
  <2> QED
    BY <1>7, <2>2, <2>3 DEF HandleEvent, life
<1>8. ASSUME NEW w \in Slots, Claim(w) PROVE ShapesOK'
  <2>1. PICK m \in Messages :
           /\ Take(m, w[1])
           /\ \/ /\ worker' = [worker EXCEPT ![w] = Holding(m)]
                 /\ UNCHANGED dbFaults
              \/ DbFault /\ UNCHANGED worker
    BY <1>8 DEF Claim
  <2>2. row' \in [Messages -> Rows]
    BY <2>1, ClaimedShape DEF Take, Slots
  <2>3. Holding(m) \in Goroutines
    BY <2>2 DEF Holding, Rows, Goroutines, AtWork
  <2>4. worker' \in [Slots -> Goroutines]
    BY <2>1, <2>3
  <2> QED
    BY <1>8, <2>1, <2>2, <2>4, FaultKeepsShape DEF Claim, life
<1>9. ASSUME NEW w \in Slots, Quit(w) PROVE ShapesOK'
  BY <1>9, InitialValues DEF Quit, table, life
<1>10. ASSUME NEW w \in Slots,
              Prepare(w) \/ Reply(w) \/ SendReturns(w) \/ SendFailed(w)
       PROVE  ShapesOK'
  <2>1. worker[w] \in AtWork
    BY <1>10, Working DEF Prepare, Reply, SendReturns, SendFailed
  <2>2. worker[w].verdict \in Outcomes \cup {"none", "retry"}
    BY <2>1 DEF AtWork
  <2>3. worker' \in [Slots -> Goroutines]
    BY <1>10, <2>1, <2>2, MoveKeepsShape
       DEF Prepare, Reply, SendReturns, SendFailed, Outcomes
  <2> QED
    BY <1>10, <2>3
       DEF Prepare, Reply, SendReturns, SendFailed, table, life
<1>11. ASSUME NEW w \in Slots, SendAccepted(w) PROVE ShapesOK'
  <2>1. worker[w] \in AtWork /\ worker[w].msg \in Messages
    BY <1>11, Working DEF SendAccepted
  <2>2. worker[w].verdict \in Outcomes \cup {"none", "retry"}
    BY <2>1 DEF AtWork
  <2>3. worker' \in [Slots -> Goroutines]
    BY <1>11, <2>1, <2>2, MoveKeepsShape DEF SendAccepted
  <2>4. accepted' \in [Messages -> 0 .. 2]
    BY <1>11, <2>1 DEF SendAccepted
  <2> QED
    BY <1>11, <2>3, <2>4 DEF SendAccepted, table, life
<1>12. ASSUME NEW w \in Slots, Commit(w) PROVE ShapesOK'
  <2> DEFINE m == worker[w].msg
             v == worker[w].verdict
             delay == IF Cancelled(w[1]) THEN 0
                      ELSE RetryDelay[worker[w].attempts]
  <2>1. worker[w] \in AtWork /\ m \in Messages
    BY <1>12, Working DEF Commit
  <2>2. v \in Outcomes \cup {"none", "retry"} /\ delay \in 0 .. MaxDelay
    BY <2>1, Bounds DEF AtWork
  <2>3. worker' \in [Slots -> Goroutines]
    BY <1>12, InitialValues DEF Commit
  <2> HIDE DEF m, v, delay
  <2>4. ASSUME v = "retry", RetryInboundEvent(m, w[1], delay)
        PROVE  row' \in [Messages -> Rows]
    <3>1. Requeued(row[m], delay) \in Rows
      BY <2>1, <2>2, RequeuedShape
    <3>2. row' = row \/ row' = [row EXCEPT ![m] = Requeued(row[m], delay)]
      BY <2>1, <2>4 DEF RetryInboundEvent
    <3> QED
      BY <2>1, <3>1, <3>2
  <2>5. ASSUME v # "retry", CompleteInboundEvent(m, w[1], v)
        PROVE  row' \in [Messages -> Rows]
    <3>1. Settled(row[m], v) \in Rows
      BY <2>1, <2>2, <2>5, SettledShape
    <3>2. row' = row \/ row' = [row EXCEPT ![m] = Settled(row[m], v)]
      BY <2>1, <2>5 DEF CompleteInboundEvent
    <3> QED
      BY <2>1, <3>1, <3>2
  <2>6. row' \in [Messages -> Rows] /\ dbFaults' \in 0 .. MaxDbFaults
    BY <1>12, <2>4, <2>5, FaultKeepsShape DEF Commit, m, v, delay
  <2> QED
    BY <1>12, <2>3, <2>6 DEF Commit, life
<1>13. CASE UNCHANGED vars
  BY <1>13 DEF vars
<1> QED
  BY <1>1, <1>2, <1>3, <1>4, <1>5, <1>6, <1>7, <1>8, <1>9, <1>10, <1>11,
     <1>12, <1>13 DEF Next, WorkerStep

\* Type correctness: the table, the workers and the coordinators keep their
\* shapes through every step.
THEOREM TypeCorrect == Spec => []TypeOK
<1>1. Init => TypeOK
  <2>1. Init => ShapesOK
    BY InitialValues, Bounds DEF Init, ShapesOK
  <2>2. Init => FlagsOK
    BY DEF Init, FlagsOK
  <2> QED
    BY <2>1, <2>2 DEF TypeOK
<1>2. TypeOK /\ [Next]_vars => TypeOK'
  BY TypeCorrectStep
<1> QED
  BY <1>1, <1>2, PTL DEF Spec

-----------------------------------------------------------------------------
(* What a step may do to a row.  Everything below follows from this.  *)

\* worker w settles message m with its verdict
SettledBy(w, m) ==
    /\ worker[w].pc = "commit" /\ worker[w].msg = m
    /\ row[m].status = "processing"
    /\ worker[w].verdict \in Outcomes
    /\ row[m].owner = w[1]
    /\ row'[m] = Settled(row[m], worker[w].verdict)

\* message m goes back to the queue: on behalf of its owner, or at the first
\* start of a process
Returned(m) ==
    /\ row[m].status = "processing"
    /\ \E delay \in 0 .. MaxDelay : row'[m] = Requeued(row[m], delay)
    /\ \/ ~inboundInit
       \/ coord[row[m].owner] = "draining" /\ coord'[row[m].owner] = "ended"
       \/ \E w \in Slots : /\ worker[w].pc = "commit" /\ worker[w].msg = m
                           /\ row[m].owner = w[1]

Received(m) ==
    \E p \in Priorities :
       \/ row[m].status = "absent" /\ row'[m] = NewRow(p)
       \/ row[m].status = "pending" /\ row'[m] = Refreshed(row[m], p)

QuietStep(m) ==
    \/ row'[m] = row[m]
    \/ row'[m] = Aged(row[m])
    \/ Received(m)
    \/ Returned(m)
    \/ \E w \in Slots : SettledBy(w, m)

Claiming(m) ==
    /\ Claimable(m)
    /\ \E r \in Runs : r <= run /\ row' = [row EXCEPT ![m] = Claimed(@, r)]

\* Every step either claims one row, or changes each row in a way that
\* claims none.
LEMMA RowSteps ==
    ASSUME TypeOK, Inductive, [Next]_vars
    PROVE  \/ \A m \in Messages : QuietStep(m)
           \/ \E m \in Messages : Claiming(m)
<1> USE DEF TypeOK, ShapesOK
<1> DEFINE Goal == \/ \A m \in Messages : QuietStep(m)
                   \/ \E m \in Messages : Claiming(m)
<1>0. row' = row => Goal
  BY DEF QuietStep
<1>1. CASE Start
  <2>1. ASSUME ReleaseInboundLeases(Runs), ~inboundInit, NEW m \in Messages
        PROVE  QuietStep(m)
    BY <2>1, Bounds DEF ReleaseInboundLeases, QuietStep, Returned
  <2> QED
    BY <1>0, <1>1, <2>1 DEF Start
<1>2. CASE Stop \/ Crash \/ Poll \/ Connect \/ Disconnect \/ UNCHANGED vars
  BY <1>0, <1>2 DEF Stop, Crash, Poll, Connect, Disconnect, table, vars
<1>3. CASE Tick
  BY <1>3 DEF Tick, QuietStep
<1>4. ASSUME NEW r \in Runs, Drain(r) PROVE Goal
  <2>1. ASSUME ReleaseInboundLeases({r}), NEW m \in Messages PROVE QuietStep(m)
    <3>1. coord[r] = "draining" /\ coord'[r] = "ended"
      BY <1>4 DEF Drain
    <3> QED
      BY <2>1, <3>1, Bounds DEF ReleaseInboundLeases, QuietStep, Returned
  <2> QED
    BY <1>0, <1>4, <2>1 DEF Drain
<1>5. ASSUME NEW m \in Messages, NEW p \in Priorities,
             NEW a \in {0, ReplayWindow + 1}, HandleEvent(m, p, a)
      PROVE  Goal
  BY <1>5 DEF HandleEvent, Enqueue, QuietStep, Received
<1>6. ASSUME NEW w \in Slots, Claim(w) PROVE Goal
  <2>1. w[1] \in Runs /\ w[1] <= run
    BY <1>6 DEF Claim, Inductive, WorkerSound, Slots
  <2>2. PICK m \in Messages : Candidate(m) /\ Take(m, w[1])
    BY <1>6 DEF Claim
  <2>3. Claiming(m)
    BY <2>1, <2>2 DEF Candidate, Take, Claiming
  <2> QED
    BY <2>3
<1>7. ASSUME NEW w \in Slots,
             \/ Quit(w) \/ Prepare(w) \/ Reply(w) \/ SendAccepted(w)
             \/ SendReturns(w) \/ SendFailed(w)
      PROVE  Goal
  BY <1>0, <1>7 DEF Quit, Prepare, Reply, SendAccepted, SendReturns, SendFailed,
                    table
<1>8. ASSUME NEW w \in Slots, Commit(w) PROVE Goal
  <2> DEFINE n == worker[w].msg
             v == worker[w].verdict
             delay == IF Cancelled(w[1]) THEN 0
                      ELSE RetryDelay[worker[w].attempts]
  <2>1. worker[w] \in AtWork /\ n \in Messages /\ worker[w].pc = "commit"
    BY <1>8, Working DEF Commit
  <2>2. delay \in 0 .. MaxDelay /\ v \in Outcomes \cup {"none", "retry"}
    BY <2>1, Bounds DEF AtWork
  <2>3. v # "none"
    BY <2>1 DEF Inductive, WorkerSound
  <2>4. ASSUME v = "retry", RetryInboundEvent(n, w[1], delay),
               NEW m \in Messages
        PROVE  QuietStep(m)
    <3>1. row'[m] = row[m] \/ (m = n /\ Held(n, w[1])
                                /\ row'[m] = Requeued(row[m], delay))
      BY <2>4 DEF RetryInboundEvent
    <3> HIDE DEF delay
    <3> QED
      BY <2>1, <2>2, <3>1 DEF Held, QuietStep, Returned
  <2>5. ASSUME v # "retry", CompleteInboundEvent(n, w[1], v),
               NEW m \in Messages
        PROVE  QuietStep(m)
    <3>1. row'[m] = row[m] \/ (m = n /\ Held(n, w[1])
                                /\ row'[m] = Settled(row[m], v))
      BY <2>5 DEF CompleteInboundEvent
    <3>2. v \in Outcomes
      BY <2>2, <2>3, <2>5
    <3> QED
      BY <2>1, <3>1, <3>2 DEF Held, QuietStep, SettledBy
  <2> QED
    BY <1>0, <1>8, <2>4, <2>5 DEF Commit
<1> QED
  BY <1>1, <1>2, <1>3, <1>4, <1>5, <1>6, <1>7, <1>8 DEF Next, WorkerStep

\* The columns that the statements of the store leave or set.
LEMMA AgedColumns ==
    ASSUME NEW q \in Rows
    PROVE  /\ Aged(q).status = q.status /\ Aged(q).owner = q.owner
           /\ Aged(q).outcome = q.outcome
           /\ Aged(q).lease = Elapse(q.lease) /\ Aged(q).avail = Elapse(q.avail)
           /\ q.lease = 0 /\ q.avail = 0 => Aged(q) = q
BY DEF Aged, Rows, Elapse

\* The columns of a new row.
LEMMA NewColumns ==
    ASSUME NEW p
    PROVE  /\ NewRow(p).status = "pending" /\ NewRow(p).owner = 0
           /\ NewRow(p).lease = 0 /\ NewRow(p).avail = 0
           /\ NewRow(p).outcome = "none"
BY DEF NewRow, NoRow

\* The columns a duplicate delivery leaves alone.
LEMMA RefreshedColumns ==
    ASSUME NEW q \in Rows, NEW p
    PROVE  /\ Refreshed(q, p).status = q.status
           /\ Refreshed(q, p).owner = q.owner
           /\ Refreshed(q, p).lease = q.lease
           /\ Refreshed(q, p).avail = q.avail
           /\ Refreshed(q, p).outcome = q.outcome
BY DEF Refreshed, Rows

\* The columns that remain when a lease is cleared.
LEMMA FreedColumns ==
    ASSUME NEW q \in Rows
    PROVE  /\ Freed(q).status = q.status /\ Freed(q).owner = 0
           /\ Freed(q).lease = 0 /\ Freed(q).avail = q.avail
           /\ Freed(q).outcome = q.outcome
BY DEF Freed, Rows

\* The columns of a completed row.
LEMMA SettledColumns ==
    ASSUME NEW q \in Rows, NEW outcome
    PROVE  LET s == Settled(q, outcome) IN
           /\ s.status = "done" /\ s.outcome = outcome
           /\ s.owner = 0 /\ s.lease = 0 /\ s.avail = q.avail
BY FreedShape, FreedColumns DEF Settled, Rows

\* The columns of a row that waits again.
LEMMA RequeuedColumns ==
    ASSUME NEW q \in Rows, NEW delay
    PROVE  LET s == Requeued(q, delay) IN
           /\ s.status = "pending" /\ s.outcome = q.outcome
           /\ s.owner = 0 /\ s.lease = 0 /\ s.avail = delay
BY FreedShape, FreedColumns DEF Requeued, Rows

\* The columns of a claimed row.
LEMMA ClaimedColumns ==
    ASSUME NEW q \in Rows, NEW r \in Runs
    PROVE  LET s == Claimed(q, r) IN
           /\ s.status = "processing" /\ s.owner = r
           /\ s.avail = q.avail /\ s.outcome = q.outcome
<1>1. /\ Owned(q, r).owner = r /\ Owned(q, r).avail = q.avail
      /\ Owned(q, r).outcome = q.outcome
  BY DEF Owned, Rows
<1>2. Owned(q, r) \in Rows
  <2>1. r \in 0 .. MaxRuns /\ LeaseDuration \in 0 .. LeaseDuration
    BY Bounds DEF Runs
  <2> QED
    BY <2>1 DEF Owned, Rows
<1> QED
  BY <1>1, <1>2 DEF Claimed, Rows

\* A quiet step keeps a row coherent, starts no lease, and leaves a row that
\* is done as it is.
LEMMA QuietRow ==
    ASSUME NEW m \in Messages, row[m] \in Rows, Coherent(row[m]),
           run \in Nat, row[m].owner <= run, QuietStep(m)
    PROVE  /\ Coherent(row'[m]) /\ row'[m].owner <= run
           /\ row'[m].lease > 0 => row[m].lease > 0
           /\ row[m].status = "done" => row'[m] = row[m]
<1>0. /\ row[m].lease \in Nat /\ row[m].avail \in Nat /\ row[m].owner \in Nat
      /\ row[m].outcome \in Outcomes \cup {"none"}
  BY Bounds DEF Rows
<1>1. CASE row'[m] = row[m]
  BY <1>1
<1>2. CASE row'[m] = Aged(row[m])
  BY <1>0, <1>2, AgedColumns DEF Elapse, Coherent
<1>3. CASE Received(m)
  BY <1>0, <1>3, NewColumns, RefreshedColumns DEF Received, Coherent
<1>4. CASE Returned(m)
  BY <1>0, <1>4, RequeuedColumns DEF Returned, Coherent
<1>5. ASSUME NEW w \in Slots, SettledBy(w, m)
      PROVE  Coherent(row'[m]) /\ row'[m].owner <= run /\ row'[m].lease = 0
             /\ row[m].status # "done"
  <2>1. worker[w].verdict # "none"
    BY <1>5 DEF SettledBy, Outcomes
  <2> QED
    BY <1>0, <1>5, <2>1, SettledColumns DEF SettledBy, Coherent
<1> QED
  BY <1>1, <1>2, <1>3, <1>4, <1>5 DEF QuietStep

\* A claim keeps the row coherent.
LEMMA ClaimedRow ==
    ASSUME NEW m \in Messages, row[m] \in Rows, Coherent(row[m]),
           NEW r \in Runs, Claimable(m)
    PROVE  Coherent(Claimed(row[m], r)) /\ Claimed(row[m], r).owner = r
<1>1. row[m].lease \in Nat /\ row[m].avail \in Nat /\ r # 0
  BY Bounds DEF Rows, Runs
<1>2. row[m].avail = 0 /\ row[m].outcome = "none"
  BY <1>1 DEF Claimable, Coherent
<1> QED
  BY <1>1, <1>2, ClaimedColumns DEF Coherent

\* A row that may be claimed is neither leased nor done.
LEMMA ClaimableFree ==
    ASSUME NEW m, Claimable(m)
    PROVE  ~Leased(m) /\ row[m].status \in {"pending", "processing"}
BY DEF Claimable, Leased

-----------------------------------------------------------------------------
(* The inductive invariant.                                                *)

\* Runs are only ever added, and a reply that was accepted stays accepted.
LEMMA RunGrows == [Next]_vars => run' = run \/ run' = run + 1
BY Zenon DEF Next, vars, Start, Stop, Crash, Poll, Connect, Disconnect, Tick,
   Drain, HandleEvent, Claim, WorkerStep, Quit, Prepare, Reply, SendAccepted,
   SendReturns, SendFailed, Commit, life

\* What QQ accepted is never taken back.
LEMMA AcceptedGrows ==
    ASSUME TypeOK, [Next]_vars, NEW m \in Messages, accepted[m] > 0
    PROVE  accepted'[m] > 0
<1>1. accepted' = accepted
      \/ \E n \in Messages :
            accepted' = [accepted EXCEPT ![n] = IF @ = 0 THEN 1 ELSE 2]
  <2>1. ASSUME NEW w \in Slots, SendAccepted(w)
        PROVE  worker[w].msg \in Messages
    BY <2>1, Working DEF SendAccepted, TypeOK, ShapesOK
  <2> QED
    BY <2>1, Zenon DEF Next, vars, Start, Stop, Crash, Poll, Connect, Disconnect,
       Tick, Drain, HandleEvent, Claim, WorkerStep, Quit, Prepare, Reply,
       SendAccepted, SendReturns, SendFailed, Commit, life, table
<1> QED
  BY <1>1 DEF TypeOK, ShapesOK

\* Rows stay coherent.
LEMMA RowsStep ==
    ASSUME TypeOK, Inductive, [Next]_vars
    PROVE  RowsConsistent'
<1> USE DEF TypeOK, ShapesOK
<1>1. run \in Nat /\ run <= run'
  BY RunGrows, Bounds
<1>2. \A m \in Messages : Coherent(row[m]) /\ row[m].owner <= run
  BY DEF Inductive, RowsConsistent
<1>3. run' \in Nat
  BY TypeCorrectStep
<1>4. \A m \in Messages : row[m].owner \in Nat /\ row'[m].owner \in Nat
  <2>1. row' \in [Messages -> Rows]
    BY TypeCorrectStep
  <2> QED
    BY <2>1, Bounds DEF Rows
<1>5. ASSUME NEW m \in Messages, QuietStep(m)
      PROVE  Coherent(row'[m]) /\ row'[m].owner <= run
  BY <1>1, <1>2, <1>5, QuietRow
<1>6. ASSUME NEW n \in Messages, Claiming(n), NEW m \in Messages
      PROVE  Coherent(row'[m]) /\ row'[m].owner <= run
  <2>1. PICK r \in Runs : r <= run /\ row' = [row EXCEPT ![n] = Claimed(@, r)]
    BY <1>6 DEF Claiming
  <2>2. Coherent(Claimed(row[n], r)) /\ Claimed(row[n], r).owner = r
    BY <1>2, <1>6, ClaimedRow DEF Claiming
  <2> QED
    BY <1>2, <2>1, <2>2
<1>7. \A m \in Messages : Coherent(row'[m]) /\ row'[m].owner <= run
  BY <1>5, <1>6, RowSteps
<1> QED
  BY <1>1, <1>3, <1>4, <1>7 DEF RowsConsistent, Coherent

\* A row that exists goes on existing.
LEMMA RowsStay ==
    ASSUME TypeOK, Inductive, [Next]_vars, NEW m \in Messages,
           row[m].status # "absent"
    PROVE  row'[m].status # "absent"
<1>1. row \in [Messages -> Rows]
  BY DEF TypeOK, ShapesOK
<1>2. CASE QuietStep(m)
  BY <1>1, <1>2, AgedColumns, NewColumns, RefreshedColumns, SettledColumns,
     RequeuedColumns DEF QuietStep, Received, Returned, SettledBy
<1>3. ASSUME NEW n \in Messages, Claiming(n) PROVE row'[m].status # "absent"
  BY <1>1, <1>3, ClaimedColumns DEF Claiming
<1> QED
  BY <1>2, <1>3, RowSteps

\* An outcome is written by a commit only, after the reply was accepted.
LEMMA AnsweredStep ==
    ASSUME TypeOK, Inductive, [Next]_vars
    PROVE  AnsweredWasSent'
<1> SUFFICES ASSUME NEW m \in Messages, row'[m].outcome \in Answered
             PROVE  accepted[m] > 0
  BY AcceptedGrows DEF AnsweredWasSent
<1>1. row \in [Messages -> Rows]
  BY DEF TypeOK, ShapesOK
<1>2. row[m].outcome \in Answered => accepted[m] > 0
  BY DEF Inductive, AnsweredWasSent
<1>3. CASE QuietStep(m)
  <2>1. ASSUME NEW w \in Slots, SettledBy(w, m) PROVE accepted[m] > 0
    <3>1. row'[m].outcome = worker[w].verdict
      BY <1>1, <2>1, SettledColumns DEF SettledBy
    <3> QED
      BY <2>1, <3>1 DEF SettledBy, Inductive, WorkerSound
  <2>2. (\A w \in Slots : ~SettledBy(w, m)) =>
           row'[m].outcome \in {"none", row[m].outcome}
    BY <1>1, <1>3, AgedColumns, NewColumns, RefreshedColumns, RequeuedColumns
       DEF QuietStep, Received, Returned
  <2> QED
    BY <1>2, <2>1, <2>2 DEF Answered
<1>4. ASSUME NEW n \in Messages, Claiming(n) PROVE row'[m].outcome = row[m].outcome
  BY <1>1, <1>4, ClaimedColumns DEF Claiming
<1> QED
  BY <1>2, <1>3, <1>4, RowSteps

\* A worker that does not move stays sound.
LEMMA OthersSound ==
    ASSUME TypeOK, Inductive, [Next]_vars, NEW u \in Slots,
           worker'[u] = worker[u]
    PROVE  WorkerSound(u)'
<1>1. run \in Nat /\ run <= run' /\ u[1] \in Nat
  BY RunGrows, Bounds DEF TypeOK, ShapesOK, Slots, Runs
<1>2. worker[u].pc \notin {"off", "idle"} => worker[u].msg \in Messages
  BY Working DEF TypeOK, ShapesOK
<1>3. WorkerSound(u) 
  BY DEF Inductive
<1> QED
  BY <1>1, <1>2, <1>3, RowsStay, AcceptedGrows, TypeCorrectStep
     DEF WorkerSound, TypeOK, ShapesOK

\* Every step leaves every worker sound.
LEMMA WorkersStep ==
    ASSUME TypeOK, Inductive, [Next]_vars, NEW u \in Slots
    PROVE  WorkerSound(u)'
<1> USE DEF TypeOK, ShapesOK
<1>0. u[1] \in Runs /\ run \in Nat
  BY Bounds DEF Slots
<1>1. CASE Start
  <2>1. CASE u[1] = run + 1
    BY <1>0, <1>1, <2>1 DEF Start, WorkerSound, Idle, Off, Runs
  <2>2. CASE u[1] # run + 1
    BY <1>1, <2>2, OthersSound DEF Start
  <2> QED
    BY <2>1, <2>2
<1>2. CASE Crash
  BY <1>2 DEF Crash, WorkerSound, Off
<1>3. ASSUME \/ Stop \/ Poll \/ Connect \/ Disconnect \/ Tick \/ UNCHANGED vars
             \/ \E r \in Runs : Drain(r)
             \/ \E m \in Messages, p \in Priorities, a \in {0, ReplayWindow + 1} :
                   HandleEvent(m, p, a)
      PROVE  WorkerSound(u)'
  <2>1. worker' = worker
    BY <1>3 DEF Stop, Poll, Connect, Disconnect, Tick, vars, Drain, HandleEvent
  <2> QED
    BY <2>1, OthersSound
<1>4. ASSUME NEW w \in Slots, Claim(w) \/ WorkerStep(w), u # w
      PROVE  WorkerSound(u)'
  <2>1. worker'[u] = worker[u]
    BY <1>4 DEF Claim, WorkerStep, Quit, Prepare, Reply, SendAccepted,
       SendReturns, SendFailed, Commit, Move
  <2> QED
    BY <2>1, OthersSound
<1>5. CASE Claim(u)
  <2>1. PICK m \in Messages :
           /\ Candidate(m) /\ Take(m, u[1])
           /\ worker' = [worker EXCEPT ![u] = Holding(m)] \/ worker' = worker
    BY <1>5 DEF Claim
  <2>2. row'[m].status = "processing"
    BY <1>0, <2>1, ClaimedColumns DEF Take
  <2>3. u[1] <= run /\ run' = run
    BY <1>5 DEF Claim, Inductive, WorkerSound, life
  <2>4. CASE worker'[u] = Holding(m)
    BY <2>2, <2>3, <2>4 DEF WorkerSound, Holding
  <2> QED
    BY <2>1, <2>4, OthersSound
<1>6. CASE WorkerStep(u)
  <2>1. WorkerSound(u) /\ run' = run
    BY <1>6 DEF Inductive, WorkerStep, Quit, Prepare, Reply, SendAccepted,
       SendReturns, SendFailed, Commit, life
  <2>2. CASE Quit(u) \/ Commit(u)
    <3>1. worker'[u] \in {Off, Idle} /\ u[1] <= run
      BY <2>1, <2>2 DEF Quit, Commit, WorkerSound
    <3> QED
      BY <2>1, <3>1 DEF WorkerSound, Off, Idle
  <2>3. CASE ~(Quit(u) \/ Commit(u))
    <3>1. /\ worker[u].pc \in {"prepare", "reply", "send", "await"}
          /\ row' = row
      BY <1>6, <2>3 DEF WorkerStep, Prepare, Reply, SendAccepted, SendReturns,
         SendFailed, table
    <3>2. worker[u] \in AtWork /\ worker[u].msg \in Messages
      BY <3>1, Working
    <3>3. worker'[u].msg = worker[u].msg
      BY <1>6, <2>3, <3>2 DEF WorkerStep, Prepare, Reply, SendAccepted,
         SendReturns, SendFailed, Move, AtWork
    <3> DEFINE pc == worker'[u].pc
               v == worker'[u].verdict
    <3>4. \A p2, v2 : Move(u, p2, v2) => pc = p2 /\ v = v2
      BY <3>2 DEF Move, AtWork
    <3> DEFINE Sound == /\ pc \in {"reply", "send", "await", "commit"}
                        /\ pc \in {"send", "await"} => v \in Answered
                        /\ pc = "commit" => v # "none"
                        /\ pc = "await" \/ (pc = "commit" /\ v \in Answered)
                             => accepted'[worker[u].msg] > 0
    <3>5. ASSUME Prepare(u) \/ Reply(u) PROVE Sound
      BY <3>4, <3>5 DEF Prepare, Reply, Answered
    <3>6. ASSUME SendAccepted(u) PROVE Sound
      <4>1. accepted'[worker[u].msg] > 0
        BY <3>2, <3>6 DEF SendAccepted
      <4>2. worker[u].verdict \in Answered
        BY <2>1, <3>6 DEF SendAccepted, WorkerSound
      <4> QED
        BY <3>4, <3>6, <4>1, <4>2 DEF SendAccepted, Answered
    <3>7. ASSUME SendReturns(u) PROVE Sound
      BY <2>1, <3>4, <3>7 DEF SendReturns, Answered, WorkerSound
    <3>8. ASSUME SendFailed(u) PROVE Sound
      BY <2>1, <3>4, <3>8 DEF SendFailed, Answered, WorkerSound
    <3>9. Sound
      BY <1>6, <2>3, <3>5, <3>6, <3>7, <3>8 DEF WorkerStep
    <3> QED
      BY <2>1, <3>1, <3>3, <3>9 DEF WorkerSound
  <2> QED
    BY <2>2, <2>3
<1> QED
  BY <1>1, <1>2, <1>3, <1>4, <1>5, <1>6, Zenon DEF Next

\* Every step keeps the inductive invariant.
LEMMA InductiveStep ==
    ASSUME TypeOK, Inductive, [Next]_vars PROVE Inductive'
BY RowsStep, AnsweredStep, WorkersStep DEF Inductive, Slots

\* The inductive invariant holds at the start.
LEMMA InductiveInit == Init => Inductive
<1> SUFFICES ASSUME Init PROVE Inductive
  OBVIOUS
<1>1. RowsConsistent /\ AnsweredWasSent
  BY DEF Init, RowsConsistent, AnsweredWasSent, Coherent, NoRow, Answered
<1>2. \A w \in Slots : WorkerSound(w)
  BY DEF Init, WorkerSound, Off
<1> QED
  BY <1>1, <1>2 DEF Inductive

\* The inductive invariant: what the rows, the workers and the accepted
\* replies have to do with each other.
THEOREM Soundness == Spec => []Inductive
<1>1. Init => Inductive
  BY InductiveInit
<1>2. TypeOK /\ Inductive /\ [Next]_vars => Inductive'
  BY InductiveStep
<1> QED
  BY <1>1, <1>2, TypeCorrect, PTL DEF Spec

-----------------------------------------------------------------------------
(* What follows.                                                           *)

\* The lease columns, the outcome and the status of a row always agree.
THEOREM RowsAlwaysConsistent == Spec => []RowsConsistent
<1>1. Inductive => RowsConsistent
  BY DEF Inductive
<1> QED
  BY <1>1, Soundness, PTL

\* Whatever fails in between and whichever worker commits: a message that is
\* settled as answered had a reply accepted by QQ.
THEOREM AnswersWereSent == Spec => []AnsweredWasSent
<1>1. Inductive => AnsweredWasSent
  BY DEF Inductive
<1> QED
  BY <1>1, Soundness, PTL

\* No step of any worker, run or restart reopens or changes a row once it is
\* done.
THEOREM DoneStaysDone == Spec => DoneIsFinal
<1> DEFINE Final == \A m \in Messages :
                      row[m].status = "done" => row'[m] = row[m]
<1>1. ASSUME TypeOK, Inductive, [Next]_vars PROVE Final
  <2> SUFFICES ASSUME NEW m \in Messages, row[m].status = "done"
               PROVE  row'[m] = row[m]
    OBVIOUS
  <2>1. row \in [Messages -> Rows] /\ run \in Nat
    BY <1>1, Bounds DEF TypeOK, ShapesOK
  <2>2. Coherent(row[m]) /\ row[m].owner <= run
    BY <1>1 DEF Inductive, RowsConsistent
  <2>3. CASE QuietStep(m)
    BY <2>1, <2>2, <2>3, QuietRow
  <2>4. ASSUME NEW n \in Messages, Claiming(n) PROVE row'[m] = row[m]
    <3>1. m # n
      BY <2>4, ClaimableFree DEF Claiming
    <3> QED
      BY <2>1, <2>4, <3>1 DEF Claiming
  <2> QED
    BY <1>1, <2>3, <2>4, RowSteps
<1>2. TypeOK /\ Inductive /\ [Next]_vars => [Final]_vars
  BY <1>1
<1> QED
  BY <1>2, Soundness, TypeCorrect, PTL DEF Spec, DoneIsFinal

\* An unexpired lease is never taken over: it ends through its own run's
\* worker or drain, or when the process that held it is gone.
THEOREM LeasesAreRespected == Spec => LeaseRespected
<1> DEFINE Respected ==
      \A m \in Messages : LET r == row[m].owner IN
         Leased(m) /\ row'[m].owner # r =>
            \/ \E w \in Workers : worker[<<r, w>>].msg = m
                                  /\ worker[<<r, w>>].pc = "commit"
            \/ coord[r] = "draining" /\ coord'[r] = "ended"
            \/ ~inboundInit
<1>1. ASSUME TypeOK, Inductive, [Next]_vars PROVE Respected
  <2> SUFFICES ASSUME NEW m \in Messages, Leased(m),
                      row'[m].owner # row[m].owner
               PROVE  \/ \E w \in Workers :
                            /\ worker[<<row[m].owner, w>>].msg = m
                            /\ worker[<<row[m].owner, w>>].pc = "commit"
                      \/ coord[row[m].owner] = "draining"
                         /\ coord'[row[m].owner] = "ended"
                      \/ ~inboundInit
    OBVIOUS
  <2>1. row \in [Messages -> Rows]
    BY <1>1 DEF TypeOK, ShapesOK
  <2>2. row[m].status = "processing"
    BY DEF Leased
  <2>3. ASSUME NEW n \in Messages, Claiming(n) PROVE row'[m] = row[m]
    <3>1. m # n
      BY <2>3, ClaimableFree DEF Claiming
    <3> QED
      BY <2>1, <2>3, <3>1 DEF Claiming
  <2>4. CASE QuietStep(m)
    <3>1. Returned(m) \/ \E w \in Slots : SettledBy(w, m)
      BY <2>1, <2>2, <2>4, AgedColumns DEF QuietStep, Received
    <3>2. ASSUME NEW w \in Slots, worker[w].pc = "commit", worker[w].msg = m,
                 row[m].owner = w[1]
          PROVE  \E v \in Workers : /\ worker[<<row[m].owner, v>>].msg = m
                                   /\ worker[<<row[m].owner, v>>].pc = "commit"
      <4>1. w = <<w[1], w[2]>> /\ w[2] \in Workers
        BY DEF Slots
      <4> QED
        BY <3>2, <4>1
    <3> QED
      BY <3>1, <3>2 DEF Returned, SettledBy
  <2> QED
    BY <1>1, <2>3, <2>4, RowSteps
<1>2. TypeOK /\ Inductive /\ [Next]_vars => [Respected]_vars
  BY <1>1
<1> QED
  BY <1>2, Soundness, TypeCorrect, PTL DEF Spec, LeaseRespected

\* However many runs, restarts and expired leases: a conversation never has
\* more unexpired leases than its limit.
THEOREM SessionsAreLimited == Spec => []SessionLimit
<1>1. Init => SessionLimit
  <2> SUFFICES ASSUME Init, NEW s \in Sessions
               PROVE  Cardinality(Busy(s)) <= Limit[s]
    BY DEF SessionLimit
  <2>1. Busy(s) = {}
    BY DEF Init, Busy, Leased, NoRow
  <2> QED
    BY <2>1, FS_EmptySet, QueueConstants
<1>2. TypeOK /\ Inductive /\ SessionLimit /\ [Next]_vars => SessionLimit'
  <2> SUFFICES ASSUME TypeOK, Inductive, SessionLimit, [Next]_vars,
                      NEW s \in Sessions
               PROVE  Cardinality(Busy(s)') <= Limit[s]
    BY DEF SessionLimit
  <2>1. row \in [Messages -> Rows] /\ run \in Nat
    BY Bounds DEF TypeOK, ShapesOK
  <2>2. \A t : IsFiniteSet(Busy(t)) /\ Cardinality(Busy(t)) \in Nat
    <3>1. \A t : Busy(t) \subseteq Messages
      BY DEF Busy
    <3> QED
      BY <3>1, FS_Subset, FS_CardinalityType, QueueConstants
  <2>3. Cardinality(Busy(s)) <= Limit[s] /\ Limit[s] \in Nat
    BY QueueConstants DEF SessionLimit
  <2>4. CASE \A m \in Messages : QuietStep(m)
    <3>1. Busy(s)' \subseteq Busy(s)
      <4> SUFFICES ASSUME NEW m \in Messages, Leased(m)' PROVE Leased(m)
        BY DEF Busy
      <4>1. Coherent(row[m]) /\ row[m].owner <= run
        BY DEF Inductive, RowsConsistent
      <4>2. row[m].lease > 0
        BY <2>1, <2>4, <4>1, QuietRow DEF Leased
      <4> QED
        BY <4>1, <4>2 DEF Leased, Coherent
    <3>2. Cardinality(Busy(s)') <= Cardinality(Busy(s))
      BY <2>2, <3>1, FS_Subset
    <3>3. Cardinality(Busy(s)') \in Nat
      BY <2>2, <3>1, FS_Subset, FS_CardinalityType
    <3> QED
      BY <2>2, <2>3, <3>2, <3>3
  <2>5. ASSUME NEW n \in Messages, Claiming(n)
        PROVE  Cardinality(Busy(s)') <= Limit[s]
    <3>1. \A m \in Messages \ {n} : row'[m] = row[m]
      BY <2>1, <2>5 DEF Claiming
    <3>2. CASE SessionOf[n] # s
      <4>1. Busy(s)' = Busy(s)
        BY <3>1, <3>2 DEF Busy, Leased
      <4> QED
        BY <2>3, <4>1
    <3>3. CASE SessionOf[n] = s
      <4>1. Busy(s)' \subseteq Busy(s) \cup {n}
        BY <3>1 DEF Busy, Leased
      <4>2. Cardinality(Busy(s)) < Limit[s]
        BY <2>5, <3>3 DEF Claiming, Claimable
      <4>3. /\ IsFiniteSet(Busy(s) \cup {n})
            /\ Cardinality(Busy(s) \cup {n}) <= Cardinality(Busy(s)) + 1
            /\ Cardinality(Busy(s) \cup {n}) \in Nat
        BY <2>2, FS_AddElement, FS_CardinalityType
      <4>4. /\ Cardinality(Busy(s)') <= Cardinality(Busy(s) \cup {n})
            /\ Cardinality(Busy(s)') \in Nat
        BY <4>1, <4>3, FS_Subset, FS_CardinalityType
      <4> QED
        BY <2>2, <2>3, <4>2, <4>3, <4>4
    <3> QED
      BY <3>2, <3>3
  <2> QED
    BY <2>4, <2>5, RowSteps
<1> QED
  BY <1>1, <1>2, Soundness, TypeCorrect, PTL DEF Spec

-----------------------------------------------------------------------------
(* The queue implements InboxPromise, fairness apart.                      *)

\* A claim, a release and the passing of time do not show from outside.
LEMMA StandingKept ==
    ASSUME NEW m \in Messages, row[m] \in Rows,
           \/ row'[m] = row[m]
           \/ row'[m] = Aged(row[m])
           \/ \E p \in Priorities : row'[m] = Refreshed(row[m], p)
           \/ \E r \in Runs : row[m].status \in {"pending", "processing"}
                               /\ row'[m] = Claimed(row[m], r)
           \/ \E delay \in 0 .. MaxDelay : row[m].status = "processing"
                               /\ row'[m] = Requeued(row[m], delay)
    PROVE  Standing(m)' = Standing(m)
BY AgedColumns, RefreshedColumns, ClaimedColumns, RequeuedColumns DEF Standing

\* Every step of the queue is a step of InboxPromise or a stutter.
LEMMA PromiseStep ==
    ASSUME TypeOK, Inductive, [Next]_vars
    PROVE  [Promise!Next]_(Promise!vars)
<1> USE DEF TypeOK, ShapesOK
<1> DEFINE inbox == [m \in Messages |-> Standing(m)]
           SameAccepted == accepted' = accepted
                   /\ \A m \in Messages : Standing(m)' = Standing(m)
           Goal == [Promise!Next]_(Promise!vars)
<1>0. SameAccepted => Goal
  BY DEF Promise!vars
<1> HIDE DEF Goal
<1>1. ASSUME Start PROVE Goal
  <2>1. ASSUME NEW m \in Messages PROVE Standing(m)' = Standing(m)
    <3>1. \/ row'[m] = row[m]
          \/ row[m].status = "processing" /\ row'[m] = Requeued(row[m], 0)
      BY <1>1 DEF Start, ReleaseInboundLeases
    <3>2. 0 \in 0 .. MaxDelay
      BY Bounds
    <3> QED
      BY <3>1, <3>2, StandingKept
  <2> QED
    BY <1>0, <1>1, <2>1 DEF Start
<1>2. ASSUME Stop \/ Crash \/ Poll \/ Connect \/ Disconnect \/ UNCHANGED vars PROVE Goal
  BY <1>0, <1>2, StandingKept
     DEF Stop, Crash, Poll, Connect, Disconnect, vars, table
<1>3. ASSUME Tick PROVE Goal
  BY <1>0, <1>3, StandingKept DEF Tick
<1>4. ASSUME NEW r \in Runs, Drain(r) PROVE Goal
  <2>1. ASSUME NEW m \in Messages PROVE Standing(m)' = Standing(m)
    <3>1. \/ row'[m] = row[m]
          \/ row[m].status = "processing" /\ row'[m] = Requeued(row[m], 0)
      BY <1>4 DEF Drain, ReleaseInboundLeases
    <3>2. 0 \in 0 .. MaxDelay
      BY Bounds
    <3> QED
      BY <3>1, <3>2, StandingKept
  <2> QED
    BY <1>0, <1>4, <2>1 DEF Drain
<1>5. ASSUME NEW m \in Messages, NEW p \in Priorities,
             NEW a \in {0, ReplayWindow + 1}, HandleEvent(m, p, a)
      PROVE  Goal
  <2>1. CASE row[m].status = "absent"
    <3>1. row' = [row EXCEPT ![m] = NewRow(p)] /\ accepted' = accepted
      BY <1>5, <2>1 DEF HandleEvent, Enqueue
    <3>2. Standing(m) = "absent" /\ Standing(m)' = "open"
      BY <2>1, <3>1, NewColumns DEF Standing
    <3>3. \A n \in Messages \ {m} : Standing(n)' = Standing(n)
      BY <3>1 DEF Standing
    <3>4. Promise!Receive(m)
      BY <3>1, <3>2, <3>3 DEF Promise!Receive
    <3> QED
      BY <3>4 DEF Promise!Next, Goal
  <2>2. CASE row[m].status # "absent"
    <3>1. \A n \in Messages : row'[n] = row[n]
                               \/ row'[n] = Refreshed(row[n], p)
      BY <1>5, <2>2 DEF HandleEvent, Enqueue
    <3>2. SameAccepted
      BY <1>5, <3>1, StandingKept DEF HandleEvent
    <3> QED
      BY <1>0, <3>2
  <2> QED
    BY <2>1, <2>2
<1>6. ASSUME NEW w \in Slots, Claim(w) PROVE Goal
  <2>1. PICK m \in Messages : Claimable(m) /\ Take(m, w[1])
    BY <1>6 DEF Claim, Candidate
  <2>2. row[m].status \in {"pending", "processing"}
    BY <2>1, ClaimableFree
  <2>3. w[1] \in Runs
    BY DEF Slots
  <2>4. ASSUME NEW n \in Messages PROVE Standing(n)' = Standing(n)
    BY <2>1, <2>2, <2>3, StandingKept DEF Take
  <2> QED
    BY <1>0, <1>6, <2>4 DEF Claim
<1>7. ASSUME NEW w \in Slots, SendAccepted(w) PROVE Goal
  <2>1. worker[w].msg \in Messages /\ row' = row
    BY <1>7, Working DEF SendAccepted, table
  <2>2. Standing(worker[w].msg) # "absent"
    BY <1>7, <2>1 DEF Inductive, WorkerSound, SendAccepted, Standing
  <2>3. \A m \in Messages : Standing(m)' = Standing(m)
    BY <2>1 DEF Standing
  <2>4. Promise!Accept(worker[w].msg)
    BY <1>7, <2>1, <2>2, <2>3 DEF Promise!Accept, SendAccepted
  <2> QED
    BY <2>1, <2>4 DEF Promise!Next, Goal
<1>8. ASSUME NEW w \in Slots,
             Quit(w) \/ Prepare(w) \/ Reply(w) \/ SendReturns(w) \/ SendFailed(w)
      PROVE  Goal
  <2>1. row' = row /\ accepted' = accepted
    BY <1>8 DEF Quit, Prepare, Reply, SendReturns, SendFailed, table
  <2> QED
    BY <1>0, <2>1, StandingKept
<1>9. ASSUME NEW w \in Slots, Commit(w) PROVE Goal
  <2>0. PICK m \in Messages, v \in Outcomes \cup {"none", "retry"} :
           m = worker[w].msg /\ v = worker[w].verdict
    BY <1>9, Working DEF Commit, AtWork
  <2> DEFINE delay == IF Cancelled(w[1]) THEN 0
                      ELSE RetryDelay[worker[w].attempts]
  <2>1. worker[w] \in AtWork /\ accepted' = accepted
    BY <1>9, Working DEF Commit
  <2>2. delay \in 0 .. MaxDelay
    BY <2>1, Bounds DEF AtWork
  <2>3. v # "none" /\ (v \in Answered => accepted[m] > 0)
    BY <1>9, <2>0 DEF Commit, Inductive, WorkerSound
  <2>4. CASE v = "retry" /\ RetryInboundEvent(m, w[1], delay)
    <3>1. ASSUME NEW n \in Messages PROVE Standing(n)' = Standing(n)
      <4>1. row'[n] = row[n] \/ (row[n].status = "processing"
                                  /\ row'[n] = Requeued(row[n], delay))
        BY <2>4 DEF RetryInboundEvent, Held
      <4> HIDE DEF delay
      <4> QED
        BY <2>2, <4>1, StandingKept
    <3> QED
      BY <1>0, <2>1, <3>1
  <2>5. CASE v # "retry" /\ CompleteInboundEvent(m, w[1], v)
    <3>1. CASE ~Held(m, w[1])
      BY <1>0, <2>1, <2>5, <3>1, StandingKept DEF CompleteInboundEvent
    <3>2. CASE Held(m, w[1])
      <4>1. row' = [row EXCEPT ![m] = Settled(row[m], v)]
        BY <2>5, <3>2 DEF CompleteInboundEvent
      <4>2. Standing(m) = "open"
        BY <3>2 DEF Held, Standing
      <4>3. Standing(m)' = IF v \in Answered THEN "answered" ELSE "closed"
        <5>1. row'[m].status = "done" /\ row'[m].outcome = v
          BY <2>1, <4>1, SettledColumns
        <5> QED
          BY <5>1 DEF Standing
      <4>4. \A n \in Messages \ {m} : Standing(n)' = Standing(n)
        BY <4>1 DEF Standing
      <4>5. CASE v \in Answered
        <5>1. inbox' = [inbox EXCEPT ![m] = "answered"]
          BY <2>1, <4>3, <4>4, <4>5
        <5>2. Promise!SettleAnswered(m)
          BY <2>1, <2>3, <4>2, <4>5, <5>1 DEF Promise!SettleAnswered
        <5> QED
          BY <2>1, <5>2 DEF Promise!Next, Promise!Settle, Goal
      <4>6. CASE v \notin Answered
        <5>1. inbox' = [inbox EXCEPT ![m] = "closed"]
          BY <2>1, <4>3, <4>4, <4>6
        <5>2. Promise!SettleClosed(m)
          BY <2>1, <4>2, <5>1 DEF Promise!SettleClosed
        <5> QED
          BY <2>1, <5>2 DEF Promise!Next, Promise!Settle, Goal
      <4> QED
        BY <4>5, <4>6
    <3> QED
      BY <3>1, <3>2
  <2>6. CASE UNCHANGED row
    BY <1>0, <2>1, <2>6, StandingKept
  <2> QED
    BY <1>9, <2>0, <2>4, <2>5, <2>6 DEF Commit
<1> QED
  BY <1>1, <1>2, <1>3, <1>4, <1>5, <1>6, <1>7, <1>8, <1>9
     DEF Next, WorkerStep, Goal

\* Seen from outside, the queue settles each message once, and as answered
\* only when a reply was accepted: every step of the workers, leases, retries
\* and restarts is a step of InboxPromise or none.
THEOREM QueueKeepsPromise == Spec => KeepsPromise
<1>1. Init => Promise!Init
  BY DEF Init, Promise!Init, Standing, NoRow
<1>2. TypeOK /\ Inductive /\ [Next]_vars => [Promise!Next]_(Promise!vars)
  BY PromiseStep
<1> QED
  BY <1>1, <1>2, Soundness, TypeCorrect, PTL
     DEF Spec, KeepsPromise, Promise!Safety

\* The inbox is safe for any conversations, limits, workers and faults: no
\* answer is recorded that QQ did not take, no conversation exceeds its limit.
THEOREM InboxIsSafe == Spec => []InboxSafe
<1> QED
  BY TypeCorrect, AnswersWereSent, SessionsAreLimited, PTL DEF InboxSafe

-----------------------------------------------------------------------------
(* Agent runs: the invariant.  A Generate has tried the profiles in turn     *)
(* from the current one: when as many were tried as there are, none is left. *)

Profiles == [id : ProfileIds, group : Groups, version : Nat]
Sets == [active : ProfileIds, profiles : Seq(Profiles)]
Distinct(ps) == \A i, j \in DOMAIN ps : ps[i].id = ps[j].id => i = j

\* A set that may be stored has a profile, and none twice.
Whole(s) == s \in Sets /\ s.profiles # <<>> /\ Distinct(s.profiles)
StoreIsWhole ==
    /\ Whole(set) /\ set.active \in IdsOf(set)
    /\ \A w \in AgentRuns \cup Requests : saving[w] = NotSaving \/ Whole(saving[w])

Failures == {"late", "transient", "switch"}
Points == {"ready", "next", "call", "pause", "activate", "saving", "returned"}
Generates ==
    [pc : Points, list : Seq(Profiles), activates : BOOLEAN, retries : Nat, current : Nat,
     clients : Seq({"unloaded", "loaded", "switch", "fatal"}), offset : Nat, attempt : Int,
     timeout : Int, tried : SUBSET Nat, result : {"none", "ok", "ended", "fatal"} \cup Failures]

\* The place that a Generate tries after o others; and those it tried so far
Place(g, o) == ((g.current - 1 + o) % Len(g.list)) + 1
TriedInTurn(g) == g.tried = {Place(g, o) : o \in 0 .. g.offset - 1}

Searching == {"next", "call", "pause"}

\* The state of a search for a profile that answers
InSearch(g) ==
    /\ Len(g.clients) = Len(g.list) /\ g.offset <= Len(g.list)
    /\ g.list # <<>> => g.current \in 1 .. Len(g.list)
    /\ g.pc = "ready" => g.offset = 0 /\ g.tried = {} /\ g.result = "none"
    /\ g.pc \in Searching => TriedInTurn(g) /\ g.result \in Failures \cup {"none"}
    /\ g.pc \in {"call", "pause"} => g.offset < Len(g.list)
    /\ g.pc \in {"activate", "saving"} => g.result = "ok" /\ g.list # <<>>
    /\ g.pc = "returned" /\ g.result \in Failures => g.tried = 1 .. Len(g.list)

Loops ==
    [kind : Kinds, pc : {"plan", "close", "asked", "tool"}, toolCalls : 0 .. MaxSteps,
     searches : Nat, repairs : 0 .. RepairLimit, last : Calls \cup {NoTool}, ran : Seq(Calls),
     observed : Nat, closing : BOOLEAN,
     reason : {"final", "tool_budget_exhausted", "finalization_reserved",
               "protocol_repair_exhausted"}]

\* A loop and its provider: the loop asks while a Generate is under way, and has
\* shown the model every result but that of the tool that runs.
Fits(l, g) ==
    /\ l \in Loops /\ g \in Generates /\ InSearch(g)
    /\ l.pc = "asked" <=> g.pc # "ready"
    /\ l.observed + (IF l.pc = "tool" THEN 1 ELSE 0) = Len(l.ran)
    /\ l.pc = "close" => l.closing
    /\ l.closing => l.pc \in {"close", "asked"}
    /\ ~l.closing => l.repairs < RepairLimit
    /\ l.pc = "asked" /\ ~l.closing => l.toolCalls < MaxSteps

\* The store, the clocks, and each run with its provider
StoreInv ==
    /\ StoreIsWhole
    /\ saving \in [AgentRuns \cup Requests -> Sets \cup {NotSaving}]

TimeInv ==
    left \in [AgentRuns -> 0 .. Deadline] /\ cutoff \in [AgentRuns -> 0 .. Deadline]

RunInv ==
    /\ gen \in [AgentRuns -> Generates \cup {NoProvider}]
    /\ loop \in [AgentRuns -> Loops \cup {Resting}]
    /\ \A r \in AgentRuns : \/ loop[r] = Resting /\ gen[r] = NoProvider
                            \/ Fits(loop[r], gen[r])

AgentInv == StoreInv /\ TimeInv /\ RunInv

-----------------------------------------------------------------------------
(* Agent runs: choosing from a sequence. *)

\* A set of numbers has a least one: induction, for sets.
LEMMA LeastOf ==
    ASSUME NEW T, T \subseteq Nat, T # {}
    PROVE  \E x \in T : \A y \in T : ~(y < x)
<1>1. \E x \in T : \A y \in T : ~(<<y, x>> \in OpToRel(<, Nat))
  BY NatLessThanWellFounded, WFMin
<1> QED  BY <1>1 DEF OpToRel

LEMMA Counting ==
    ASSUME NEW T, 0 \in T, \A n \in T \cap Nat : n + 1 \in T
    PROVE  Nat \subseteq T
<1> SUFFICES ASSUME Nat \ T # {}  PROVE FALSE
  OBVIOUS
<1>1. PICK x \in Nat \ T : \A y \in Nat \ T : ~(y < x)
  BY LeastOf
<1>2. x # 0 /\ x - 1 \in Nat /\ x - 1 < x /\ x - 1 + 1 = x  OBVIOUS
<1>3. x - 1 \in T  BY <1>1, <1>2
<1> QED  BY <1>1, <1>2, <1>3

\* d is what Those has found after each of the first n profiles.
Taken(d, p, S) == IF p \in S THEN Append(d, p) ELSE d
Choosing(d, ps, S, n) ==
    d = [i \in 0 .. n |-> IF i = 0 THEN <<>> ELSE Taken(d[i - 1], ps[i], S)]

LEMMA ChoosingExtends ==
    ASSUME NEW ps, NEW S, NEW n \in Nat, NEW d, Choosing(d, ps, S, n)
    PROVE  \E e : Choosing(e, ps, S, n + 1)
<1> DEFINE e == [i \in 0 .. n + 1 |-> IF i = n + 1 THEN Taken(d[n], ps[i], S) ELSE d[i]]
<1>1. ASSUME NEW i \in 0 .. n + 1
      PROVE  e[i] = IF i = 0 THEN <<>> ELSE Taken(e[i - 1], ps[i], S)
  <2>1. CASE i = n + 1
    <3>1. i # 0 /\ i - 1 = n /\ n \in 0 .. n + 1 /\ n # n + 1  BY <2>1
    <3> QED  BY <2>1, <3>1
  <2>2. CASE i # n + 1 /\ i = 0
    <3>1. 0 \in 0 .. n  OBVIOUS
    <3> QED  BY <2>2, <3>1 DEF Choosing
  <2>3. CASE i # n + 1 /\ i # 0
    <3>1. i \in 0 .. n /\ i - 1 \in 0 .. n /\ i - 1 \in 0 .. n + 1 /\ i - 1 # n + 1  BY <2>3
    <3>2. d[i] = Taken(d[i - 1], ps[i], S)  BY <2>3, <3>1 DEF Choosing
    <3> QED  BY <2>3, <3>1, <3>2
  <2> QED  BY <2>1, <2>2, <2>3
<1>2. e = [i \in 0 .. n + 1 |-> IF i = 0 THEN <<>> ELSE Taken(e[i - 1], ps[i], S)]
  BY <1>1
<1> HIDE DEF e
<1> QED  BY <1>2 DEF Choosing

LEMMA ThoseIsChoosing ==
    ASSUME NEW A, NEW ps \in Seq(A), NEW S
    PROVE  \E d : Choosing(d, ps, S, Len(ps)) /\ Those(ps, S) = d[Len(ps)]
<1> DEFINE T == {n \in Nat : \E d : Choosing(d, ps, S, n)}
<1>1. Len(ps) \in Nat  BY LenProperties
<1>2. Choosing([i \in 0 .. 0 |-> <<>>], ps, S, 0)  BY DEF Choosing
<1>3. 0 \in T  BY <1>2
<1>4. \A n \in T \cap Nat : n + 1 \in T  BY ChoosingExtends
<1> HIDE DEF T
<1>5. Len(ps) \in T  BY <1>1, <1>3, <1>4, Counting
<1>6. \E d : Choosing(d, ps, S, Len(ps))  BY <1>5 DEF T
<1>7. Those(ps, S) = (CHOOSE d : Choosing(d, ps, S, Len(ps)))[Len(ps)]
  BY DEF Those, Choosing, Taken
<1> QED  BY <1>6, <1>7

\* Those are profiles of the sequence, all of them in S, and none twice.
LEMMA ThoseAre ==
    ASSUME NEW A, NEW ps \in Seq(A), NEW S
    PROVE  /\ Those(ps, S) \in Seq(A)
           /\ \A i \in DOMAIN Those(ps, S) : Those(ps, S)[i] \in S
           /\ (\E i \in DOMAIN ps : ps[i] \in S) => Those(ps, S) # <<>>
           /\ Distinct(ps) => Distinct(Those(ps, S))
<1>1. PICK d : Choosing(d, ps, S, Len(ps)) /\ Those(ps, S) = d[Len(ps)]
  BY ThoseIsChoosing
<1>2. Len(ps) \in Nat /\ DOMAIN ps = 1 .. Len(ps)  BY LenProperties
<1> DEFINE Sound(n, e) ==
             /\ e \in Seq(A)
             /\ \A i \in 1 .. Len(e) : e[i] \in S /\ \E j \in 1 .. n : e[i] = ps[j]
             /\ \A j \in 1 .. n : ps[j] \in S => e # <<>>
             /\ Distinct(ps) => Distinct(e)
           T == {n \in Nat : n <= Len(ps) => Sound(n, d[n])}
<1>3. 0 \in T
  <2>1. d[0] = <<>>  BY <1>1, <1>2 DEF Choosing
  <2>2. <<>> \in Seq(A) /\ Len(<<>>) = 0  OBVIOUS
  <2>3. DOMAIN <<>> = {} /\ 1 .. 0 = {}  OBVIOUS
  <2>4. Distinct(<<>>)  BY <2>3 DEF Distinct
  <2>5. Sound(0, <<>>)  BY <2>2, <2>3, <2>4
  <2> HIDE DEF Sound
  <2> QED  BY <2>1, <2>5
<1>4. ASSUME NEW n \in T \cap Nat  PROVE n + 1 \in T
  <2> SUFFICES ASSUME n + 1 <= Len(ps)  PROVE Sound(n + 1, d[n + 1])
    OBVIOUS
  <2>1. Sound(n, d[n])  BY <1>2
  <2>2. d[n + 1] = Taken(d[n], ps[n + 1], S)
    <3>1. n + 1 \in 0 .. Len(ps) /\ n + 1 # 0 /\ (n + 1) - 1 = n  BY <1>2
    <3> QED  BY <1>1, <3>1 DEF Choosing
  <2> DEFINE e == d[n]
             p == ps[n + 1]
  <2>3. p \in A /\ n + 1 \in 1 .. n + 1 /\ n + 1 \in 1 .. Len(ps)  BY <1>2, ElementOfSeq
  <2>4. \A j \in 1 .. n + 1 : j \in 1 .. n \/ j = n + 1  OBVIOUS
  <2>5. \A j \in 1 .. n : j \in 1 .. n + 1 /\ j \in 1 .. Len(ps) /\ j # n + 1  BY <1>2
  <2>6. Sound(n, e) /\ d[n + 1] = Taken(e, p, S)  BY <2>1, <2>2
  <2> HIDE DEF e, p
  <2>7. CASE p \notin S
    <3>1. d[n + 1] = e  BY <2>6, <2>7 DEF Taken
    <3>2. \A j \in 1 .. n + 1 : ps[j] \in S => e # <<>>  BY <2>4, <2>6, <2>7 DEF p
    <3>3. \A i \in 1 .. Len(e) : e[i] \in S /\ \E j \in 1 .. n + 1 : e[i] = ps[j]
      BY <2>5, <2>6
    <3> QED  BY <2>6, <3>1, <3>2, <3>3
  <2>8. CASE p \in S
    <3> DEFINE f == Append(e, p)
    <3>1. d[n + 1] = f  BY <2>6, <2>8 DEF Taken
    <3>2. /\ f \in Seq(A) /\ Len(f) = Len(e) + 1 /\ f[Len(e) + 1] = p /\ f # <<>>
          /\ \A i \in 1 .. Len(e) : f[i] = e[i]
      <4>1. e \in Seq(A)  BY <2>6
      <4> QED  BY <4>1, <2>3, AppendProperties
    <3>3. Len(e) \in Nat /\ DOMAIN e = 1 .. Len(e) /\ DOMAIN f = 1 .. Len(f)
      <4>1. e \in Seq(A)  BY <2>6
      <4> QED  BY <4>1, <3>2, LenProperties
    <3> HIDE DEF f
    <3>4. \A i \in 1 .. Len(f) : i \in 1 .. Len(e) \/ i = Len(e) + 1  BY <3>2, <3>3
    <3>5. \A i \in 1 .. Len(f) : f[i] \in S /\ \E j \in 1 .. n + 1 : f[i] = ps[j]
      <4> SUFFICES ASSUME NEW i \in 1 .. Len(f)
                   PROVE  f[i] \in S /\ \E j \in 1 .. n + 1 : f[i] = ps[j]
        OBVIOUS
      <4>1. CASE i \in 1 .. Len(e)
        <5>1. f[i] = e[i]  BY <3>2, <4>1
        <5>2. e[i] \in S /\ \E j \in 1 .. n : e[i] = ps[j]  BY <2>6, <4>1
        <5> QED  BY <2>5, <5>1, <5>2
      <4>2. CASE i = Len(e) + 1
        <5>1. f[i] = p  BY <3>2, <4>2
        <5> QED  BY <2>3, <2>8, <5>1 DEF p
      <4> QED  BY <3>4, <4>1, <4>2
    <3>6. ASSUME Distinct(ps)  PROVE Distinct(f)
      <4>1. Distinct(e)  BY <2>6, <3>6
      <4>2. \A i \in 1 .. Len(e) : e[i].id # p.id
        <5> SUFFICES ASSUME NEW i \in 1 .. Len(e)  PROVE e[i].id # p.id
          OBVIOUS
        <5>1. PICK j \in 1 .. n : e[i] = ps[j]  BY <2>6
        <5> QED  BY <1>2, <2>3, <2>5, <3>6, <5>1 DEF Distinct, p
      <4>3. \A i, j \in 1 .. Len(f) : f[i].id = f[j].id => i = j
        BY <3>2, <3>3, <3>4, <4>1, <4>2 DEF Distinct
      <4> QED  BY <3>3, <4>3 DEF Distinct
    <3> QED  BY <3>1, <3>2, <3>5, <3>6
  <2> QED  BY <2>7, <2>8
<1> HIDE DEF T
<1>5. Len(ps) \in T  BY <1>2, <1>3, <1>4, Counting
<1>6. Sound(Len(ps), Those(ps, S))  BY <1>1, <1>2, <1>5 DEF T
<1> DEFINE e == Those(ps, S)
<1>7. DOMAIN e = 1 .. Len(e)  BY <1>6, LenProperties
<1> QED  BY <1>2, <1>6, <1>7

-----------------------------------------------------------------------------
(* Agent runs: sets of profiles. *)

LEMMA PositionOf ==
    ASSUME NEW s, NEW id \in IdsOf(s)
    PROVE  Position(s, id) \in DOMAIN s.profiles /\ s.profiles[Position(s, id)].id = id
<1>1. \E i \in DOMAIN s.profiles : s.profiles[i].id = id  BY DEF IdsOf, ToSet
<1> QED  BY <1>1 DEF Position

LEMMA FirstIsThere ==
    ASSUME NEW s, Whole(s)
    PROVE  /\ Len(s.profiles) \in Nat \ {0} /\ DOMAIN s.profiles = 1 .. Len(s.profiles)
           /\ s.profiles[1] \in Profiles /\ s.profiles[1].id \in IdsOf(s)
<1>1. s.profiles \in Seq(Profiles) /\ s.profiles # <<>>  BY DEF Whole, Sets
<1>2. Len(s.profiles) \in Nat \ {0} /\ DOMAIN s.profiles = 1 .. Len(s.profiles)
  BY <1>1, LenProperties, EmptySeq
<1>3. 1 \in 1 .. Len(s.profiles)  BY <1>2
<1>4. s.profiles[1] \in Profiles  BY <1>1, <1>3, ElementOfSeq
<1> QED  BY <1>2, <1>3, <1>4 DEF IdsOf, ToSet

LEMMA DefaultsAreWhole ==
    ASSUME NEW s, Whole(s)
    PROVE  /\ Whole(WithDefaults(s)) /\ WithDefaults(s).profiles = s.profiles
           /\ WithDefaults(s).active \in IdsOf(s)
           /\ IdsOf(WithDefaults(s)) = IdsOf(s)
<1>1. /\ s \in Sets /\ s.profiles \in Seq(Profiles) /\ s.profiles # <<>> /\ Distinct(s.profiles)
  BY DEF Whole, Sets
<1>2. CASE s.active \in IdsOf(s)
  <2>1. WithDefaults(s) = s  BY <1>2 DEF WithDefaults
  <2> QED  BY <1>2, <2>1
<1>3. CASE s.active \notin IdsOf(s)
  <2> DEFINE d == [s EXCEPT !.active = s.profiles[1].id]
  <2>1. WithDefaults(s) = d  BY <1>1, <1>3 DEF WithDefaults
  <2>2. s.profiles[1] \in Profiles /\ s.profiles[1].id \in IdsOf(s)  BY FirstIsThere
  <2>3. d \in Sets /\ d.profiles = s.profiles /\ d.active = s.profiles[1].id
    BY <1>1, <2>2 DEF Sets, Profiles
  <2> HIDE DEF d
  <2>4. IdsOf(d) = IdsOf(s)  BY <2>3 DEF IdsOf
  <2> QED  BY <1>1, <2>1, <2>2, <2>3, <2>4 DEF Whole
<1> QED  BY <1>2, <1>3

LEMMA CurrentIsThere ==
    ASSUME NEW s, Whole(s)
    PROVE  Current(s) \in Profiles /\ Current(s).id \in IdsOf(s)
<1> DEFINE d == WithDefaults(s)
<1>1. /\ d.profiles = s.profiles /\ d.active \in IdsOf(d)
      /\ Current(s) = s.profiles[Position(d, d.active)]
  BY DefaultsAreWhole DEF Current
<1> HIDE DEF d
<1>2. Position(d, d.active) \in DOMAIN s.profiles  BY <1>1, PositionOf
<1>3. s.profiles \in Seq(Profiles)  BY DEF Whole, Sets
<1>4. DOMAIN s.profiles = 1 .. Len(s.profiles)  BY <1>3, LenProperties
<1> QED  BY <1>1, <1>2, <1>3, <1>4, ElementOfSeq DEF IdsOf, ToSet

LEMMA UpsertIsWhole ==
    ASSUME NEW s, Whole(s), NEW id \in ProfileIds, NEW g \in Groups
    PROVE  Whole(Upsert(s, id, g))
<1> DEFINE u == Upsert(s, id, g)
           ps == s.profiles
<1>1. s \in Sets /\ ps \in Seq(Profiles) /\ ps # <<>> /\ Distinct(ps)  BY DEF Whole, Sets
<1>2. Len(ps) \in Nat \ {0} /\ DOMAIN ps = 1 .. Len(ps)  BY FirstIsThere
<1>3. CASE id \in IdsOf(s)
  <2> DEFINE p == Position(s, id)
             new == [id |-> id, group |-> g, version |-> ps[p].version + 1]
             qs == [ps EXCEPT ![p] = new]
  <2>1. p \in 1 .. Len(ps) /\ ps[p].id = id  BY <1>2, <1>3, PositionOf
  <2>2. ps[p] \in Profiles  BY <1>1, <2>1, ElementOfSeq
  <2>3. new \in Profiles /\ new.id = id  BY <2>2 DEF Profiles
  <2>4. u = [active |-> id, profiles |-> qs]  BY <1>3 DEF Upsert
  <2> HIDE DEF p, new
  <2>5. /\ qs \in Seq(Profiles) /\ DOMAIN qs = DOMAIN ps
        /\ \A i \in 1 .. Len(ps) : qs[i] = IF i = p THEN new ELSE ps[i]
    BY <1>1, <2>1, <2>3, ExceptSeq
  <2>6. \A i \in DOMAIN ps : qs[i].id = ps[i].id
    <3> HIDE DEF qs
    <3> QED  BY <1>2, <2>1, <2>3, <2>5
  <2>7. Distinct(qs)  BY <1>1, <2>5, <2>6 DEF Distinct
  <2>8. qs # <<>>
    <3>1. DOMAIN qs # {}  BY <1>2, <2>5
    <3> QED  BY <3>1
  <2> HIDE DEF qs
  <2> QED  BY <2>4, <2>5, <2>7, <2>8 DEF Whole, Sets
<1>4. CASE id \notin IdsOf(s)
  <2> DEFINE new == [id |-> id, group |-> g, version |-> 0]
             qs == Append(ps, new)
  <2>1. u = [active |-> id, profiles |-> qs]  BY <1>4 DEF Upsert
  <2>2. new \in Profiles /\ new.id = id  BY DEF Profiles
  <2> HIDE DEF new
  <2>3. /\ qs \in Seq(Profiles) /\ Len(qs) = Len(ps) + 1 /\ qs[Len(ps) + 1] = new /\ qs # <<>>
        /\ \A i \in 1 .. Len(ps) : qs[i] = ps[i]
    BY <1>1, <2>2, AppendProperties
  <2>4. DOMAIN qs = 1 .. Len(ps) + 1  BY <2>3, LenProperties
  <2> HIDE DEF qs
  <2>5. \A i \in 1 .. Len(ps) : ps[i].id # id  BY <1>2, <1>4 DEF IdsOf, ToSet
  <2>6. \A i \in DOMAIN qs : i \in 1 .. Len(ps) \/ i = Len(ps) + 1  BY <1>2, <2>4
  <2>7. Distinct(qs)
    <3> SUFFICES ASSUME NEW i \in DOMAIN qs, NEW j \in DOMAIN qs, qs[i].id = qs[j].id
                 PROVE  i = j
      BY DEF Distinct
    <3> QED  BY <1>1, <1>2, <2>2, <2>3, <2>5, <2>6 DEF Distinct
  <2> QED  BY <2>1, <2>3, <2>7 DEF Whole, Sets
<1> QED  BY <1>3, <1>4

LEMMA DeleteIsWhole ==
    ASSUME NEW s, Whole(s), Len(s.profiles) > 1, NEW id
    PROVE  Whole(Delete(s, id))
<1> DEFINE ps == s.profiles
           S == {p \in ToSet(ps) : p.id # id}
           qs == Those(ps, S)
           d == [s EXCEPT !.profiles = qs]
<1>1. s \in Sets /\ ps \in Seq(Profiles) /\ Distinct(ps)  BY DEF Whole, Sets
<1>2. Len(ps) \in Nat /\ DOMAIN ps = 1 .. Len(ps)  BY FirstIsThere
<1>3. \E i \in DOMAIN ps : ps[i] \in S
  <2>1. 1 \in DOMAIN ps /\ 2 \in DOMAIN ps /\ 1 # 2  BY <1>2
  <2>2. ps[1].id # ps[2].id  BY <1>1, <2>1 DEF Distinct
  <2>3. \A i \in DOMAIN ps : ps[i] \in ToSet(ps)  BY DEF ToSet
  <2> QED  BY <2>1, <2>2, <2>3
<1>4. Delete(s, id) = WithDefaults(d)  BY DEF Delete
<1> HIDE DEF S
<1>5. qs \in Seq(Profiles) /\ qs # <<>> /\ Distinct(qs)  BY <1>1, <1>3, ThoseAre
<1> HIDE DEF qs
<1>6. Whole(d)
  <2>1. d \in Sets /\ d.profiles = qs  BY <1>1, <1>5 DEF Sets
  <2> QED  BY <1>5, <2>1 DEF Whole
<1> QED  BY <1>4, <1>6, DefaultsAreWhole

-----------------------------------------------------------------------------
(* Agent runs: providers. *)

Clients == {"unloaded", "loaded", "switch", "fatal"}

\* What a Generate begins with
LEMMA ProviderIsReady ==
    ASSUME NEW list \in Seq(Profiles), NEW activates \in BOOLEAN, NEW retries \in Nat,
           NEW current \in Nat, NEW clients \in Seq(Clients), Len(clients) = Len(list),
           list # <<>> => current \in 1 .. Len(list)
    PROVE  LET p == Provider(list, activates, retries, current, clients)
           IN  p \in Generates /\ InSearch(p) /\ p.pc = "ready"
<1> DEFINE p == Provider(list, activates, retries, current, clients)
<1>1. p \in Generates  BY DEF Provider, Generates, Points, Clients
<1>2. /\ p.pc = "ready" /\ p.list = list /\ p.current = current /\ p.clients = clients
      /\ p.offset = 0 /\ p.tried = {} /\ p.result = "none"
  BY DEF Provider
<1>3. Len(list) \in Nat  BY LenProperties
<1> HIDE DEF p
<1>4. InSearch(p)  BY <1>2, <1>3 DEF InSearch, Searching
<1> QED  BY <1>1, <1>2, <1>4 DEF p

LEMMA NewProviderIsReady ==
    ASSUME NEW list \in Seq(Profiles), NEW activates \in BOOLEAN, NEW again \in BOOLEAN
    PROVE  LET p == NewProvider(list, activates, again)
           IN  p \in Generates /\ InSearch(p) /\ p.pc = "ready"
<1> DEFINE clients == [i \in DOMAIN list |-> "unloaded"]
           retries == IF again THEN MaxRetries ELSE 0
<1>1. Len(list) \in Nat /\ DOMAIN list = 1 .. Len(list)  BY LenProperties
<1>2. clients \in [1 .. Len(list) -> Clients]  BY <1>1 DEF Clients
<1>3. clients \in Seq(Clients) /\ Len(clients) = Len(list)
  <2> HIDE DEF clients
  <2>1. clients \in Seq(Clients)  BY <1>1, <1>2
  <2> QED  BY <1>1, <1>2, <2>1, LenProperties
<1>4. retries \in Nat  BY FailoverConstants
<1>5. list # <<>> => 1 \in 1 .. Len(list)  BY EmptySeq
<1>6. NewProvider(list, activates, again) = Provider(list, activates, retries, 1, clients)
  BY DEF NewProvider
<1> HIDE DEF clients, retries
<1> QED  BY <1>3, <1>4, <1>5, <1>6, ProviderIsReady

LEMMA KeptIsReady ==
    ASSUME NEW g \in Generates, InSearch(g)
    PROVE  Kept(g) \in Generates /\ InSearch(Kept(g)) /\ Kept(g).pc = "ready"
<1>1. /\ g.list \in Seq(Profiles) /\ g.activates \in BOOLEAN /\ g.retries \in Nat
      /\ g.current \in Nat /\ g.clients \in Seq(Clients)
  BY DEF Generates, Clients
<1>2. Len(g.clients) = Len(g.list) /\ (g.list # <<>> => g.current \in 1 .. Len(g.list))
  BY DEF InSearch
<1> QED  BY <1>1, <1>2, ProviderIsReady DEF Kept

LEMMA RotatedType ==
    ASSUME NEW A, NEW ps \in Seq(A), NEW i \in DOMAIN ps
    PROVE  Rotated(ps, i) \in Seq(A)
<1>1. Len(ps) \in Nat /\ DOMAIN ps = 1 .. Len(ps) /\ \A j \in 1 .. Len(ps) : ps[j] \in A
  BY LenProperties
<1>2. SubSeq(ps, i, Len(ps)) \in Seq(A)
  <2>1. i \in Int /\ \A j \in i .. Len(ps) : ps[j] \in A  BY <1>1
  <2> QED  BY <1>1, <2>1, SubSeqProperties
<1>3. SubSeq(ps, 1, i - 1) \in Seq(A)
  <2>1. i - 1 \in Int /\ \A j \in 1 .. i - 1 : ps[j] \in A  BY <1>1
  <2> QED  BY <2>1, SubSeqProperties
<1> QED  BY <1>2, <1>3, ConcatProperties DEF Rotated

LEMMA ProvidersAreReady ==
    ASSUME Whole(set), NEW kind \in {"chat", "route", "once", "rule"}, NEW p \in Providers(kind)
    PROVE  p \in Generates /\ InSearch(p) /\ p.pc = "ready"
<1>1. set.profiles \in Seq(Profiles) /\ TRUE \in BOOLEAN /\ FALSE \in BOOLEAN
  BY DEF Whole, Sets
<1> DEFINE routing == InGroup(set.profiles, "routing")
           routers == IF routing = <<>> THEN <<Current(set)>> ELSE routing
<1>2. \A ps \in Seq(Profiles) : \A g : InGroup(ps, g) \in Seq(Profiles)  BY ThoseAre DEF InGroup
<1>3. Current(set) \in Profiles /\ Current(set).id \in IdsOf(set)  BY CurrentIsThere
<1>4. <<Current(set)>> \in Seq(Profiles) /\ <<Current(set)>> # <<>>  BY <1>3
<1>5. routers \in Seq(Profiles) /\ routers # <<>>
  <2>1. routing \in Seq(Profiles)  BY <1>1, <1>2
  <2> HIDE DEF routing
  <2> QED  BY <1>4, <2>1
<1>6. ActiveGroupProfiles(set) \in Seq(Profiles)
  <2>1. Position(set, Current(set).id) \in DOMAIN set.profiles  BY <1>3, PositionOf
  <2>2. Rotated(set.profiles, Position(set, Current(set).id)) \in Seq(Profiles)
    BY <1>1, <2>1, RotatedType
  <2> QED  BY <1>2, <2>2 DEF ActiveGroupProfiles
<1>7. CASE kind = "chat"
  <2>1. p = NewProvider(ActiveGroupProfiles(set), TRUE, TRUE)  BY <1>7 DEF Providers
  <2> QED  BY <1>1, <1>6, <2>1, NewProviderIsReady
<1>8. CASE kind = "route"
  <2>1. p = NewProvider(routers, FALSE, TRUE)  BY <1>8 DEF Providers
  <2> HIDE DEF routers
  <2> QED  BY <1>1, <1>5, <2>1, NewProviderIsReady
<1>9. CASE kind = "once"
  <2>1. p = NewProvider(<<Head(routers)>>, FALSE, FALSE)  BY <1>9 DEF Providers
  <2> HIDE DEF routers
  <2>2. Head(routers) \in Profiles  BY <1>5, HeadTailProperties
  <2>3. <<Head(routers)>> \in Seq(Profiles)  BY <2>2
  <2> QED  BY <1>1, <2>1, <2>3, NewProviderIsReady
<1>10. CASE kind = "rule"
  <2>1. PICK q \in ToSet(set.profiles) : p = NewProvider(<<q>>, FALSE, TRUE)
    BY <1>10 DEF Providers
  <2>2. q \in Profiles
    <3>1. PICK i \in DOMAIN set.profiles : q = set.profiles[i]  BY DEF ToSet
    <3> QED  BY <1>1, <3>1, LenProperties
  <2>3. <<q>> \in Seq(Profiles)  BY <2>2
  <2> QED  BY <1>1, <2>1, <2>3, NewProviderIsReady
<1> QED  BY <1>7, <1>8, <1>9, <1>10

-----------------------------------------------------------------------------
(* Agent runs: the search for a profile. *)

LEMMA Remainder ==
    ASSUME NEW n \in Nat \ {0}, NEW y \in Int, 0 <= y, y < n, NEW x \in {y, y + n}
    PROVE  x % n = y
<1> DEFINE q == x \div n
           m == x % n
<1>1. q \in Int /\ m \in Int /\ 0 <= m /\ m < n /\ x = n * q + m /\ x \in Int
  OBVIOUS
<1>2. \A k \in Int : /\ k >= 1 => n * k >= n
                     /\ k <= -1 => n * k <= -n
  OBVIOUS
<1>3. CASE x = y
  <2>1. n * q = y - m  BY <1>1, <1>3
  <2> HIDE DEF q, m
  <2>2. q = 0
    <3>1. ~(q >= 1)  BY <1>1, <1>2, <2>1
    <3>2. ~(q <= -1)  BY <1>1, <1>2, <2>1
    <3> QED  BY <1>1, <3>1, <3>2
  <2> QED  BY <1>1, <1>3, <2>2 DEF m
<1>4. CASE x = y + n
  <2>1. n * (q - 1) = n * q - n  BY <1>1
  <2> HIDE DEF q, m
  <2>2. n * (q - 1) = y - m /\ q - 1 \in Int  BY <1>1, <1>4, <2>1
  <2>3. q - 1 = 0
    <3>1. ~(q - 1 >= 1)  BY <1>1, <1>2, <2>2
    <3>2. ~(q - 1 <= -1)  BY <1>1, <1>2, <2>2
    <3> QED  BY <1>1, <3>1, <3>2
  <2>4. y - m = 0  BY <2>2, <2>3
  <2> QED  BY <1>1, <2>4 DEF m
<1> QED  BY <1>3, <1>4

LEMMA PlaceIsThere ==
    ASSUME NEW g, Len(g.list) \in Nat \ {0}, g.current \in Nat, NEW o \in Nat
    PROVE  Place(g, o) \in 1 .. Len(g.list)
<1> DEFINE n == Len(g.list)
           x == g.current - 1 + o
<1>1. n \in Nat \ {0} /\ x \in Int  OBVIOUS
<1> HIDE DEF n, x
<1>2. x % n \in Int /\ 0 <= x % n /\ x % n < n  BY <1>1
<1>3. Place(g, o) = (x % n) + 1  BY DEF Place, n, x
<1> DEFINE m == x % n
<1>4. m \in Int /\ 0 <= m /\ m < n  BY <1>2
<1> HIDE DEF m
<1>5. m + 1 \in 1 .. n  BY <1>1, <1>4
<1> QED  BY <1>3, <1>5 DEF m, n

\* From whichever place the search begins, it comes to each of the others.
LEMMA PlacesAreAll ==
    ASSUME NEW g, Len(g.list) \in Nat \ {0}, g.current \in 1 .. Len(g.list)
    PROVE  {Place(g, o) : o \in 0 .. Len(g.list) - 1} = 1 .. Len(g.list)
<1> DEFINE n == Len(g.list)
           c == g.current
<1>1. n \in Nat \ {0} /\ c \in 1 .. n  OBVIOUS
<1>2. ASSUME NEW o \in 0 .. n - 1  PROVE Place(g, o) \in 1 .. n
  <2>1. o \in Nat /\ g.current \in Nat  OBVIOUS
  <2> QED  BY <1>1, <2>1, PlaceIsThere
<1>3. ASSUME NEW j \in 1 .. n  PROVE \E o \in 0 .. n - 1 : Place(g, o) = j
  <2> DEFINE o == IF j >= c THEN j - c ELSE j - c + n
  <2> HIDE DEF n, c
  <2>1. o \in 0 .. n - 1 /\ (c - 1 + o) \in {j - 1, j - 1 + n}  BY <1>1
  <2> HIDE DEF o
  <2>2. j - 1 \in Int /\ 0 <= j - 1 /\ j - 1 < n  BY <1>1
  <2>3. (c - 1 + o) % n = j - 1  BY <1>1, <2>1, <2>2, Remainder
  <2>4. Place(g, o) = j  BY <2>2, <2>3 DEF Place, n, c
  <2> QED  BY <2>1, <2>4
<1> QED  BY <1>2, <1>3

LEMMA ResetIsGenerate ==
    ASSUME NEW h \in Generates
    PROVE  [h EXCEPT !.attempt = 0, !.timeout = 0] \in Generates
<1>1. \A zero \in Int : [h EXCEPT !.attempt = zero, !.timeout = zero] \in Generates
  BY DEF Generates
<1>2. 0 \in Int  OBVIOUS
<1> QED  BY <1>1, <1>2, Zenon

\* An error ends the search, or it goes on with the next place.
LEMMA ErrorGoesOn ==
    ASSUME NEW r \in AgentRuns, NEW g \in Generates, InSearch(g), g.pc \in Searching,
           g.offset < Len(g.list), NEW over \in BOOLEAN,
           NEW error \in Failures \cup {"fatal", "ended"}, error = "ended" => over,
           AfterError(r, g, error, over)
    PROVE  \E h \in Generates : /\ InSearch(h) /\ h.pc # "ready"
                                /\ gen' = [gen EXCEPT ![r] = h]
<1> DEFINE n == Len(g.list)
           tried == g.tried \cup {Index(g)}
           failed == [g EXCEPT !.tried = tried, !.result = error]
           ended == [failed EXCEPT !.pc = "returned", !.result = "ended"]
           fatal == [failed EXCEPT !.pc = "returned"]
           next == [failed EXCEPT !.pc = "next", !.offset = @ + 1,
                                  !.attempt = 0, !.timeout = 0]
<1>1. g.list \in Seq(Profiles) /\ g.offset \in Nat /\ g.tried \in SUBSET Nat  BY DEF Generates
<1>2. n \in Nat \ {0}  BY <1>1, LenProperties
<1>3. /\ Len(g.clients) = n /\ g.current \in 1 .. n /\ TriedInTurn(g)
  <2>1. g.list # <<>>  BY <1>1, <1>2, EmptySeq
  <2> QED  BY <2>1 DEF InSearch
<1>4. Index(g) = Place(g, g.offset) /\ Index(g) \in 1 .. n
  <2>1. Index(g) = Place(g, g.offset)  BY DEF Index, Place
  <2>2. g.current \in Nat /\ g.offset \in Nat /\ Len(g.list) \in Nat \ {0}  BY <1>1, <1>2, <1>3
  <2>3. Place(g, g.offset) \in 1 .. Len(g.list)  BY <2>2, PlaceIsThere
  <2> QED  BY <2>1, <2>3
<1>5. tried \in SUBSET Nat  BY <1>1, <1>2, <1>4
<1>6. tried = {Place(g, o) : o \in 0 .. g.offset}
  <2>1. \A o : o \in 0 .. g.offset <=> o \in 0 .. g.offset - 1 \/ o = g.offset  BY <1>1
  <2> QED  BY <1>3, <1>4, <2>1 DEF TriedInTurn
<1> HIDE DEF tried
<1>7. failed \in Generates /\ ended \in Generates /\ fatal \in Generates /\ next \in Generates
  <2>1. failed \in Generates  BY <1>5 DEF Generates, Failures
  <2> HIDE DEF failed
  <2>2. ended \in Generates  BY <2>1 DEF Generates, Points
  <2>3. fatal \in Generates  BY <2>1 DEF Generates, Points
  <2>4. next \in Generates
    <3>1. failed.offset + 1 \in Nat  BY <2>1 DEF Generates
    <3> DEFINE later == [failed EXCEPT !.pc = "next", !.offset = @ + 1]
    <3>2. later \in Generates  BY <2>1, <3>1 DEF Generates, Points
    <3>3. next = [later EXCEPT !.attempt = 0, !.timeout = 0]  BY <2>1 DEF Generates
    <3> HIDE DEF later, next
    <3> QED  BY <3>2, <3>3, ResetIsGenerate
  <2> QED  BY <2>1, <2>2, <2>3, <2>4
<1>8. /\ ended.pc = "returned" /\ ended.result = "ended"
      /\ ended.list = g.list /\ ended.clients = g.clients /\ ended.current = g.current
      /\ ended.offset = g.offset
  BY DEF Generates
<1>9. /\ fatal.pc = "returned" /\ fatal.result = error
      /\ fatal.list = g.list /\ fatal.clients = g.clients /\ fatal.current = g.current
      /\ fatal.offset = g.offset
  BY DEF Generates
<1>10. /\ next.pc = "next" /\ next.result = error /\ next.tried = tried
       /\ next.list = g.list /\ next.clients = g.clients /\ next.current = g.current
       /\ next.offset = g.offset + 1
  BY DEF Generates
<1>11. gen' = [gen EXCEPT ![r] = IF over THEN ended ELSE IF error = "fatal" THEN fatal ELSE next]
  BY DEF AfterError, tried
<1> HIDE DEF failed, ended, fatal, next
<1>12. CASE over
  <2>1. InSearch(ended)  BY <1>2, <1>3, <1>8 DEF InSearch, Searching, Failures
  <2>2. gen' = [gen EXCEPT ![r] = ended]  BY <1>11, <1>12
  <2> QED  BY <1>7, <1>8, <2>1, <2>2
<1>13. CASE ~over /\ error = "fatal"
  <2>1. InSearch(fatal)  BY <1>2, <1>3, <1>9, <1>13 DEF InSearch, Searching, Failures
  <2>2. gen' = [gen EXCEPT ![r] = fatal]  BY <1>11, <1>13
  <2> QED  BY <1>7, <1>9, <2>1, <2>2
<1>14. CASE ~over /\ error # "fatal"
  <2>1. error \in Failures  BY <1>14
  <2>2. next.offset - 1 = g.offset /\ next.offset <= n  BY <1>1, <1>2, <1>10
  <2>3. \A o : Place(next, o) = Place(g, o)  BY <1>10 DEF Place
  <2>4. TriedInTurn(next)  BY <1>6, <1>10, <2>2, <2>3 DEF TriedInTurn
  <2>5. InSearch(next)  BY <1>3, <1>10, <2>1, <2>2, <2>4 DEF InSearch
  <2>6. gen' = [gen EXCEPT ![r] = next]  BY <1>11, <1>14
  <2> QED  BY <1>7, <1>10, <2>5, <2>6
<1> QED  BY <1>12, <1>13, <1>14

LEMMA AttemptTimeoutType ==
    ASSUME NEW remaining \in Int, NEW retries \in Nat
    PROVE  AttemptTimeout(remaining, retries) \in Int
<1>1. retries + 1 \in Nat \ {0} /\ Timeout \in Int /\ TransientDelay \in Int
  BY FailoverConstants
<1> DEFINE all == retries * TransientDelay
           available == remaining - all
           bounded == available \div (retries + 1)
<1>2. all \in Int  BY <1>1
<1>3. available \in Int  BY <1>2
<1> HIDE DEF all, available
<1>4. bounded \in Int  BY <1>1, <1>3
<1> HIDE DEF bounded
<1>5. 1 \in Int  OBVIOUS
<1> QED  BY <1>1, <1>4, <1>5 DEF AttemptTimeout, all, available, bounded

\* The Generate of a run goes on, or returns.
GenerateGoesOn(r) ==
    \E h \in Generates : /\ InSearch(h) /\ h.pc # "ready"
                         /\ gen' = [gen EXCEPT ![r] = h]

\* A provider that is beyond "ready" belongs to a loop that asks.
LEMMA AskedGenerate ==
    ASSUME AgentInv, NEW r \in AgentRuns, gen[r].pc \notin {"none", "ready"}
    PROVE  /\ gen[r] \in Generates /\ InSearch(gen[r])
           /\ Fits(loop[r], gen[r]) /\ loop[r] # Resting /\ loop[r].pc = "asked"
<1>1. gen[r] # NoProvider  BY DEF NoProvider
<1>2. Fits(loop[r], gen[r])  BY <1>1 DEF AgentInv, RunInv
<1>3. loop[r].pc = "asked"  BY <1>2 DEF Fits
<1> QED  BY <1>2, <1>3 DEF Fits, Resting

LEMMA ReturnGoesOn ==
    ASSUME AgentInv, NEW r \in AgentRuns, gen[r] \in Generates, InSearch(gen[r]),
           NEW result \in {"none", "ok", "ended"} \cup Failures, Return(r, result),
           result \in Failures => gen[r].tried = 1 .. Len(gen[r].list)
    PROVE  GenerateGoesOn(r)
<1> DEFINE g == gen[r]
           h == [g EXCEPT !.pc = "returned", !.result = result]
<1>1. gen' = [gen EXCEPT ![r] = h]  BY DEF Return, AgentInv, RunInv
<1>2. h \in Generates  BY DEF Generates, Points
<1>3. /\ h.pc = "returned" /\ h.result = result /\ h.list = g.list /\ h.current = g.current
      /\ h.clients = g.clients /\ h.offset = g.offset /\ h.tried = g.tried
  BY DEF Generates
<1> HIDE DEF h
<1>4. InSearch(h)  BY <1>3 DEF InSearch, Searching
<1> QED  BY <1>1, <1>2, <1>3, <1>4 DEF GenerateGoesOn

LEMMA NextProfileGoesOn ==
    ASSUME AgentInv, NEW r \in AgentRuns, NextProfile(r)
    PROVE  GenerateGoesOn(r)
<1> DEFINE g == gen[r]
           n == Len(g.list)
<1>1. g.pc = "next" /\ g \in Generates /\ InSearch(g)  BY AskedGenerate DEF NextProfile
<1>2. /\ g.list \in Seq(Profiles) /\ g.offset \in Nat /\ g.clients \in Seq(Clients)
      /\ g.retries \in Nat
  BY <1>1 DEF Generates, Clients
<1>3. n \in Nat /\ (n # 0 => g.list # <<>>)  BY <1>2, LenProperties
<1>4. /\ Len(g.clients) = n /\ g.offset <= n /\ (n # 0 => g.current \in 1 .. n)
      /\ TriedInTurn(g) /\ g.result \in Failures \cup {"none"}
  BY <1>1, <1>3 DEF InSearch, Searching
<1>5. CASE g.offset = n
  <2>1. Return(r, g.result)  BY <1>5 DEF NextProfile
  <2>2. g.tried = 1 .. n
    <3>1. CASE n = 0
      <4>1. 0 .. g.offset - 1 = {} /\ 1 .. n = {}  BY <1>5, <3>1
      <4> QED  BY <1>4, <4>1 DEF TriedInTurn
    <3>2. CASE n # 0
      <4>1. n \in Nat \ {0} /\ g.current \in 1 .. n  BY <1>3, <1>4, <3>2
      <4>2. {Place(g, o) : o \in 0 .. n - 1} = 1 .. n  BY <4>1, PlacesAreAll
      <4> QED  BY <1>4, <1>5, <4>2 DEF TriedInTurn
    <3> QED  BY <3>1, <3>2
  <2> QED  BY <1>1, <1>4, <2>1, <2>2, ReturnGoesOn
<1>6. CASE g.offset # n /\ Over(r)
  <2>1. Return(r, "ended")  BY <1>6 DEF NextProfile
  <2> QED  BY <1>1, <2>1, ReturnGoesOn DEF Failures
<1>7. CASE g.offset # n /\ ~Over(r)
  <2>1. n \in Nat \ {0} /\ g.offset < n /\ g.current \in 1 .. n  BY <1>2, <1>3, <1>4, <1>7
  <2>2. Index(g) \in 1 .. n
    <3>1. Index(g) = Place(g, g.offset)  BY DEF Index, Place
    <3>2. g.current \in Nat /\ g.offset \in Nat /\ Len(g.list) \in Nat \ {0}  BY <1>2, <2>1
    <3>3. Place(g, g.offset) \in 1 .. Len(g.list)  BY <3>2, PlaceIsThere
    <3> QED  BY <3>1, <3>3
  <2> DEFINE i == Index(g)
             timeout == IF g.list[i].id \in Managed THEN 0
                        ELSE AttemptTimeout(left[r] - cutoff[r], g.retries)
  <2>3. PICK client \in IF g.clients[i] = "unloaded" THEN {"loaded", "switch", "fatal"}
                        ELSE {g.clients[i]} :
           LET loaded == [g EXCEPT !.clients[i] = client]
           IN  IF client \in {"switch", "fatal"}
               THEN AfterError(r, loaded, client, Over(r))
               ELSE gen' = [gen EXCEPT ![r] = [loaded EXCEPT
                              !.pc = "call", !.attempt = 0, !.timeout = timeout]]
    BY <1>7 DEF NextProfile
  <2>4. client \in Clients
    <3>1. g.clients[i] \in Clients  BY <1>2, <1>4, <2>2, ElementOfSeq
    <3> QED  BY <2>3, <3>1 DEF Clients
  <2> HIDE DEF i
  <2> DEFINE clients == [g.clients EXCEPT ![i] = client]
             loaded == [g EXCEPT !.clients[i] = client]
  <2>5. clients \in Seq(Clients) /\ Len(clients) = n
    <3>1. i \in 1 .. Len(g.clients)  BY <1>4, <2>2 DEF i
    <3> HIDE DEF clients
    <3>2. clients = [g.clients EXCEPT ![i] = client]  BY DEF clients
    <3> QED  BY <1>2, <1>4, <2>4, <3>1, <3>2, ExceptSeq, LenProperties
  <2>6. loaded = [g EXCEPT !.clients = clients]  BY <1>1 DEF Generates
  <2> HIDE DEF clients
  <2>7. loaded \in Generates
    <3> HIDE DEF loaded
    <3> QED  BY <1>1, <2>5, <2>6 DEF Generates, Clients
  <2>8. /\ loaded.pc = "next" /\ loaded.list = g.list /\ loaded.current = g.current
        /\ loaded.clients = clients /\ loaded.offset = g.offset /\ loaded.tried = g.tried
        /\ loaded.result = g.result
    <3> HIDE DEF loaded
    <3> QED  BY <1>1, <2>6 DEF Generates
  <2> HIDE DEF loaded
  <2>9. TriedInTurn(loaded)
    <3>1. \A o : Place(loaded, o) = Place(g, o)  BY <2>8 DEF Place
    <3> QED  BY <1>4, <2>8, <3>1 DEF TriedInTurn
  <2>10. InSearch(loaded)
    BY <1>4, <2>1, <2>5, <2>8, <2>9 DEF InSearch, Searching
  <2>11. CASE client \in {"switch", "fatal"}
    <3>1. AfterError(r, loaded, client, Over(r))  BY <2>3, <2>11 DEF loaded
    <3>2. loaded.pc \in Searching /\ loaded.offset < Len(loaded.list) /\ client # "ended"
      BY <2>1, <2>8, <2>11 DEF Searching
    <3>3. client \in Failures \cup {"fatal", "ended"} /\ Over(r) \in BOOLEAN
      <4>1. Over(r) = FALSE  BY <1>7
      <4> QED  BY <2>11, <4>1 DEF Failures
    <3> QED  BY <2>7, <2>10, <3>1, <3>2, <3>3, ErrorGoesOn DEF GenerateGoesOn
  <2>12. CASE client \notin {"switch", "fatal"}
    <3> DEFINE h == [loaded EXCEPT !.pc = "call", !.attempt = 0, !.timeout = timeout]
    <3>1. gen' = [gen EXCEPT ![r] = h]  BY <2>3, <2>12 DEF loaded
    <3>2. timeout \in Int
      <4>1. left[r] - cutoff[r] \in Int  BY DEF AgentInv, TimeInv
      <4>2. AttemptTimeout(left[r] - cutoff[r], g.retries) \in Int
        BY <1>2, <4>1, AttemptTimeoutType
      <4>3. 0 \in Int  OBVIOUS
      <4> QED  BY <4>2, <4>3
    <3> HIDE DEF timeout
    <3>3. h \in Generates
      <4>1. \A zero, t \in Int : [loaded EXCEPT !.pc = "call", !.attempt = zero, !.timeout = t]
                                   \in Generates
        BY <2>7 DEF Generates, Points
      <4>2. 0 \in Int  OBVIOUS
      <4> QED  BY <3>2, <4>1, <4>2, Zenon
    <3>4. /\ h.pc = "call" /\ h.list = g.list /\ h.current = g.current
          /\ h.clients = clients /\ h.offset = g.offset /\ h.tried = g.tried
          /\ h.result = g.result
      BY <2>7, <2>8 DEF Generates
    <3> HIDE DEF h
    <3>5. TriedInTurn(h)
      <4>1. \A o : Place(h, o) = Place(g, o)  BY <3>4 DEF Place
      <4> QED  BY <1>4, <3>4, <4>1 DEF TriedInTurn
    <3>6. InSearch(h)  BY <1>4, <2>1, <2>5, <3>4, <3>5 DEF InSearch, Searching
    <3> QED  BY <3>1, <3>3, <3>4, <3>6 DEF GenerateGoesOn
  <2> QED  BY <2>11, <2>12
<1> QED  BY <1>5, <1>6, <1>7

LEMMA AnswerGoesOn ==
    ASSUME AgentInv, NEW r \in AgentRuns, Answer(r)
    PROVE  GenerateGoesOn(r)
<1> DEFINE g == gen[r]
           pc == IF g.activates THEN "activate" ELSE "returned"
           h == [g EXCEPT !.current = Index(g), !.pc = pc, !.result = "ok"]
<1>1. g.pc = "call" /\ g \in Generates /\ InSearch(g)  BY AskedGenerate DEF Answer
<1>2. gen' = [gen EXCEPT ![r] = h]  BY DEF Answer, AgentInv, RunInv
<1>3. g.list \in Seq(Profiles) /\ g.offset \in Nat  BY <1>1 DEF Generates
<1>4. Len(g.list) \in Nat /\ g.offset < Len(g.list) /\ g.list # <<>>
  <2>1. Len(g.list) \in Nat /\ g.offset < Len(g.list)  BY <1>1, <1>3, LenProperties DEF InSearch
  <2> QED  BY <1>3, <2>1, EmptySeq
<1>5. Index(g) \in 1 .. Len(g.list)
  <2>1. g.current \in Nat /\ Len(g.list) \in Nat \ {0}  BY <1>1, <1>3, <1>4 DEF InSearch
  <2>2. Place(g, g.offset) \in 1 .. Len(g.list)  BY <1>3, <2>1, PlaceIsThere
  <2> QED  BY <2>2 DEF Index, Place
<1> DEFINE i == Index(g)
<1>6. i \in Nat /\ i \in 1 .. Len(g.list)  BY <1>4, <1>5
<1> HIDE DEF i
<1>7. h \in Generates
  <2>1. h = [g EXCEPT !.current = i, !.pc = pc, !.result = "ok"]  BY DEF i
  <2> QED  BY <1>1, <1>6, <2>1 DEF Generates, Points
<1>8. /\ h.pc = pc /\ h.result = "ok" /\ h.list = g.list /\ h.clients = g.clients
      /\ h.offset = g.offset /\ h.current = i
  BY <1>1 DEF Generates, i
<1> HIDE DEF h
<1>9. Len(g.clients) = Len(g.list) /\ g.offset <= Len(g.list)  BY <1>1 DEF InSearch
<1>10. pc \in {"activate", "returned"}  OBVIOUS
<1> HIDE DEF pc
<1>11. InSearch(h)  BY <1>4, <1>6, <1>8, <1>9, <1>10 DEF InSearch, Searching, Failures
<1> QED  BY <1>2, <1>7, <1>8, <1>10, <1>11 DEF GenerateGoesOn

LEMMA ErrorOfCall ==
    ASSUME AgentInv, NEW r \in AgentRuns, gen[r].pc \in {"call", "pause"}, NEW over \in BOOLEAN,
           NEW error \in Failures \cup {"fatal", "ended"}, error = "ended" => over,
           AfterError(r, gen[r], error, over)
    PROVE  GenerateGoesOn(r)
<1>1. gen[r] \in Generates /\ InSearch(gen[r])  BY AskedGenerate
<1>2. gen[r].pc \in Searching /\ gen[r].offset < Len(gen[r].list)
  BY <1>1 DEF InSearch, Searching
<1> QED  BY <1>1, <1>2, ErrorGoesOn DEF GenerateGoesOn

\* From "call" to "pause", and back: nothing else that InSearch speaks of changes.
LEMMA PauseKeeps ==
    ASSUME NEW g \in Generates, InSearch(g), g.pc \in {"call", "pause"}, NEW attempt \in Int,
           NEW pc \in {"call", "pause"}
    PROVE  /\ [g EXCEPT !.pc = pc, !.attempt = attempt] \in Generates
           /\ InSearch([g EXCEPT !.pc = pc, !.attempt = attempt])
<1> DEFINE h == [g EXCEPT !.pc = pc, !.attempt = attempt]
<1>1. h \in Generates  BY DEF Generates, Points
<1>2. /\ h.pc = pc /\ h.list = g.list /\ h.current = g.current /\ h.clients = g.clients
      /\ h.offset = g.offset /\ h.tried = g.tried /\ h.result = g.result
  BY DEF Generates
<1> HIDE DEF h
<1>3. TriedInTurn(g) /\ g.result \in Failures \cup {"none"}  BY DEF InSearch, Searching
<1>4. TriedInTurn(h)
  <2>1. \A o : Place(h, o) = Place(g, o)  BY <1>2 DEF Place
  <2> QED  BY <1>2, <1>3, <2>1 DEF TriedInTurn
<1>5. InSearch(h)  BY <1>2, <1>3, <1>4 DEF InSearch, Searching
<1> QED  BY <1>1, <1>5 DEF h

LEMMA CallGoesOn ==
    ASSUME AgentInv, NEW r \in AgentRuns, NEW error \in Failures \cup {"fatal"}, NEW time,
           CallFails(r, error, time)
    PROVE  GenerateGoesOn(r)
<1> DEFINE g == gen[r]
           over == cancelled[r] \/ left[r] - time <= cutoff[r]
<1>1. g.pc = "call" /\ g \in Generates /\ InSearch(g)  BY AskedGenerate DEF CallFails
<1>2. over \in BOOLEAN  OBVIOUS
<1>3. IF ~Retryable(g, error) THEN AfterError(r, g, error, over)
      ELSE IF over THEN AfterError(r, g, "ended", over)
      ELSE gen' = [gen EXCEPT ![r].pc = "pause"]
  BY DEF CallFails
<1> HIDE DEF over
<1>4. CASE ~Retryable(g, error)
  <2>1. AfterError(r, g, error, over)  BY <1>3, <1>4
  <2>2. error # "ended"  BY DEF Failures
  <2> QED  BY <1>1, <1>2, <2>1, <2>2, ErrorOfCall
<1>5. CASE Retryable(g, error) /\ over
  <2>1. AfterError(r, g, "ended", over)  BY <1>3, <1>5
  <2> QED  BY <1>1, <1>2, <1>5, <2>1, ErrorOfCall
<1>6. CASE Retryable(g, error) /\ ~over
  <2> DEFINE h == [g EXCEPT !.pc = "pause", !.attempt = g.attempt]
  <2>1. gen' = [gen EXCEPT ![r].pc = "pause"]  BY <1>3, <1>6
  <2>2. [g EXCEPT !.pc = "pause"] = h  BY <1>1 DEF Generates
  <2>3. gen' = [gen EXCEPT ![r] = h]  BY <2>1, <2>2 DEF AgentInv, RunInv
  <2>4. g.attempt \in Int  BY <1>1 DEF Generates
  <2>5. h \in Generates /\ InSearch(h)  BY <1>1, <2>4, PauseKeeps
  <2>6. h.pc = "pause"  BY <1>1 DEF Generates
  <2> HIDE DEF h
  <2> QED  BY <2>3, <2>5, <2>6 DEF GenerateGoesOn
<1> QED  BY <1>4, <1>5, <1>6

LEMMA PauseGoesOn ==
    ASSUME AgentInv, NEW r \in AgentRuns, Pause(r)
    PROVE  GenerateGoesOn(r)
<1> DEFINE g == gen[r]
<1>1. g.pc = "pause" /\ g \in Generates /\ InSearch(g)  BY AskedGenerate DEF Pause
<1>2. \/ AfterError(r, g, "ended", TRUE)
      \/ gen' = [gen EXCEPT ![r].pc = "call", ![r].attempt = @ + 1]
  BY DEF Pause
<1>3. CASE AfterError(r, g, "ended", TRUE)
  <2>1. TRUE \in BOOLEAN  OBVIOUS
  <2> QED  BY <1>1, <1>3, <2>1, ErrorOfCall
<1>4. CASE gen' = [gen EXCEPT ![r].pc = "call", ![r].attempt = @ + 1]
  <2> DEFINE attempt == g.attempt + 1
             h == [g EXCEPT !.pc = "call", !.attempt = attempt]
  <2>1. gen' = [gen EXCEPT ![r] = h]  BY <1>4 DEF AgentInv, RunInv
  <2>2. attempt \in Int  BY <1>1 DEF Generates
  <2> HIDE DEF attempt
  <2>3. h \in Generates /\ InSearch(h)  BY <1>1, <2>2, PauseKeeps
  <2>4. h.pc = "call"  BY <1>1 DEF Generates
  <2> HIDE DEF h
  <2> QED  BY <2>1, <2>3, <2>4 DEF GenerateGoesOn
<1> QED  BY <1>2, <1>3, <1>4

LEMMA ActivateGoesOn ==
    ASSUME AgentInv, NEW r \in AgentRuns, Activate(r) \/ Activated(r)
    PROVE  GenerateGoesOn(r)
<1> DEFINE g == gen[r]
           h == [g EXCEPT !.pc = "saving"]
<1>1. g.pc \in {"activate", "saving"} /\ g \in Generates /\ InSearch(g)
  BY AskedGenerate DEF Activate, Activated
<1>2. CASE Return(r, "ok")  BY <1>1, <1>2, ReturnGoesOn DEF Failures
<1>3. CASE ~Return(r, "ok")
  <2>1. gen' = [gen EXCEPT ![r] = h]  BY <1>3 DEF Activate, Activated, AgentInv, RunInv
  <2>2. h \in Generates  BY <1>1 DEF Generates, Points
  <2>3. /\ h.pc = "saving" /\ h.list = g.list /\ h.current = g.current /\ h.result = g.result
        /\ h.clients = g.clients /\ h.offset = g.offset /\ h.tried = g.tried
    BY <1>1 DEF Generates
  <2> HIDE DEF h
  <2>4. InSearch(h)  BY <1>1, <2>3 DEF InSearch, Searching
  <2> QED  BY <2>1, <2>2, <2>3, <2>4 DEF GenerateGoesOn
<1> QED  BY <1>2, <1>3

-----------------------------------------------------------------------------
(* Agent runs: time, and the store. *)

LEMMA TimeGoesOn ==
    ASSUME AgentInv, NEW r \in AgentRuns, NEW t \in Int, 0 <= t, t <= Deadline,
           left' = [left EXCEPT ![r] = t], UNCHANGED cutoff
    PROVE  TimeInv'
<1>1. t \in 0 .. Deadline  BY AgentConstants
<1> QED  BY <1>1 DEF AgentInv, TimeInv

LEMMA CallTakesTime ==
    ASSUME AgentInv, NEW r \in AgentRuns, Fail(r) \/ TimeOut(r) \/ Pause(r)
    PROVE  TimeInv'
<1> DEFINE l == left[r]
           c == cutoff[r]
           limit == gen[r].timeout
<1>1. l \in 0 .. Deadline /\ c \in 0 .. Deadline /\ Deadline \in Nat
  BY AgentConstants DEF AgentInv, TimeInv
<1>2. CASE Fail(r)
  <2>1. left' = [left EXCEPT ![r] = l - 0] /\ UNCHANGED cutoff  BY <1>2 DEF Fail, CallFails
  <2>2. l - 0 \in Int /\ 0 <= l - 0 /\ l - 0 <= Deadline  BY <1>1
  <2> QED  BY <2>1, <2>2, TimeGoesOn
<1>3. CASE TimeOut(r)
  <2> DEFINE time == IF cancelled[r] THEN 0
                     ELSE IF limit > 0 /\ limit < l - c THEN limit ELSE l - c
  <2>1. CallFails(r, "late", time) /\ gen[r].pc = "call"  BY <1>3 DEF TimeOut
  <2>2. left' = [left EXCEPT ![r] = l - time] /\ UNCHANGED cutoff  BY <2>1 DEF CallFails
  <2>3. limit \in Int
    <3>1. gen[r] \in Generates  BY <2>1, AskedGenerate
    <3> QED  BY <3>1 DEF Generates
  <2> HIDE DEF l, c, limit
  <2>4. l - time \in Int /\ 0 <= l - time /\ l - time <= Deadline
    <3>1. CASE cancelled[r]  BY <1>1, <3>1
    <3>2. CASE ~cancelled[r] /\ limit > 0 /\ limit < l - c
      <4>1. time = limit  BY <3>2
      <4> HIDE DEF time
      <4> QED  BY <1>1, <2>3, <3>2, <4>1
    <3>3. CASE ~cancelled[r] /\ ~(limit > 0 /\ limit < l - c)
      <4>1. time = l - c  BY <3>3
      <4> HIDE DEF time
      <4> QED  BY <1>1, <4>1
    <3> QED  BY <3>1, <3>2, <3>3
  <2> QED  BY <2>2, <2>4, TimeGoesOn DEF l
<1>4. CASE Pause(r)
  <2>1. CASE UNCHANGED left  BY <1>4, <2>1 DEF Pause, AgentInv, TimeInv
  <2>2. CASE ~UNCHANGED left
    <3> DEFINE short == l - TransientDelay <= c
               t == IF short THEN c ELSE l - TransientDelay
    <3>1. left' = [left EXCEPT ![r] = t] /\ UNCHANGED cutoff
      BY <1>4, <2>2 DEF Pause
    <3>2. TransientDelay \in Nat  BY FailoverConstants
    <3> HIDE DEF l, c
    <3>3. t \in Int /\ 0 <= t /\ t <= Deadline
      <4>1. CASE short  BY <1>1, <4>1
      <4>2. CASE ~short  BY <1>1, <3>2, <4>2
      <4> QED  BY <4>1, <4>2
    <3> QED  BY <3>1, <3>3, TimeGoesOn
  <2> QED  BY <2>1, <2>2
<1> QED  BY <1>2, <1>3, <1>4

LEMMA BeginSaveKeeps ==
    ASSUME AgentInv, NEW w \in AgentRuns \cup Requests, NEW s, Whole(s), BeginSave(w, s),
           UNCHANGED set
    PROVE  StoreInv'
<1>1. s \in Sets  BY DEF Whole
<1>2. saving' \in [AgentRuns \cup Requests -> Sets \cup {NotSaving}]
  BY <1>1 DEF AgentInv, StoreInv, BeginSave
<1>3. \A v \in AgentRuns \cup Requests : saving'[v] = IF v = w THEN s ELSE saving[v]
  BY DEF AgentInv, StoreInv, BeginSave
<1>4. StoreIsWhole'  BY <1>3 DEF AgentInv, StoreInv, StoreIsWhole
<1> QED  BY <1>2, <1>4 DEF StoreInv

LEMMA SaveKeeps ==
    ASSUME AgentInv, NEW w \in AgentRuns \cup Requests, Save(w)
    PROVE  StoreInv'
<1>1. Whole(saving[w]) /\ set' = WithDefaults(saving[w])
  BY DEF Save, AgentInv, StoreInv, StoreIsWhole
<1>2. Whole(set') /\ set'.active \in IdsOf(set')
  <2> DEFINE d == WithDefaults(saving[w])
  <2>1. Whole(d) /\ d.active \in IdsOf(d)  BY <1>1, DefaultsAreWhole
  <2> HIDE DEF d
  <2>2. set' = d  BY <1>1 DEF d
  <2> QED  BY <2>1, <2>2
<1>3. saving' \in [AgentRuns \cup Requests -> Sets \cup {NotSaving}]
  BY DEF AgentInv, StoreInv, Save
<1>4. \A v \in AgentRuns \cup Requests :
         saving'[v] = IF v = w THEN NotSaving ELSE saving[v]
  BY DEF AgentInv, StoreInv, Save
<1>5. StoreIsWhole'  BY <1>2, <1>4 DEF AgentInv, StoreInv, StoreIsWhole
<1> QED  BY <1>3, <1>5 DEF StoreInv

LEMMA ActiveKept ==
    ASSUME NEW s, Whole(s), NEW id \in ProfileIds
    PROVE  Whole([s EXCEPT !.active = id])
<1> DEFINE t == [s EXCEPT !.active = id]
<1>1. t \in Sets /\ t.profiles = s.profiles  BY DEF Whole, Sets
<1> HIDE DEF t
<1> QED  BY <1>1 DEF Whole, t

LEMMA IdsAreIds ==
    ASSUME NEW s, Whole(s)
    PROVE  IdsOf(s) \subseteq ProfileIds
<1>1. s.profiles \in Seq(Profiles)  BY DEF Whole, Sets
<1>2. ASSUME NEW i \in DOMAIN s.profiles  PROVE s.profiles[i].id \in ProfileIds
  <2>1. s.profiles[i] \in Profiles  BY <1>1, LenProperties
  <2> QED  BY <2>1 DEF Profiles
<1> QED  BY <1>2 DEF IdsOf, ToSet

LEMMA ConsoleKeeps ==
    ASSUME AgentInv, NEW c \in Requests, ConsoleStep(c)
    PROVE  StoreInv'
<1>1. Whole(set) /\ c \in AgentRuns \cup Requests
  BY DEF AgentInv, StoreInv, StoreIsWhole
<1>2. IdsOf(set) \subseteq ProfileIds  BY <1>1, IdsAreIds
<1>3. CASE ActivateProfile(c)
  <2>1. PICK id \in IdsOf(set) : Edit(c, [set EXCEPT !.active = id])
    BY <1>3 DEF ActivateProfile
  <2>2. Whole([set EXCEPT !.active = id])  BY <1>1, <1>2, ActiveKept
  <2> QED  BY <1>1, <2>1, <2>2, BeginSaveKeeps DEF Edit
<1>4. CASE SaveConfig(c)
  <2>1. PICK id \in ProfileIds, g \in Groups : Edit(c, Upsert(set, id, g))
    BY <1>4 DEF SaveConfig
  <2>2. Whole(Upsert(set, id, g))  BY <1>1, UpsertIsWhole
  <2> QED  BY <1>1, <2>1, <2>2, BeginSaveKeeps DEF Edit
<1>5. CASE DeleteProfile(c)
  <2>1. PICK id \in IdsOf(set) : Len(set.profiles) > 1 /\ Edit(c, Delete(set, id))
    BY <1>5 DEF DeleteProfile
  <2>2. Whole(Delete(set, id))  BY <1>1, <2>1, DeleteIsWhole
  <2> QED  BY <1>1, <2>1, <2>2, BeginSaveKeeps DEF Edit
<1>6. CASE ImportProfiles(c)
  <2>1. PICK id \in ProfileIds :
           Edit(c, [active |-> id,
                    profiles |-> <<[id |-> id, group |-> "chat", version |-> 0]>>])
    BY <1>6 DEF ImportProfiles
  <2> DEFINE p == [id |-> id, group |-> "chat", version |-> 0]
             s == [active |-> id, profiles |-> <<p>>]
  <2>2. p \in Profiles  BY DEF Profiles, Groups
  <2> HIDE DEF p
  <2>3. <<p>> \in Seq(Profiles) /\ <<p>> # <<>> /\ \A i, j \in DOMAIN <<p>> : i = j  BY <2>2
  <2>4. Whole(s)  BY <2>3 DEF Whole, Sets, Distinct
  <2> QED  BY <1>1, <2>1, <2>4, BeginSaveKeeps DEF Edit, p
<1>7. CASE Save(c)  BY <1>1, <1>7, SaveKeeps
<1> QED  BY <1>3, <1>4, <1>5, <1>6, <1>7 DEF ConsoleStep

LEMMA RunSaves ==
    ASSUME AgentInv, NEW r \in AgentRuns, Activate(r) \/ SaveStep(r)
    PROVE  StoreInv'
<1>1. Whole(set) /\ r \in AgentRuns \cup Requests
  BY DEF AgentInv, StoreInv, StoreIsWhole
<1>2. CASE SaveStep(r)  BY <1>1, <1>2, SaveKeeps DEF SaveStep
<1>3. CASE Activate(r) /\ saving' = saving
  BY <1>3 DEF Activate, AgentInv, StoreInv, StoreIsWhole
<1>4. CASE Activate(r) /\ saving' # saving
  <2> DEFINE g == gen[r]
             id == g.list[g.current].id
  <2>1. BeginSave(r, [set EXCEPT !.active = id]) /\ UNCHANGED set /\ g.pc = "activate"
    BY <1>4 DEF Activate
  <2>2. g \in Generates /\ InSearch(g)  BY <2>1, AskedGenerate
  <2>3. id \in ProfileIds
    <3>1. g.list \in Seq(Profiles)  BY <2>2 DEF Generates
    <3>2. g.current \in 1 .. Len(g.list)  BY <2>1, <2>2 DEF InSearch
    <3>3. g.list[g.current] \in Profiles  BY <3>1, <3>2, ElementOfSeq
    <3> QED  BY <3>3 DEF Profiles
  <2> HIDE DEF id
  <2>4. Whole([set EXCEPT !.active = id])  BY <1>1, <2>3, ActiveKept
  <2> QED  BY <1>1, <2>1, <2>4, BeginSaveKeeps
<1> QED  BY <1>2, <1>3, <1>4

-----------------------------------------------------------------------------
(* Agent runs: the loop, and the invariant. *)

\* A step of run r leaves it with loop l and provider g.
Leaves(r, l, g) ==
    loop' = [loop EXCEPT ![r] = l] /\ gen' = [gen EXCEPT ![r] = g]

LEMMA RunKeeps ==
    ASSUME AgentInv, NEW r \in AgentRuns, NEW l, NEW g, Leaves(r, l, g),
           (l = Resting /\ g = NoProvider) \/ Fits(l, g)
    PROVE  RunInv'
<1>1. l \in Loops \cup {Resting} /\ g \in Generates \cup {NoProvider}  BY DEF Fits
<1>2. /\ gen' \in [AgentRuns -> Generates \cup {NoProvider}]
      /\ loop' \in [AgentRuns -> Loops \cup {Resting}]
  BY <1>1 DEF Leaves, AgentInv, RunInv
<1>3. ASSUME NEW q \in AgentRuns
      PROVE  (loop'[q] = Resting /\ gen'[q] = NoProvider) \/ Fits(loop'[q], gen'[q])
  <2>1. CASE q = r
    <3>1. loop'[q] = l /\ gen'[q] = g  BY <2>1 DEF Leaves, AgentInv, RunInv
    <3> QED  BY <3>1
  <2>2. CASE q # r
    <3>1. loop'[q] = loop[q] /\ gen'[q] = gen[q]  BY <2>2 DEF Leaves, AgentInv, RunInv
    <3>2. (loop[q] = Resting /\ gen[q] = NoProvider) \/ Fits(loop[q], gen[q])
      BY DEF AgentInv, RunInv
    <3> QED  BY <3>1, <3>2
  <2> QED  BY <2>1, <2>2
<1> QED  BY <1>2, <1>3 DEF RunInv

LEMMA EndKeeps ==
    ASSUME AgentInv, NEW r \in AgentRuns, End(r)
    PROVE  AgentInv'
<1>1. RunInv'
  <2>1. Leaves(r, Resting, NoProvider)  BY DEF Leaves, End
  <2> QED  BY <2>1, RunKeeps
<1>2. TimeInv'
  <2>1. 0 \in 0 .. Deadline  BY AgentConstants
  <2> QED  BY <2>1 DEF TimeInv, AgentInv, End
<1>3. StoreInv'
  BY DEF End, StoreOnly, storeVars, AgentInv, StoreInv, StoreIsWhole
<1> QED  BY <1>1, <1>2, <1>3 DEF AgentInv

\* The loop goes on: what it counts stays within its budgets.
LEMMA GoOnKeeps ==
    ASSUME AgentInv, NEW r \in AgentRuns, GoOn(r), gen[r].pc = "returned",
           NEW l \in Loops, Change(r, l), l.pc # "asked",
           l.observed + (IF l.pc = "tool" THEN 1 ELSE 0) = Len(l.ran),
           l.pc = "close" <=> l.closing, ~l.closing => l.repairs < RepairLimit
    PROVE  AgentInv'
<1>1. gen[r] \in Generates /\ InSearch(gen[r])  BY AskedGenerate
<1>2. Kept(gen[r]) \in Generates /\ InSearch(Kept(gen[r])) /\ Kept(gen[r]).pc = "ready"
  BY <1>1, KeptIsReady
<1>3. Fits(l, Kept(gen[r]))  BY <1>2 DEF Fits
<1>4. Leaves(r, l, Kept(gen[r]))  BY DEF Leaves, GoOn, Change
<1>5. RunInv'  BY <1>3, <1>4, RunKeeps
<1>6. TimeInv'  BY DEF GoOn, AgentInv, TimeInv
<1>7. StoreInv'  BY DEF GoOn, StoreOnly, storeVars, AgentInv, StoreInv, StoreIsWhole
<1> QED  BY <1>5, <1>6, <1>7 DEF AgentInv

Reasons == {"tool_budget_exhausted", "finalization_reserved", "protocol_repair_exhausted"}

LEMMA ClosedIsLoop ==
    ASSUME NEW l \in Loops, NEW reason \in Reasons
    PROVE  LET c == [l EXCEPT !.pc = "close", !.closing = TRUE, !.reason = reason]
           IN  /\ c \in Loops /\ c.pc = "close" /\ c.closing
               /\ c.ran = l.ran /\ c.observed = l.observed
  BY DEF Loops, Reasons

LEMMA StartKeeps ==
    ASSUME AgentInv, NEW r \in AgentRuns, StartRun(r)
    PROVE  AgentInv'
<1>1. PICK kind \in Kinds :
         /\ \E p \in Providers(IF kind = "agent" THEN "chat" ELSE kind) :
               gen' = [gen EXCEPT ![r] = p]
         /\ Change(r, NewLoop(kind))
  BY DEF StartRun
<1> DEFINE k == IF kind = "agent" THEN "chat" ELSE kind
           l == NewLoop(kind)
<1>2. k \in {"chat", "route", "once", "rule"}  BY DEF Kinds
<1>3. PICK p \in Providers(k) : gen' = [gen EXCEPT ![r] = p]  BY <1>1
<1> HIDE DEF k
<1>4. p \in Generates /\ InSearch(p) /\ p.pc = "ready"
  <2>1. Whole(set)  BY DEF AgentInv, StoreInv, StoreIsWhole
  <2> QED  BY <1>2, <2>1, ProvidersAreReady
<1>5. l \in Loops
  <2>1. 0 \in 0 .. MaxSteps /\ 0 \in 0 .. RepairLimit  BY AgentConstants
  <2> QED  BY <2>1 DEF NewLoop, Loops, NoTool
<1>6. /\ l.pc \in {"plan", "close"} /\ (l.pc = "close" <=> l.closing) /\ l.closing \in BOOLEAN
      /\ l.observed = 0 /\ l.ran = <<>> /\ l.repairs = 0
  BY DEF NewLoop
<1> HIDE DEF l
<1>7. Fits(l, p)
  <2>1. Len(<<>>) = 0 /\ 0 < RepairLimit  BY AgentConstants
  <2> QED  BY <1>4, <1>5, <1>6, <2>1 DEF Fits
<1>8. Leaves(r, l, p)  BY <1>1, <1>3 DEF Leaves, Change, l
<1>9. RunInv'  BY <1>7, <1>8, RunKeeps
<1>10. TimeInv'
  <2>1. 0 \in 0 .. Deadline /\ Deadline \in 0 .. Deadline  BY AgentConstants
  <2> QED  BY <2>1 DEF TimeInv, AgentInv, StartRun
<1>11. StoreInv'
  BY DEF StartRun, storeVars, AgentInv, StoreInv, StoreIsWhole
<1> QED  BY <1>9, <1>10, <1>11 DEF AgentInv

\* A loop and its provider before the next Generate
LEMMA ReadyRun ==
    ASSUME AgentInv, NEW r \in AgentRuns, loop[r].pc \notin {"rest", "asked"}
    PROVE  Fits(loop[r], gen[r]) /\ gen[r].pc = "ready"
<1>1. loop[r] # Resting  BY DEF Resting
<1> QED  BY <1>1 DEF AgentInv, RunInv, Fits, Generates, Points

LEMMA AskKeeps ==
    ASSUME AgentInv, NEW r \in AgentRuns, NEW end, Generate(r, end), Goto(r, "asked"),
           loop[r].pc \in {"plan", "close"}, ~loop[r].closing => loop[r].toolCalls < MaxSteps
    PROVE  RunInv'
<1> DEFINE g == gen[r]
           h == [g EXCEPT !.pc = "next"]
           l == loop[r]
           m == [l EXCEPT !.pc = "asked"]
<1>1. Fits(l, g) /\ g.pc = "ready" /\ g \in Generates /\ InSearch(g) /\ l \in Loops
  BY ReadyRun DEF Fits
<1>2. Leaves(r, m, h)  BY DEF Generate, Goto, Leaves, AgentInv, RunInv
<1>3. h \in Generates  BY <1>1 DEF Generates, Points
<1>4. /\ h.pc = "next" /\ h.list = g.list /\ h.current = g.current /\ h.result = g.result
      /\ h.clients = g.clients /\ h.offset = g.offset /\ h.tried = g.tried
  BY <1>1 DEF Generates
<1> HIDE DEF h
<1>5. InSearch(h)
  <2>1. h.offset = 0 /\ h.tried = {} /\ h.result = "none"  BY <1>1, <1>4 DEF InSearch
  <2>2. TriedInTurn(h)
    <3>1. 0 .. h.offset - 1 = {}  BY <2>1
    <3> QED  BY <2>1, <3>1 DEF TriedInTurn
  <2> QED  BY <1>1, <1>4, <2>1, <2>2 DEF InSearch
<1>6. m \in Loops  BY <1>1 DEF Loops
<1>7. /\ m.pc = "asked" /\ m.observed = l.observed /\ m.ran = l.ran
      /\ m.closing = l.closing /\ m.repairs = l.repairs /\ m.toolCalls = l.toolCalls
  BY <1>1 DEF Loops
<1> HIDE DEF m
<1>8. Fits(m, h)  BY <1>1, <1>3, <1>4, <1>5, <1>6, <1>7 DEF Fits
<1> QED  BY <1>2, <1>8, RunKeeps

LEMMA PlanKeeps ==
    ASSUME AgentInv, NEW r \in AgentRuns, Plan(r)
    PROVE  AgentInv'
<1> DEFINE l == loop[r]
           g == gen[r]
           reserve == AdaptiveReserve(left[r])
<1>1. Fits(l, g) /\ g.pc = "ready" /\ l.pc = "plan" /\ l \in Loops
  BY ReadyRun DEF Plan, At, Fits
<1>2. StoreInv'  BY DEF Plan, storeVars, AgentInv, StoreInv, StoreIsWhole
<1>3. ASSUME NEW reason \in Reasons, Close(r, l, reason), UNCHANGED <<gen, cutoff>>
      PROVE  AgentInv'
  <2> DEFINE c == [l EXCEPT !.pc = "close", !.closing = TRUE, !.reason = reason]
  <2>1. c \in Loops /\ c.pc = "close" /\ c.closing /\ c.ran = l.ran /\ c.observed = l.observed
    BY <1>1, ClosedIsLoop
  <2>2. Leaves(r, c, g)  BY <1>3 DEF Leaves, Close, Change, AgentInv, RunInv
  <2> HIDE DEF c
  <2>3. Fits(c, g)  BY <1>1, <2>1 DEF Fits
  <2>4. RunInv'  BY <2>2, <2>3, RunKeeps
  <2>5. TimeInv'  BY <1>3 DEF Plan, AgentInv, TimeInv
  <2> QED  BY <1>2, <2>4, <2>5 DEF AgentInv
<1>4. CASE l.toolCalls = MaxSteps
  BY <1>3, <1>4 DEF Plan, Reasons
<1>5. CASE l.toolCalls # MaxSteps /\ left[r] <= reserve
  BY <1>3, <1>5 DEF Plan, Reasons
<1>6. CASE l.toolCalls # MaxSteps /\ ~(left[r] <= reserve)
  <2>1. Generate(r, reserve) /\ Goto(r, "asked") /\ UNCHANGED left  BY <1>6 DEF Plan
  <2>2. l.toolCalls < MaxSteps
    <3>1. l.toolCalls \in 0 .. MaxSteps  BY <1>1 DEF Loops
    <3> QED  BY <1>6, <3>1, AgentConstants
  <2> HIDE DEF reserve
  <2>3. RunInv'  BY <1>1, <2>1, <2>2, AskKeeps
  <2>4. reserve \in 0 .. Deadline
    <3>1. left[r] \in 0 .. Deadline /\ Reserve \in Nat /\ Deadline \in Nat
      BY AgentConstants DEF AgentInv, TimeInv
    <3> DEFINE x == left[r]
    <3> HIDE DEF x
    <3>2. x \div 3 \in Int /\ 0 <= x \div 3 /\ x \div 3 <= x  BY <3>1 DEF x
    <3>3. reserve = IF Reserve < x \div 3 THEN Reserve ELSE x \div 3
      BY DEF reserve, AdaptiveReserve, Least, x
    <3> DEFINE y == x \div 3
    <3>4. y \in Int /\ 0 <= y /\ y <= Deadline  BY <3>1, <3>2 DEF x
    <3>5. reserve = IF Reserve < y THEN Reserve ELSE y  BY <3>3
    <3> HIDE DEF y
    <3> QED  BY <3>1, <3>4, <3>5
  <2>5. TimeInv'  BY <2>1, <2>4 DEF Generate, AgentInv, TimeInv
  <2> QED  BY <1>2, <2>3, <2>5 DEF AgentInv
<1> QED  BY <1>4, <1>5, <1>6

LEMMA AskLastKeeps ==
    ASSUME AgentInv, NEW r \in AgentRuns, AskLast(r)
    PROVE  AgentInv'
<1>1. Generate(r, 0) /\ Goto(r, "asked") /\ loop[r].pc = "close"  BY DEF AskLast, At
<1>2. loop[r].closing  BY <1>1, ReadyRun DEF Fits
<1>3. RunInv'  BY <1>1, <1>2, AskKeeps
<1>4. TimeInv'
  <2>1. 0 \in 0 .. Deadline  BY AgentConstants
  <2> QED  BY <1>1, <2>1 DEF AskLast, Generate, AgentInv, TimeInv
<1>5. StoreInv'  BY DEF AskLast, storeVars, AgentInv, StoreInv, StoreIsWhole
<1> QED  BY <1>3, <1>4, <1>5 DEF AgentInv

\* A loop whose Generate has returned
LEMMA ReturnedRun ==
    ASSUME AgentInv, NEW r \in AgentRuns, NEW results, GenerateReturned(r, results)
    PROVE  /\ Fits(loop[r], gen[r]) /\ loop[r] \in Loops /\ loop[r].pc = "asked"
           /\ gen[r].pc = "returned" /\ loop[r].observed = Len(loop[r].ran)
<1>1. loop[r].pc = "asked" /\ gen[r].pc = "returned"  BY DEF GenerateReturned, At
<1>2. Fits(loop[r], gen[r])  BY <1>1, AskedGenerate
<1>3. /\ loop[r] \in Loops
      /\ loop[r].observed + (IF loop[r].pc = "tool" THEN 1 ELSE 0) = Len(loop[r].ran)
  BY <1>2 DEF Fits
<1>4. loop[r].observed \in Nat  BY <1>3 DEF Loops
<1> QED  BY <1>1, <1>2, <1>3, <1>4

LEMMA NoReplyKeeps ==
    ASSUME AgentInv, NEW r \in AgentRuns, NoReply(r)
    PROVE  AgentInv'
<1>1. CASE End(r)  BY <1>1, EndKeeps
<1>2. CASE ~End(r)
  <2> DEFINE l == loop[r]
             c == [l EXCEPT !.pc = "close", !.closing = TRUE, !.reason = "finalization_reserved"]
  <2>1. Change(r, c) /\ GoOn(r)  BY <1>2 DEF NoReply, Close
  <2>2. l \in Loops /\ gen[r].pc = "returned" /\ l.observed = Len(l.ran)
    BY ReturnedRun DEF NoReply
  <2>3. c \in Loops /\ c.pc = "close" /\ c.closing /\ c.ran = l.ran /\ c.observed = l.observed
    BY <2>2, ClosedIsLoop DEF Reasons
  <2>4. l.observed \in Nat  BY <2>2 DEF Loops
  <2> HIDE DEF c
  <2> QED  BY <2>1, <2>2, <2>3, <2>4, GoOnKeeps
<1> QED  BY <1>1, <1>2

LEMMA RepairedKeeps ==
    ASSUME AgentInv, NEW r \in AgentRuns, GenerateReturned(r, {"ok"}), ~loop[r].closing,
           Repaired(r, loop[r]), GoOn(r)
    PROVE  AgentInv'
<1> DEFINE l == loop[r]
           repairs == l.repairs + 1
           n == [l EXCEPT !.repairs = repairs, !.pc = "plan"]
           c == [n EXCEPT !.pc = "close", !.closing = TRUE,
                          !.reason = "protocol_repair_exhausted"]
<1>1. /\ l \in Loops /\ gen[r].pc = "returned" /\ l.observed = Len(l.ran) /\ Fits(l, gen[r])
  BY ReturnedRun
<1>2. l.observed \in Nat /\ l.repairs \in 0 .. RepairLimit  BY <1>1 DEF Loops
<1>3. repairs \in 0 .. RepairLimit
  <2>1. l.repairs < RepairLimit  BY <1>1 DEF Fits
  <2> QED  BY <1>2, <2>1, AgentConstants
<1>4. IF repairs >= RepairLimit THEN Change(r, c) ELSE Change(r, n)
  <2>1. n.repairs = repairs  BY <1>1 DEF Loops
  <2> QED  BY <2>1 DEF Repaired, Close
<1>5. repairs \in Int /\ RepairLimit \in Int  BY <1>2, AgentConstants
<1> HIDE DEF repairs
<1>6. n \in Loops  BY <1>1, <1>3 DEF Loops
<1>7. /\ n.pc = "plan" /\ n.ran = l.ran /\ n.observed = l.observed /\ n.repairs = repairs
      /\ n.closing = l.closing
  BY <1>1 DEF Loops
<1> HIDE DEF n
<1>8. CASE repairs >= RepairLimit
  <2>1. c \in Loops /\ c.pc = "close" /\ c.closing /\ c.ran = n.ran /\ c.observed = n.observed
    BY <1>6, ClosedIsLoop DEF Reasons
  <2>2. Change(r, c)  BY <1>4, <1>8
  <2> HIDE DEF c
  <2> QED  BY <1>1, <1>2, <1>7, <2>1, <2>2, GoOnKeeps
<1>9. CASE ~(repairs >= RepairLimit)
  <2>1. Change(r, n)  BY <1>4, <1>9
  <2>2. n.repairs < RepairLimit  BY <1>5, <1>7, <1>9
  <2> QED  BY <1>1, <1>2, <1>6, <1>7, <2>1, <2>2, GoOnKeeps
<1> QED  BY <1>8, <1>9

LEMMA CallToolKeeps ==
    ASSUME AgentInv, NEW r \in AgentRuns, CallTool(r)
    PROVE  AgentInv'
<1> DEFINE l == loop[r]
<1>1. PICK call \in Calls :
         Change(r, [l EXCEPT
                      !.pc = "tool", !.toolCalls = @ + 1, !.last = call,
                      !.searches = IF call \in Searches THEN @ + 1 ELSE @,
                      !.ran = Append(@, call)])
  BY DEF CallTool
<1> DEFINE toolCalls == l.toolCalls + 1
           searches == IF call \in Searches THEN l.searches + 1 ELSE l.searches
           ran == Append(l.ran, call)
           m == [l EXCEPT !.pc = "tool", !.toolCalls = toolCalls, !.last = call,
                          !.searches = searches, !.ran = ran]
<1>2. GoOn(r) /\ ~l.closing  BY DEF CallTool
<1>3. /\ l \in Loops /\ gen[r].pc = "returned" /\ l.observed = Len(l.ran) /\ Fits(l, gen[r])
      /\ l.pc = "asked"
  BY ReturnedRun DEF CallTool
<1>4. /\ l.observed \in Nat /\ l.toolCalls \in 0 .. MaxSteps /\ l.searches \in Nat
      /\ l.ran \in Seq(Calls)
  BY <1>3 DEF Loops
<1>5. toolCalls \in 0 .. MaxSteps
  <2>1. l.toolCalls < MaxSteps  BY <1>2, <1>3 DEF Fits
  <2> QED  BY <1>4, <2>1, AgentConstants
<1>6. searches \in Nat  BY <1>4
<1>7. ran \in Seq(Calls) /\ Len(ran) = Len(l.ran) + 1  BY <1>4, AppendProperties
<1>8. Change(r, m)  BY <1>1
<1> HIDE DEF toolCalls, searches, ran
<1>9. m \in Loops  BY <1>3, <1>5, <1>6, <1>7 DEF Loops
<1>10. /\ m.pc = "tool" /\ m.observed = l.observed /\ m.ran = ran /\ m.closing = l.closing
       /\ m.repairs = l.repairs
  BY <1>3 DEF Loops
<1> HIDE DEF m
<1>11. l.repairs < RepairLimit  BY <1>2, <1>3 DEF Fits
<1>12. m.observed + (IF m.pc = "tool" THEN 1 ELSE 0) = Len(m.ran)
  BY <1>3, <1>4, <1>7, <1>10
<1> QED  BY <1>2, <1>3, <1>8, <1>9, <1>10, <1>11, <1>12, GoOnKeeps

LEMMA RunToolKeeps ==
    ASSUME AgentInv, NEW r \in AgentRuns, RunTool(r)
    PROVE  AgentInv'
<1> DEFINE l == loop[r]
           x == left[r]
<1>1. l.pc = "tool" /\ Fits(l, gen[r]) /\ l \in Loops /\ gen[r].pc = "ready"
  <2>1. l.pc = "tool"  BY DEF RunTool, At
  <2> QED  BY <2>1, ReadyRun DEF Fits
<1>2. CASE End(r)  BY <1>2, EndKeeps
<1>3. CASE ~End(r)
  <2>1. /\ \/ \E time \in {0, ToolBudget(x)} : left' = [left EXCEPT ![r] = x - time]
           \/ left' = [left EXCEPT ![r] = 0]
        /\ Change(r, [Observe(l, "output") EXCEPT !.pc = "plan"])
        /\ UNCHANGED <<gen, cutoff, cancelled>> /\ StoreOnly
    BY <1>3 DEF RunTool, Observe
  <2>2. x \in 0 .. Deadline /\ Reserve \in Nat /\ ToolTimeout \in Nat /\ Deadline \in Nat
    BY AgentConstants DEF AgentInv, TimeInv
  <2>3. TimeInv'
    <3>1. ToolBudget(x) \in Int /\ 0 <= ToolBudget(x) /\ ToolBudget(x) <= x
      <4> HIDE DEF x
      <4> DEFINE y == x \div 3
                 z == IF Reserve < y THEN Reserve ELSE y
      <4>1. y \in Int /\ 0 <= y /\ y <= x  BY <2>2
      <4> HIDE DEF y
      <4>2. z \in Int /\ 0 <= z /\ z <= x  BY <2>2, <4>1
      <4>3. ToolBudget(x) = IF ToolTimeout < x - z THEN ToolTimeout ELSE x - z
        BY DEF ToolBudget, AdaptiveReserve, Least, y
      <4> HIDE DEF z
      <4> QED  BY <2>2, <4>2, <4>3
    <3> HIDE DEF x
    <3>2. CASE left' = [left EXCEPT ![r] = 0]
      <4>1. 0 \in Int /\ 0 <= 0 /\ 0 <= Deadline  BY <2>2
      <4> QED  BY <2>1, <3>2, <4>1, TimeGoesOn
    <3>3. CASE \E time \in {0, ToolBudget(x)} : left' = [left EXCEPT ![r] = x - time]
      <4>1. PICK time \in {0, ToolBudget(x)} : left' = [left EXCEPT ![r] = x - time]
        BY <3>3
      <4>2. x - time \in Int /\ 0 <= x - time /\ x - time <= Deadline  BY <2>2, <3>1
      <4> QED  BY <2>1, <4>1, <4>2, TimeGoesOn
    <3> QED  BY <2>1, <3>2, <3>3
  <2>4. RunInv'
    <3> DEFINE observed == l.observed + 1
               o == [l EXCEPT !.observed = observed, !.pc = "plan"]
    <3>1. l.observed \in Nat /\ l.ran \in Seq(Calls)  BY <1>1 DEF Loops
    <3>2. observed \in Nat  BY <3>1
    <3>3. Leaves(r, o, gen[r])
      BY <2>1 DEF Leaves, Change, Observe, AgentInv, RunInv
    <3>4. observed = Len(l.ran)  BY <1>1 DEF Fits
    <3> HIDE DEF observed
    <3>5. o \in Loops  BY <1>1, <3>2 DEF Loops
    <3>6. /\ o.pc = "plan" /\ o.observed = observed /\ o.ran = l.ran
          /\ o.closing = l.closing /\ o.repairs = l.repairs
      BY <1>1 DEF Loops
    <3> HIDE DEF o
    <3>7. Fits(o, gen[r])
      <4>1. ~l.closing => l.repairs < RepairLimit  BY <1>1 DEF Fits
      <4>2. o.observed + (IF o.pc = "tool" THEN 1 ELSE 0) = Len(o.ran)  BY <3>2, <3>4, <3>6
      <4>3. gen[r] \in Generates /\ InSearch(gen[r])  BY <1>1 DEF Fits
      <4> QED  BY <1>1, <3>5, <3>6, <4>1, <4>2, <4>3 DEF Fits
    <3> QED  BY <3>3, <3>7, RunKeeps
  <2>5. StoreInv'
    BY <2>1 DEF StoreOnly, storeVars, AgentInv, StoreInv, StoreIsWhole
  <2> QED  BY <2>3, <2>4, <2>5 DEF AgentInv
<1> QED  BY <1>2, <1>3

LEMMA ProviderKeeps ==
    ASSUME AgentInv, NEW r \in AgentRuns, ProviderStep(r), UNCHANGED loop
    PROVE  AgentInv'
<1>1. CASE SaveStep(r)
  <2>1. UNCHANGED <<gen, left, cutoff>>  BY <1>1 DEF SaveStep
  <2>2. RunInv'  BY <2>1 DEF AgentInv, RunInv
  <2>3. TimeInv'  BY <2>1 DEF AgentInv, TimeInv
  <2> QED  BY <1>1, <2>2, <2>3, RunSaves DEF AgentInv
<1>2. CASE ~SaveStep(r)
  <2>1. \/ NextProfile(r) \/ Answer(r) \/ Fail(r) \/ TimeOut(r) \/ Pause(r)
        \/ Activate(r) \/ Activated(r)
    BY <1>2 DEF ProviderStep
  <2>2. gen[r].pc \notin {"none", "ready"}
    BY <2>1 DEF NextProfile, Answer, Fail, TimeOut, CallFails, Pause, Activate, Activated
  <2>3. GenerateGoesOn(r)
    <3>1. CASE Fail(r)
      <4>1. PICK error \in {"transient", "switch", "fatal"} : CallFails(r, error, 0)
        BY <3>1 DEF Fail
      <4> QED  BY <4>1, CallGoesOn DEF Failures
    <3>2. CASE TimeOut(r)
      <4>1. \E time : CallFails(r, "late", time)  BY <3>2 DEF TimeOut
      <4> QED  BY <4>1, CallGoesOn DEF Failures
    <3> QED
      BY <2>1, <3>1, <3>2, NextProfileGoesOn, AnswerGoesOn, PauseGoesOn, ActivateGoesOn
  <2>4. RunInv'
    <3>1. Fits(loop[r], gen[r]) /\ loop[r].pc = "asked"  BY <2>2, AskedGenerate
    <3>2. PICK h \in Generates : /\ InSearch(h) /\ h.pc # "ready"
                                 /\ gen' = [gen EXCEPT ![r] = h]
      BY <2>3 DEF GenerateGoesOn
    <3>3. Fits(loop[r], h)  BY <3>1, <3>2 DEF Fits
    <3>4. Leaves(r, loop[r], h)  BY <3>2 DEF Leaves, AgentInv, RunInv
    <3> QED  BY <3>3, <3>4, RunKeeps
  <2>5. TimeInv'
    <3>1. CASE Fail(r) \/ TimeOut(r) \/ Pause(r)  BY <3>1, CallTakesTime
    <3>2. CASE NextProfile(r) \/ Answer(r) \/ Activate(r) \/ Activated(r)
      BY <3>2 DEF NextProfile, Answer, Activate, Activated, AgentInv, TimeInv
    <3> QED  BY <2>1, <3>1, <3>2
  <2>6. StoreInv'
    <3>1. CASE Activate(r)  BY <3>1, RunSaves
    <3>2. CASE ~Activate(r)
      <4>1. UNCHANGED <<set, saving>>
        BY <2>1, <3>2
        DEF NextProfile, Answer, Fail, TimeOut, CallFails, Pause, Activated, storeVars
      <4> QED  BY <4>1 DEF AgentInv, StoreInv, StoreIsWhole
    <3> QED  BY <3>1, <3>2
  <2> QED  BY <2>4, <2>5, <2>6 DEF AgentInv
<1> QED  BY <1>1, <1>2

LEMMA InitialSetIsWhole ==
    Whole(InitialSet) /\ InitialSet.active \in IdsOf(InitialSet)
<1> DEFINE n == Cardinality(ProfileIds)
           ids == SetToSeq(ProfileIds)
           ps == [i \in DOMAIN ids |-> [id |-> ids[i], group |-> "chat", version |-> 0]]
<1>1. n \in Nat /\ ExistsBijection(1 .. n, ProfileIds)
  BY FailoverConstants, FS_CardinalityType
<1>2. ids \in [1 .. n -> ProfileIds] /\ IsInjective(ids)
  <2>1. \E f \in [1 .. n -> ProfileIds] : IsInjective(f)
    BY <1>1 DEF ExistsBijection, Bijection, Injection
  <2> QED  BY <2>1 DEF SetToSeq
<1>3. n # 0
  <2>1. PICK f \in Surjection(1 .. n, ProfileIds) : TRUE
    BY <1>1 DEF ExistsBijection, Bijection
  <2>2. PICK id \in ProfileIds : TRUE  BY FailoverConstants
  <2>3. \E i \in 1 .. n : f[i] = id  BY <2>1, <2>2 DEF Surjection
  <2> QED  BY <1>1, <2>3
<1>4. InitialSet = [active |-> ids[1], profiles |-> ps]  BY DEF InitialSet
<1> HIDE DEF n, ids
<1>5. DOMAIN ids = 1 .. n /\ 1 \in 1 .. n /\ \A i \in 1 .. n : ids[i] \in ProfileIds
  BY <1>1, <1>2, <1>3
<1>6. DOMAIN ps = 1 .. n /\ \A i \in 1 .. n : ps[i].id = ids[i] /\ ps[i] \in Profiles
  BY <1>5 DEF Profiles, Groups
<1>7. ps \in Seq(Profiles)
  <2>1. ps \in [1 .. n -> Profiles]  BY <1>5, <1>6
  <2> HIDE DEF ps
  <2> QED  BY <1>1, <2>1
<1> HIDE DEF ps
<1>8. ps # <<>>
  <2>1. DOMAIN ps # {}  BY <1>5, <1>6
  <2> QED  BY <2>1
<1>9. Distinct(ps)  BY <1>2, <1>5, <1>6 DEF Distinct, IsInjective
<1>10. Whole(InitialSet)  BY <1>4, <1>5, <1>7, <1>8, <1>9 DEF Whole, Sets
<1>11. InitialSet.active \in IdsOf(InitialSet)
  BY <1>4, <1>5, <1>6 DEF IdsOf, ToSet
<1> QED  BY <1>10, <1>11

LEMMA AgentInvInit == AgentInit => AgentInv
<1> SUFFICES ASSUME AgentInit  PROVE AgentInv
  OBVIOUS
<1>1. StoreInv  BY InitialSetIsWhole DEF AgentInit, StoreInv, StoreIsWhole
<1>2. TimeInv
  <2>1. 0 \in 0 .. Deadline  BY AgentConstants
  <2> QED  BY <2>1 DEF AgentInit, TimeInv
<1>3. RunInv  BY DEF AgentInit, RunInv
<1> QED  BY <1>1, <1>2, <1>3 DEF AgentInv

LEMMA AgentInvStep == AgentInv /\ [AgentNext]_agentVars => AgentInv'
<1> SUFFICES ASSUME AgentInv, [AgentNext]_agentVars  PROVE AgentInv'
  OBVIOUS
<1>1. CASE UNCHANGED agentVars
  BY <1>1 DEF agentVars, failoverVars, storeVars, AgentInv, StoreInv, StoreIsWhole, TimeInv,
              RunInv
<1>2. ASSUME NEW r \in AgentRuns, RunStep(r)  PROVE AgentInv'
  <2>1. CASE StartRun(r)  BY <2>1, StartKeeps
  <2>2. CASE Plan(r)  BY <2>2, PlanKeeps
  <2>3. CASE AskLast(r)  BY <2>3, AskLastKeeps
  <2>4. CASE NoReply(r)  BY <2>4, NoReplyKeeps
  <2>5. CASE FinalReply(r)  BY <2>5, EndKeeps DEF FinalReply
  <2>6. CASE BadAction(r)  BY <2>6, RepairedKeeps DEF BadAction
  <2>7. CASE SkipCall(r)  BY <2>7, RepairedKeeps DEF SkipCall
  <2>8. CASE CallTool(r)  BY <2>8, CallToolKeeps
  <2>9. CASE RunTool(r)  BY <2>9, RunToolKeeps
  <2>10. CASE ProviderStep(r) /\ UNCHANGED loop  BY <2>10, ProviderKeeps
  <2> QED
    BY <1>2, <2>1, <2>2, <2>3, <2>4, <2>5, <2>6, <2>7, <2>8, <2>9, <2>10 DEF RunStep
<1>3. ASSUME NEW r \in AgentRuns, Cancel(r)  PROVE AgentInv'
  BY <1>3 DEF Cancel, storeVars, AgentInv, StoreInv, StoreIsWhole, TimeInv, RunInv
<1>4. ASSUME NEW c \in Requests, ConsoleStep(c), UNCHANGED loop  PROVE AgentInv'
  <2>1. StoreInv'  BY <1>4, ConsoleKeeps
  <2>2. TimeInv' /\ RunInv'  BY <1>4 DEF ConsoleStep, AgentInv, TimeInv, RunInv
  <2> QED  BY <2>1, <2>2 DEF AgentInv
<1> QED  BY <1>1, <1>2, <1>3, <1>4 DEF AgentNext

\* Runs of the model keep their invariant: a Generate tries the profiles in turn
\* from the current one (runLLMProviderWithFailover), and a loop stays within its
\* budgets and has shown the model what its tools returned (Runner.Run).
THEOREM AgentRunsInvariant == AgentSpec => []AgentInv
<1>1. AgentSpec => AgentInit /\ [][AgentNext]_agentVars  BY PTL DEF AgentSpec
<1> QED  BY <1>1, AgentInvInit, AgentInvStep, PTL

\* The times, budgets and the active profile are of their types, and whenever the
\* model is asked it has been shown the result of every tool that ran.
THEOREM ResultsShown == AgentSpec => [](AgentTypeOK /\ ResultsReachTheModel)
<1>1. AgentInv => AgentTypeOK /\ ResultsReachTheModel
  <2> SUFFICES ASSUME AgentInv  PROVE AgentTypeOK /\ ResultsReachTheModel
    OBVIOUS
  <2>1. ASSUME NEW r \in AgentRuns, loop[r] # Resting
        PROVE  /\ loop[r].toolCalls \in 0 .. MaxSteps /\ loop[r].repairs \in 0 .. RepairLimit
               /\ Asking(r) => loop[r].observed = Len(loop[r].ran)
    <3>1. Fits(loop[r], gen[r])  BY <2>1 DEF AgentInv, RunInv
    <3>2. loop[r] \in Loops
          /\ loop[r].observed + (IF loop[r].pc = "tool" THEN 1 ELSE 0) = Len(loop[r].ran)
      BY <3>1 DEF Fits
    <3>3. loop[r].toolCalls \in 0 .. MaxSteps /\ loop[r].repairs \in 0 .. RepairLimit
          /\ loop[r].observed \in Nat
      BY <3>2 DEF Loops
    <3> QED  BY <3>2, <3>3 DEF Asking, At
  <2>2. \A r \in AgentRuns : left[r] \in 0 .. Deadline /\ cutoff[r] \in 0 .. Deadline
    BY DEF AgentInv, TimeInv
  <2>3. AgentTypeOK
    <3>1. \A x \in 0 .. Deadline : x >= 0  BY AgentConstants
    <3> QED  BY <2>1, <2>2, <3>1 DEF AgentTypeOK, AgentInv, StoreInv, StoreIsWhole
  <2>4. ResultsReachTheModel
    <3>1. \A r \in AgentRuns : Asking(r) => loop[r] # Resting  BY DEF Asking, At, Resting
    <3> QED  BY <2>1, <3>1 DEF ResultsReachTheModel
  <2> QED  BY <2>3, <2>4
<1> QED  BY <1>1, AgentRunsInvariant, PTL

\* A Generate that fails has tried every profile, from whichever it began
\* (runLLMProviderWithFailover).
THEOREM SearchIsExhaustive == AgentSpec => []FailsOnlyWhenExhausted
<1>1. AgentInv => FailsOnlyWhenExhausted
  <2> SUFFICES ASSUME AgentInv, NEW r \in AgentRuns, gen[r].pc = "returned",
                      gen[r].result \in Failures
               PROVE  gen[r].tried = DOMAIN gen[r].list
    BY DEF FailsOnlyWhenExhausted, Failures
  <2>1. gen[r] \in Generates /\ InSearch(gen[r])  BY AskedGenerate
  <2>2. gen[r].tried = 1 .. Len(gen[r].list)  BY <2>1 DEF InSearch
  <2>3. gen[r].list \in Seq(Profiles)  BY <2>1 DEF Generates
  <2> QED  BY <2>2, <2>3, LenProperties
<1> QED  BY <1>1, AgentRunsInvariant, PTL

-----------------------------------------------------------------------------
(* Agent runs: the time that is left. *)

\* How often the time left may be cut to a third before the loop closes: once
\* for each repair, twice (a Generate and a tool) for each tool call.
Cuts(l) == 2 * (MaxSteps - l.toolCalls) + (RepairLimit - l.repairs)
AllCuts == 2 * MaxSteps + RepairLimit

\* f is what must be left for so many cuts, such as 3^n for n of them.
Lasts(f) ==
    /\ f \in [Nat -> Nat] /\ f[0] >= 1 /\ \A n \in Nat : f[n + 1] >= 3 * f[n]
    /\ f[AllCuts] <= Reserve /\ f[AllCuts] <= Deadline

\* A loop with time t, of which its Generate leaves c alone.
InTime(f, l, t, c) ==
    /\ l.pc = "plan" => t >= f[Cuts(l)]
    /\ l.pc = "asked" /\ ~l.closing => t >= c /\ c >= f[Cuts(l) - 1]
    /\ l.pc = "tool" => t >= f[Cuts(l) + 1]
    /\ l.pc = "close" => t > 0

TimeIsLeft(f) ==
    /\ overran \in [AgentRuns -> BOOLEAN]
    /\ \A r \in AgentRuns : overran[r] \/ InTime(f, loop[r], left[r], cutoff[r])

LEMMA LastsGrows ==
    ASSUME NEW f, Lasts(f), NEW n \in Nat, NEW d \in Nat
    PROVE  f[n] \in Nat /\ f[n] >= 1 /\ f[n] <= f[n + d]
<1> DEFINE T == {e \in Nat : \A k \in Nat : f[k] <= f[k + e]}
<1>1. \A k \in Nat : f[k] \in Nat  BY DEF Lasts
<1>2. 0 \in T
  <2>1. \A k \in Nat : k + 0 = k  OBVIOUS
  <2> QED  BY <1>1, <2>1
<1>3. ASSUME NEW e \in T \cap Nat  PROVE e + 1 \in T
  <2> SUFFICES ASSUME NEW k \in Nat  PROVE f[k] <= f[k + (e + 1)]
    OBVIOUS
  <2>1. f[k] <= f[k + e] /\ k + e \in Nat /\ k + (e + 1) = (k + e) + 1  OBVIOUS
  <2>2. f[(k + e) + 1] >= 3 * f[k + e]  BY <2>1 DEF Lasts
  <2>3. f[k] \in Nat /\ f[k + e] \in Nat /\ f[(k + e) + 1] \in Nat  BY <1>1, <2>1
  <2> QED  BY <2>1, <2>2, <2>3
<1> HIDE DEF T
<1>4. Nat \subseteq T  BY <1>2, <1>3, Counting
<1>5. \A k, e \in Nat : f[k] <= f[k + e]  BY <1>4 DEF T
<1>6. f[0] <= f[n] /\ f[0] >= 1
  <2>1. 0 \in Nat /\ 0 + n = n  OBVIOUS
  <2>2. f[0] <= f[0 + n]  BY <1>5, <2>1
  <2> QED  BY <2>1, <2>2 DEF Lasts
<1>7. f[n] \in Nat /\ f[0] \in Nat  BY <1>1
<1>8. f[n] <= f[n + d]  BY <1>5
<1> QED  BY <1>6, <1>7, <1>8

\* What is kept for the rest is enough for one cut less.
LEMMA ReserveLasts ==
    ASSUME NEW f, Lasts(f), NEW n \in Nat, n <= AllCuts, NEW t \in Nat, t >= f[n + 1]
    PROVE  AdaptiveReserve(t) \in Nat /\ f[n] <= AdaptiveReserve(t) /\ AdaptiveReserve(t) <= t
<1>1. MaxSteps \in Nat /\ RepairLimit \in Nat /\ Reserve \in Nat  BY AgentConstants
<1>2. AllCuts \in Nat  BY <1>1 DEF AllCuts
<1>3. f[n] <= f[AllCuts]
  <2>1. AllCuts - n \in Nat /\ n + (AllCuts - n) = AllCuts  BY <1>2
  <2>2. f[n] <= f[n + (AllCuts - n)]  BY <2>1, LastsGrows
  <2> QED  BY <2>1, <2>2
<1>4. f[n] \in Nat /\ f[AllCuts] \in Nat /\ f[n + 1] \in Nat  BY <1>2 DEF Lasts
<1>5. f[n + 1] >= 3 * f[n] /\ f[AllCuts] <= Reserve  BY DEF Lasts
<1> DEFINE x == f[n]
           third == t \div 3
<1>6. x \in Nat /\ t >= 3 * x /\ x <= Reserve  BY <1>1, <1>3, <1>4, <1>5
<1> HIDE DEF x
<1>7. third \in Nat /\ x <= third /\ third <= t  BY <1>6
<1>8. AdaptiveReserve(t) = IF Reserve < third THEN Reserve ELSE third
  BY DEF AdaptiveReserve, Least
<1> HIDE DEF third
<1> QED  BY <1>1, <1>6, <1>7, <1>8 DEF x

LEMMA CutsAre ==
    ASSUME NEW l \in Loops
    PROVE  Cuts(l) \in Nat /\ Cuts(l) <= AllCuts /\ AllCuts \in Nat
<1>1. MaxSteps \in Nat /\ RepairLimit \in Nat  BY AgentConstants
<1>2. l.toolCalls \in 0 .. MaxSteps /\ l.repairs \in 0 .. RepairLimit  BY DEF Loops
<1> QED  BY <1>1, <1>2 DEF Cuts, AllCuts

\* A step of r that leaves the others alone
LEMMA ClockOf ==
    ASSUME NEW f, TimeIsLeft(f), AgentInv, NEW r \in AgentRuns,
           NEW l, NEW t, NEW c, NEW o \in BOOLEAN,
           loop' = [loop EXCEPT ![r] = l], left' = [left EXCEPT ![r] = t],
           cutoff' = [cutoff EXCEPT ![r] = c], overran' = [overran EXCEPT ![r] = o],
           o \/ InTime(f, l, t, c)
    PROVE  TimeIsLeft(f)'
<1>1. overran' \in [AgentRuns -> BOOLEAN]  BY DEF TimeIsLeft
<1>2. ASSUME NEW q \in AgentRuns
      PROVE  overran'[q] \/ InTime(f, loop'[q], left'[q], cutoff'[q])
  <2>1. CASE q = r
    <3>1. loop'[q] = l /\ left'[q] = t /\ cutoff'[q] = c /\ overran'[q] = o
      BY <2>1 DEF TimeIsLeft, AgentInv, TimeInv, RunInv
    <3> QED  BY <3>1
  <2>2. CASE q # r
    <3>1. /\ loop'[q] = loop[q] /\ left'[q] = left[q] /\ cutoff'[q] = cutoff[q]
          /\ overran'[q] = overran[q]
      BY <2>2 DEF TimeIsLeft, AgentInv, TimeInv, RunInv
    <3>2. overran[q] \/ InTime(f, loop[q], left[q], cutoff[q])  BY DEF TimeIsLeft
    <3> QED  BY <3>1, <3>2
  <2> QED  BY <2>1, <2>2
<1> QED  BY <1>1, <1>2 DEF TimeIsLeft

\* A loop that goes on without a step of the clock
LEMMA LoopOf ==
    ASSUME NEW f, TimeIsLeft(f), AgentInv, NEW r \in AgentRuns, NEW l,
           Change(r, l), UNCHANGED <<left, cutoff, overran>>,
           overran[r] \/ InTime(f, l, left[r], cutoff[r])
    PROVE  TimeIsLeft(f)'
<1> DEFINE t == left[r]
           c == cutoff[r]
           o == overran[r]
<1>1. /\ left' = [left EXCEPT ![r] = t] /\ cutoff' = [cutoff EXCEPT ![r] = c]
      /\ overran' = [overran EXCEPT ![r] = o] /\ o \in BOOLEAN
  BY DEF TimeIsLeft, AgentInv, TimeInv
<1>2. loop' = [loop EXCEPT ![r] = l]  BY DEF Change
<1>3. o \/ InTime(f, l, t, c)  OBVIOUS
<1> HIDE DEF t, c, o
<1> QED  BY <1>1, <1>2, <1>3, ClockOf

LEMMA EndInTime ==
    ASSUME NEW f, TimeIsLeft(f), AgentInv, NEW r \in AgentRuns, End(r)
    PROVE  TimeIsLeft(f)'
<1>1. InTime(f, Resting, 0, 0)  BY DEF InTime, Resting
<1> QED  BY <1>1, ClockOf DEF End

LEMMA StartInTime ==
    ASSUME NEW f, Lasts(f), TimeIsLeft(f), AgentInv, NEW r \in AgentRuns, StartRun(r)
    PROVE  TimeIsLeft(f)'
<1>1. PICK kind \in Kinds : Change(r, NewLoop(kind))  BY DEF StartRun
<1> DEFINE l == NewLoop(kind)
<1>2. /\ l.pc \in {"plan", "close"} /\ Cuts(l) = 2 * (MaxSteps - 0) + (RepairLimit - 0)
  BY DEF NewLoop, Cuts
<1>3. Cuts(l) = AllCuts  BY <1>2, AgentConstants DEF AllCuts
<1>4. Deadline > 0 /\ Deadline >= f[AllCuts]
  <2>1. MaxSteps \in Nat /\ RepairLimit \in Nat /\ Deadline \in Nat \ {0}  BY AgentConstants
  <2>2. AllCuts \in Nat  BY <2>1 DEF AllCuts
  <2>3. f[AllCuts] \in Nat /\ f[AllCuts] <= Deadline  BY <2>2 DEF Lasts
  <2> QED  BY <2>1, <2>3
<1> HIDE DEF l
<1>5. InTime(f, l, Deadline, 0)  BY <1>2, <1>3, <1>4 DEF InTime
<1>6. overran' = [overran EXCEPT ![r] = overran[r]] /\ overran[r] \in BOOLEAN
  BY DEF StartRun, TimeIsLeft
<1> QED  BY <1>1, <1>5, <1>6, ClockOf DEF StartRun, Change, l

LEMMA PlanInTime ==
    ASSUME NEW f, Lasts(f), TimeIsLeft(f), AgentInv, NEW r \in AgentRuns, Plan(r)
    PROVE  TimeIsLeft(f)'
<1> DEFINE l == loop[r]
           t == left[r]
           reserve == AdaptiveReserve(t)
<1>1. Fits(l, gen[r]) /\ l.pc = "plan" /\ l \in Loops /\ ~l.closing
  <2>1. Fits(l, gen[r]) /\ l.pc = "plan"  BY ReadyRun DEF Plan, At
  <2> QED  BY <2>1 DEF Fits
<1>2. Cuts(l) \in Nat /\ Cuts(l) <= AllCuts /\ AllCuts \in Nat  BY <1>1, CutsAre
<1>3. t \in Nat  BY AgentConstants DEF AgentInv, TimeInv
<1>4. Cuts(l) >= 1
  <2>1. l.repairs < RepairLimit  BY <1>1 DEF Fits
  <2>2. l.toolCalls \in 0 .. MaxSteps /\ l.repairs \in 0 .. RepairLimit  BY <1>1 DEF Loops
  <2> QED  BY <2>1, <2>2, AgentConstants DEF Cuts
<1>5. UNCHANGED <<left, overran>>  BY DEF Plan
<1>6. CASE overran[r]
  <2>1. \E m, c : Change(r, m) /\ cutoff' = [cutoff EXCEPT ![r] = c]
    <3>1. CASE UNCHANGED cutoff
      <4>1. cutoff' = [cutoff EXCEPT ![r] = cutoff[r]]  BY <3>1 DEF AgentInv, TimeInv
      <4>2. \E m : Change(r, m)
        BY DEF Plan, Close, Goto, Change, AgentInv, RunInv
      <4> QED  BY <4>1, <4>2
    <3>2. CASE ~UNCHANGED cutoff
      <4>1. Generate(r, reserve) /\ Goto(r, "asked")  BY <3>2 DEF Plan
      <4>2. Change(r, [l EXCEPT !.pc = "asked"])
        BY <4>1 DEF Goto, Change, AgentInv, RunInv
      <4> QED  BY <4>1, <4>2 DEF Generate
    <3> QED  BY <3>1, <3>2
  <2>2. PICK m, c : Change(r, m) /\ cutoff' = [cutoff EXCEPT ![r] = c]  BY <2>1
  <2>3. left' = [left EXCEPT ![r] = t] /\ overran' = [overran EXCEPT ![r] = TRUE]
    BY <1>5, <1>6 DEF TimeIsLeft, AgentInv, TimeInv
  <2>4. TRUE \in BOOLEAN  OBVIOUS
  <2> QED  BY <2>2, <2>3, <2>4, ClockOf DEF Change
<1>7. CASE ~overran[r]
  <2>1. t >= f[Cuts(l)]  BY <1>1, <1>7 DEF TimeIsLeft, InTime
  <2>2. f[Cuts(l)] \in Nat /\ f[Cuts(l)] >= 1
    <3>1. 0 \in Nat  OBVIOUS
    <3> QED  BY <1>2, <3>1, LastsGrows
  <2>3. t > 0  BY <1>3, <2>1, <2>2
  <2>4. ASSUME NEW reason \in Reasons, Close(r, l, reason), UNCHANGED cutoff
        PROVE  TimeIsLeft(f)'
    <3> DEFINE c == [l EXCEPT !.pc = "close", !.closing = TRUE, !.reason = reason]
    <3>1. c.pc = "close"  BY <1>1, ClosedIsLoop
    <3>2. Change(r, c)  BY <2>4 DEF Close
    <3> HIDE DEF c
    <3>3. InTime(f, c, t, cutoff[r])  BY <2>3, <3>1 DEF InTime
    <3> QED  BY <1>5, <2>4, <3>2, <3>3, LoopOf
  <2>5. CASE l.toolCalls = MaxSteps
    BY <2>4, <2>5 DEF Plan, Reasons
  <2>6. CASE l.toolCalls # MaxSteps /\ t <= reserve
    BY <2>4, <2>6 DEF Plan, Reasons
  <2>7. CASE l.toolCalls # MaxSteps /\ ~(t <= reserve)
    <3>1. Generate(r, reserve) /\ Goto(r, "asked")  BY <2>7 DEF Plan
    <3> DEFINE n == Cuts(l) - 1
               m == [l EXCEPT !.pc = "asked"]
    <3>2. n \in Nat /\ n <= AllCuts /\ n + 1 = Cuts(l)  BY <1>2, <1>4
    <3> HIDE DEF n
    <3>3. reserve \in Nat /\ f[n] <= reserve /\ reserve <= t
      <4>1. t >= f[n + 1]  BY <2>1, <3>2
      <4> HIDE DEF t
      <4> QED  BY <1>3, <3>2, <4>1, ReserveLasts
    <3>4. m.pc = "asked" /\ Cuts(m) = Cuts(l)  BY <1>1 DEF Loops, Cuts
    <3>5. Change(r, m)  BY <3>1 DEF Goto, Change, AgentInv, RunInv
    <3> HIDE DEF m, reserve
    <3>6. InTime(f, m, t, reserve)
      <4>1. f[n] \in Nat /\ Cuts(m) - 1 = n  BY <3>2, <3>4 DEF Lasts, n
      <4> QED  BY <1>3, <3>3, <3>4, <4>1 DEF InTime
    <3>7. /\ left' = [left EXCEPT ![r] = t] /\ overran' = [overran EXCEPT ![r] = overran[r]]
          /\ overran[r] \in BOOLEAN /\ cutoff' = [cutoff EXCEPT ![r] = reserve]
      BY <1>5, <3>1 DEF Generate, TimeIsLeft, AgentInv, TimeInv
    <3> QED  BY <3>5, <3>6, <3>7, ClockOf DEF Change
  <2> QED  BY <2>5, <2>6, <2>7
<1> QED  BY <1>6, <1>7

LEMMA AskLastInTime ==
    ASSUME NEW f, TimeIsLeft(f), AgentInv, NEW r \in AgentRuns, AskLast(r)
    PROVE  TimeIsLeft(f)'
<1> DEFINE l == loop[r]
           t == left[r]
           o == overran[r]
           m == [l EXCEPT !.pc = "asked"]
<1>1. Generate(r, 0) /\ Goto(r, "asked") /\ l.pc = "close" /\ UNCHANGED <<left, overran>>
  BY DEF AskLast, At
<1>2. l \in Loops /\ l.closing  BY <1>1, ReadyRun DEF Fits
<1>3. m.pc = "asked" /\ m.closing  BY <1>2 DEF Loops
<1>4. /\ left' = [left EXCEPT ![r] = t] /\ overran' = [overran EXCEPT ![r] = o] /\ o \in BOOLEAN
      /\ cutoff' = [cutoff EXCEPT ![r] = 0] /\ loop' = [loop EXCEPT ![r] = m]
  BY <1>1 DEF Generate, Goto, TimeIsLeft, AgentInv, TimeInv, RunInv
<1> HIDE DEF m, t, o
<1>5. InTime(f, m, t, 0)  BY <1>3 DEF InTime
<1> QED  BY <1>4, <1>5, ClockOf

LEMMA NoReplyInTime ==
    ASSUME NEW f, TimeIsLeft(f), AgentInv, NEW r \in AgentRuns, NoReply(r)
    PROVE  TimeIsLeft(f)'
<1>1. CASE End(r)  BY <1>1, EndInTime
<1>2. CASE ~End(r)
  <2> DEFINE l == loop[r]
             c == [l EXCEPT !.pc = "close", !.closing = TRUE, !.reason = "finalization_reserved"]
  <2>1. Change(r, c) /\ UNCHANGED <<left, cutoff, overran>> /\ left[r] > 0
    BY <1>2 DEF NoReply, Close, GoOn
  <2>2. c.pc = "close"
    <3>1. l \in Loops  BY ReturnedRun DEF NoReply
    <3> QED  BY <3>1, ClosedIsLoop DEF Reasons
  <2> HIDE DEF c
  <2>3. InTime(f, c, left[r], cutoff[r])  BY <2>1, <2>2 DEF InTime
  <2> QED  BY <2>1, <2>3, LoopOf
<1> QED  BY <1>1, <1>2

\* What is left when a Generate has returned, and the loop may go on
LEMMA LeftAfterGenerate ==
    ASSUME NEW f, Lasts(f), TimeIsLeft(f), AgentInv, NEW r \in AgentRuns, ~overran[r],
           GenerateReturned(r, {"ok"}), ~loop[r].closing
    PROVE  /\ loop[r] \in Loops /\ loop[r].toolCalls < MaxSteps /\ loop[r].repairs < RepairLimit
           /\ Cuts(loop[r]) \in Nat /\ Cuts(loop[r]) >= 3
           /\ left[r] \in Nat /\ left[r] > 0 /\ left[r] >= f[Cuts(loop[r]) - 1]
<1> DEFINE l == loop[r]
<1>1. l \in Loops /\ l.pc = "asked" /\ Fits(l, gen[r])  BY ReturnedRun
<1>2. l.toolCalls < MaxSteps /\ l.repairs < RepairLimit  BY <1>1 DEF Fits
<1>3. Cuts(l) \in Nat /\ Cuts(l) >= 3
  <2>1. l.toolCalls \in 0 .. MaxSteps /\ l.repairs \in 0 .. RepairLimit  BY <1>1 DEF Loops
  <2> QED  BY <1>2, <2>1, AgentConstants DEF Cuts
<1>4. left[r] >= cutoff[r] /\ cutoff[r] >= f[Cuts(l) - 1]  BY <1>1 DEF TimeIsLeft, InTime
<1>5. f[Cuts(l) - 1] \in Nat /\ f[Cuts(l) - 1] >= 1
  <2>1. Cuts(l) - 1 \in Nat /\ 0 \in Nat  BY <1>3
  <2> QED  BY <2>1, LastsGrows
<1>6. left[r] \in Nat /\ cutoff[r] \in Nat  BY AgentConstants DEF AgentInv, TimeInv
<1> QED  BY <1>1, <1>2, <1>3, <1>4, <1>5, <1>6

LEMMA RepairedInTime ==
    ASSUME NEW f, Lasts(f), TimeIsLeft(f), AgentInv, NEW r \in AgentRuns,
           GenerateReturned(r, {"ok"}), ~loop[r].closing, Repaired(r, loop[r]), GoOn(r)
    PROVE  TimeIsLeft(f)'
<1> DEFINE l == loop[r]
           n == [l EXCEPT !.repairs = @ + 1, !.pc = "plan"]
           c == [n EXCEPT !.pc = "close", !.closing = TRUE,
                          !.reason = "protocol_repair_exhausted"]
<1>1. l \in Loops  BY ReturnedRun
<1>2. UNCHANGED <<left, cutoff, overran>>  BY DEF GoOn
<1>3. n.pc = "plan" /\ n.repairs = l.repairs + 1 /\ n.toolCalls = l.toolCalls  BY <1>1 DEF Loops
<1>4. c.pc = "close"  BY <1>1 DEF Loops
<1>5. Change(r, n) \/ Change(r, c)  BY DEF Repaired, Close
<1> HIDE DEF n, c
<1>6. ASSUME ~overran[r]
      PROVE  InTime(f, n, left[r], cutoff[r]) /\ InTime(f, c, left[r], cutoff[r])
  <2>1. /\ Cuts(l) \in Nat /\ left[r] > 0 /\ left[r] >= f[Cuts(l) - 1]
    BY <1>6, LeftAfterGenerate
  <2>2. Cuts(n) = Cuts(l) - 1
    <3>1. l.toolCalls \in 0 .. MaxSteps /\ l.repairs \in 0 .. RepairLimit  BY <1>1 DEF Loops
    <3> QED  BY <1>3, <3>1, AgentConstants DEF Cuts
  <2> QED  BY <1>3, <1>4, <2>1, <2>2 DEF InTime
<1> QED  BY <1>2, <1>5, <1>6, LoopOf

LEMMA CallToolInTime ==
    ASSUME NEW f, Lasts(f), TimeIsLeft(f), AgentInv, NEW r \in AgentRuns, CallTool(r)
    PROVE  TimeIsLeft(f)'
<1> DEFINE l == loop[r]
<1>1. PICK call \in Calls :
         Change(r, [l EXCEPT
                      !.pc = "tool", !.toolCalls = @ + 1, !.last = call,
                      !.searches = IF call \in Searches THEN @ + 1 ELSE @,
                      !.ran = Append(@, call)])
  BY DEF CallTool
<1> DEFINE m == [l EXCEPT
                   !.pc = "tool", !.toolCalls = @ + 1, !.last = call,
                   !.searches = IF call \in Searches THEN @ + 1 ELSE @,
                   !.ran = Append(@, call)]
<1>2. Change(r, m)  BY <1>1
<1>3. GenerateReturned(r, {"ok"}) /\ ~l.closing /\ UNCHANGED <<left, cutoff, overran>>
  BY DEF CallTool, GoOn
<1>4. l \in Loops  BY <1>3, ReturnedRun
<1>5. m.pc = "tool" /\ m.toolCalls = l.toolCalls + 1 /\ m.repairs = l.repairs  BY <1>4 DEF Loops
<1> HIDE DEF m
<1>6. ASSUME ~overran[r]  PROVE InTime(f, m, left[r], cutoff[r])
  <2>1. /\ Cuts(l) \in Nat /\ left[r] >= f[Cuts(l) - 1]  BY <1>3, <1>6, LeftAfterGenerate
  <2>2. Cuts(m) + 1 = Cuts(l) - 1
    <3>1. l.toolCalls \in 0 .. MaxSteps /\ l.repairs \in 0 .. RepairLimit  BY <1>4 DEF Loops
    <3> QED  BY <1>5, <3>1, AgentConstants DEF Cuts
  <2> QED  BY <1>5, <2>1, <2>2 DEF InTime
<1> QED  BY <1>2, <1>3, <1>6, LoopOf

LEMMA RunToolInTime ==
    ASSUME NEW f, Lasts(f), TimeIsLeft(f), AgentInv, NEW r \in AgentRuns, RunTool(r)
    PROVE  TimeIsLeft(f)'
<1> DEFINE l == loop[r]
           t == left[r]
           c == cutoff[r]
           m == [Observe(l, "output") EXCEPT !.pc = "plan"]
<1>1. l.pc = "tool" /\ l \in Loops /\ Fits(l, gen[r])
  <2>1. l.pc = "tool"  BY DEF RunTool, At
  <2> QED  BY <2>1, ReadyRun DEF Fits
<1>2. CASE End(r)  BY <1>2, EndInTime
<1>3. CASE ~End(r)
  <2>1. /\ \/ /\ \E time \in {0, ToolBudget(t)} : left' = [left EXCEPT ![r] = t - time]
              /\ UNCHANGED overran
           \/ /\ left' = [left EXCEPT ![r] = 0]
              /\ overran' = [overran EXCEPT ![r] = TRUE]
        /\ Change(r, m) /\ UNCHANGED cutoff
    BY <1>3 DEF RunTool, Observe
  <2>2. m.pc = "plan" /\ Cuts(m) = Cuts(l)  BY <1>1 DEF Observe, Loops, Cuts
  <2> HIDE DEF m
  <2>3. loop' = [loop EXCEPT ![r] = m] /\ cutoff' = [cutoff EXCEPT ![r] = c]
    BY <2>1 DEF Change, AgentInv, TimeInv
  <2>4. CASE overran' = [overran EXCEPT ![r] = TRUE] /\ left' = [left EXCEPT ![r] = 0]
    <3>1. TRUE \in BOOLEAN  OBVIOUS
    <3> QED  BY <2>3, <2>4, <3>1, ClockOf
  <2>5. CASE /\ \E time \in {0, ToolBudget(t)} : left' = [left EXCEPT ![r] = t - time]
             /\ UNCHANGED overran
    <3> DEFINE o == overran[r]
               n == Cuts(l)
               reserve == AdaptiveReserve(t)
    <3>1. PICK time \in {0, ToolBudget(t)} : left' = [left EXCEPT ![r] = t - time]
      BY <2>5
    <3>2. overran' = [overran EXCEPT ![r] = o] /\ o \in BOOLEAN  BY <2>5 DEF TimeIsLeft
    <3>3. ASSUME ~o  PROVE InTime(f, m, t - time, c)
      <4>1. t \in Nat /\ ToolTimeout \in Nat  BY AgentConstants DEF AgentInv, TimeInv
      <4>2. t >= f[n + 1]  BY <1>1, <3>3 DEF TimeIsLeft, InTime
      <4>3. n \in Nat /\ n <= AllCuts  BY <1>1, CutsAre
      <4> HIDE DEF t, n
      <4>4. reserve \in Nat /\ f[n] <= reserve /\ reserve <= t
        BY <4>1, <4>2, <4>3, ReserveLasts
      <4>5. ToolBudget(t) = IF ToolTimeout < t - reserve THEN ToolTimeout ELSE t - reserve
        BY DEF ToolBudget, Least
      <4> HIDE DEF reserve
      <4>6. f[n] \in Nat  BY <4>3 DEF Lasts
      <4>7. t - time >= f[n]
        <5>1. CASE time = 0  BY <4>1, <4>4, <4>6, <5>1
        <5>2. CASE time = ToolBudget(t)  BY <4>1, <4>4, <4>5, <4>6, <5>2
        <5> QED  BY <3>1, <5>1, <5>2
      <4> QED  BY <2>2, <4>7 DEF InTime, n
    <3> HIDE DEF o
    <3> QED  BY <2>3, <3>1, <3>2, <3>3, ClockOf
  <2> QED  BY <2>1, <2>4, <2>5
<1> QED  BY <1>2, <1>3

LEMMA ProviderInTime ==
    ASSUME NEW f, TimeIsLeft(f), AgentInv, NEW r \in AgentRuns, ProviderStep(r),
           UNCHANGED <<loop, overran>>
    PROVE  TimeIsLeft(f)'
<1> DEFINE t == left[r]
           c == cutoff[r]
           l == loop[r]
           o == overran[r]
<1>1. UNCHANGED cutoff
  BY DEF ProviderStep, NextProfile, Answer, Fail, TimeOut, CallFails, Pause, Activate,
         Activated, SaveStep
<1>2. CASE UNCHANGED left  BY <1>1, <1>2 DEF TimeIsLeft
<1>3. CASE ~UNCHANGED left
  <2>1. Fail(r) \/ TimeOut(r) \/ Pause(r)
    BY <1>3 DEF ProviderStep, NextProfile, Answer, Activate, Activated, SaveStep
  <2>2. gen[r].pc \in {"call", "pause"}  BY <2>1 DEF Fail, TimeOut, CallFails, Pause
  <2>3. l.pc = "asked" /\ gen[r] \in Generates  BY <2>2, AskedGenerate
  <2>4. t \in Nat /\ c \in Nat /\ gen[r].timeout \in Int /\ TransientDelay \in Nat
    BY <2>3, AgentConstants, FailoverConstants DEF AgentInv, TimeInv, Generates
  <2>5. \E u \in Int : left' = [left EXCEPT ![r] = u] /\ (t >= c => u >= c)
    <3>1. CASE Fail(r)
      <4>1. left' = [left EXCEPT ![r] = t - 0]  BY <3>1 DEF Fail, CallFails
      <4> HIDE DEF t, c
      <4>2. t - 0 \in Int /\ (t >= c => t - 0 >= c)  BY <2>4
      <4> QED  BY <4>1, <4>2
    <3>2. CASE TimeOut(r)
      <4> DEFINE limit == gen[r].timeout
                 time == IF cancelled[r] THEN 0
                         ELSE IF limit > 0 /\ limit < t - c THEN limit ELSE t - c
      <4>1. left' = [left EXCEPT ![r] = t - time]  BY <3>2 DEF TimeOut, CallFails
      <4> HIDE DEF t, c, limit
      <4>2. limit \in Int  BY <2>4 DEF limit
      <4>3. time \in {0, t - c} \/ (time = limit /\ limit < t - c)  OBVIOUS
      <4> HIDE DEF time
      <4>4. t - time \in Int /\ (t >= c => t - time >= c)
        <5>1. CASE time \in {0, t - c}  BY <2>4, <5>1
        <5>2. CASE time = limit /\ limit < t - c  BY <2>4, <4>2, <5>2
        <5> QED  BY <4>3, <5>1, <5>2
      <4> QED  BY <4>1, <4>4
    <3>3. CASE Pause(r)
      <4> DEFINE short == t - TransientDelay <= c
                 u == IF short THEN c ELSE t - TransientDelay
      <4>1. left' = [left EXCEPT ![r] = u]  BY <1>3, <3>3 DEF Pause
      <4> HIDE DEF t, c
      <4>2. u \in Int /\ u >= c
        <5>1. CASE short  BY <2>4, <5>1
        <5>2. CASE ~short  BY <2>4, <5>2
        <5> QED  BY <5>1, <5>2
      <4> HIDE DEF u
      <4> QED  BY <4>1, <4>2
    <3> QED  BY <2>1, <3>1, <3>2, <3>3
  <2>6. PICK u \in Int : left' = [left EXCEPT ![r] = u] /\ (t >= c => u >= c)  BY <2>5
  <2>7. o \/ InTime(f, l, t, c)  BY DEF TimeIsLeft
  <2>8. o \/ InTime(f, l, u, c)
    <3> HIDE DEF t, c, l, o
    <3> QED  BY <2>3, <2>4, <2>6, <2>7 DEF InTime
  <2>9. /\ loop' = [loop EXCEPT ![r] = l] /\ cutoff' = [cutoff EXCEPT ![r] = c]
        /\ overran' = [overran EXCEPT ![r] = o] /\ o \in BOOLEAN
    BY <1>1 DEF TimeIsLeft, AgentInv, TimeInv, RunInv
  <2> HIDE DEF t, c, l, o
  <2> QED  BY <2>6, <2>8, <2>9, ClockOf
<1> QED  BY <1>2, <1>3

LEMMA TimeInit == \A f : AgentInit => TimeIsLeft(f)
BY DEF AgentInit, TimeIsLeft, InTime, Resting

LEMMA TimeStep ==
    ASSUME NEW f, Lasts(f), TimeIsLeft(f), AgentInv, [AgentNext]_agentVars
    PROVE  TimeIsLeft(f)'
<1>1. CASE UNCHANGED agentVars
  BY <1>1 DEF agentVars, failoverVars, TimeIsLeft
<1>2. ASSUME NEW r \in AgentRuns, RunStep(r)  PROVE TimeIsLeft(f)'
  <2>1. CASE StartRun(r)  BY <2>1, StartInTime
  <2>2. CASE Plan(r)  BY <2>2, PlanInTime
  <2>3. CASE AskLast(r)  BY <2>3, AskLastInTime
  <2>4. CASE NoReply(r)  BY <2>4, NoReplyInTime
  <2>5. CASE FinalReply(r)  BY <2>5, EndInTime DEF FinalReply
  <2>6. CASE BadAction(r)  BY <2>6, RepairedInTime DEF BadAction
  <2>7. CASE SkipCall(r)  BY <2>7, RepairedInTime DEF SkipCall
  <2>8. CASE CallTool(r)  BY <2>8, CallToolInTime
  <2>9. CASE RunTool(r)  BY <2>9, RunToolInTime
  <2>10. CASE ProviderStep(r) /\ UNCHANGED <<loop, overran>>  BY <2>10, ProviderInTime
  <2> QED
    BY <1>2, <2>1, <2>2, <2>3, <2>4, <2>5, <2>6, <2>7, <2>8, <2>9, <2>10 DEF RunStep
<1>3. ASSUME NEW r \in AgentRuns, Cancel(r)  PROVE TimeIsLeft(f)'
  BY <1>3 DEF Cancel, TimeIsLeft
<1>4. ASSUME NEW c \in Requests, ConsoleStep(c), UNCHANGED <<loop, overran>>
      PROVE  TimeIsLeft(f)'
  BY <1>4 DEF ConsoleStep, TimeIsLeft
<1> QED  BY <1>1, <1>2, <1>3, <1>4 DEF AgentNext

\* A run asks its model for the last time with the result of every tool before it,
\* and with time left, if the budgets are not too many for the time: the reserve and
\* the deadline can be cut to a third once for each repair and twice for each tool
\* call.  Counted in nanoseconds they can: 3^19 of them are 1.2 s, and the reserve of
\* the default settings (8 tool calls, 3 repairs) is 20 s.
THEOREM RunsAreSafe ==
    ASSUME NEW f, Lasts(f)
    PROVE  AgentSpec => []RunSafe
<1>1. AgentInit => TimeIsLeft(f)  BY TimeInit
<1>2. TimeIsLeft(f) /\ AgentInv /\ [AgentNext]_agentVars => TimeIsLeft(f)'  BY TimeStep
<1>3. TimeIsLeft(f) => TimeForTheAnswer
  BY DEF TimeIsLeft, TimeForTheAnswer, InTime, At
<1>4. AgentSpec => AgentInit /\ [][AgentNext]_agentVars  BY PTL DEF AgentSpec
<1> QED  BY <1>1, <1>2, <1>3, <1>4, AgentRunsInvariant, ResultsShown, PTL DEF RunSafe

=============================================================================
