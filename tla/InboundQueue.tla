---------------------------- MODULE InboundQueue ----------------------------
(***************************************************************************)
(* The durable inbox: the SQLite table inbound_events                      *)
(* (model/storage/inbound_queue.go), the coordinator and workers of a      *)
(* runtime generation (model/qqbot/inbound_queue.go), and the part of the  *)
(* runtime that starts, stops and crashes them (model/qqbot/runtime.go).   *)
(*                                                                         *)
(* A worker is a pair <<r, w>>: worker w of run r.  All workers of a run   *)
(* share one lease owner, which is the run.  Workers of a stopped run may  *)
(* still be at work when the next run has started: Stop waits five seconds *)
(* and then gives up.                                                      *)
(*                                                                         *)
(* Time is kept as what remains of a lease or a delay; Tick lets one unit  *)
(* pass.  EventTime orders messages; age is how long ago one was sent,     *)
(* up to one unit past ReplayWindow, where it no longer matters.           *)
(***************************************************************************)
EXTENDS Integers, FiniteSets

CONSTANTS
    Messages,        \* inbound messages, by their stable event id
    NoMessage,       \* what an idle worker holds
    SessionOf,       \* the conversation of a message
    Limit,           \* concurrent leases of a conversation: 3 group, 1 private
    EventTime,       \* rank of the time a message was sent
    Priorities,      \* InboundPriorityNormal .. InboundPriorityTriggered
    Urgent,          \* shouldHandle: mentions, commands, replies with keyword
    Chatter,         \* passive group messages, batched while the bot runs
    Wanted,          \* what the passive router would answer
    Gated,           \* group messages, whose replies pass OutboundGate
    Workers,         \* MaxBotConcurrency workers per run
    MaxRuns,         \* bound: runs of the runtime (starts after stop or crash)
    LeaseDuration, ReplayWindow, MaxDelay,    \* in ticks
    RetryDelay,      \* inboundRetryDelay in ticks, per number of attempts
    MaxAttempts,     \* bound: attempts are counted up to here
    MaxDbFaults,     \* bound: writes to the database that fail
    Faults           \* environment: subset of {"crash", "ack_lost", "send", "llm"}

Runs == 1 .. MaxRuns
Slots == Runs \X Workers
Sessions == {SessionOf[m] : m \in Messages}
Outcomes == {"replied", "error_replied", "ignored", "ignored_stale",
             "queued_passive", "declined"}
Answered == {"replied", "error_replied"}

ASSUME QueueConstants ==
    /\ NoMessage \notin Messages
    /\ IsFiniteSet(Messages)
    /\ EventTime \in [Messages -> Int]
    /\ Priorities \subseteq Nat /\ 0 \in Priorities
    /\ Limit \in [Sessions -> Nat \ {0}]
    /\ MaxRuns \in Nat \ {0}
    /\ LeaseDuration \in Nat \ {0}
    /\ ReplayWindow \in Nat
    /\ MaxDelay \in Nat
    /\ RetryDelay \in [0 .. MaxAttempts -> 0 .. MaxDelay]
    /\ MaxAttempts \in Nat \ {0}
    /\ MaxDbFaults \in Nat

VARIABLES
    row,         \* the table inbound_events, one row per message
    age,         \* ticks since a message was sent (event_time)
    worker,      \* the workers' goroutines
    coord,       \* the coordinator of each run
    run,         \* runGeneration
    running,     \* Runtime.running
    inboundInit, \* Runtime.inboundInit: this process has started once
    ready,       \* Runtime.inboundReady
    connected,   \* ChannelStatus.Connected
    accepted,    \* replies QQ accepted for a message: 0, 1, 2 (or more)
    dbFaults     \* failed writes so far

table == <<row, age, dbFaults>>
life == <<coord, run, running, inboundInit>>
link == <<ready, connected>>
vars == <<row, age, worker, coord, run, running, inboundInit, ready,
          connected, accepted, dbFaults>>

NoRow == [status |-> "absent", owner |-> 0, lease |-> 0, avail |-> 0,
          attempts |-> 0, prio |-> 0, outcome |-> "none"]
Off == [pc |-> "off", msg |-> NoMessage, attempts |-> 0, verdict |-> "none"]
Idle == [Off EXCEPT !.pc = "idle"]

Rows == [status : {"absent", "pending", "processing", "done"},
         owner : 0 .. MaxRuns, lease : 0 .. LeaseDuration,
         avail : 0 .. MaxDelay, attempts : 0 .. MaxAttempts,
         prio : Priorities, outcome : Outcomes \cup {"none"}]
AtWork == [pc : {"prepare", "reply", "send", "await", "commit"},
           msg : Messages, attempts : 0 .. MaxAttempts,
           verdict : Outcomes \cup {"none", "retry"}]
Goroutines == {Off, Idle} \cup AtWork

AtMost(n, cap) == IF n > cap THEN cap ELSE n
Elapse(n) == IF n = 0 THEN 0 ELSE n - 1

\* What the statements of the store do to one row: refresh, claim, complete,
\* and return to the queue for later (retry) or for now (release).
Refreshed(q, p) == [q EXCEPT !.prio = p]
Owned(q, r) == [q EXCEPT !.owner = r, !.lease = LeaseDuration]
Claimed(q, r) == [Owned(q, r) EXCEPT !.status = "processing",
                                     !.attempts = AtMost(@ + 1, MaxAttempts)]
Freed(q) == [q EXCEPT !.owner = 0, !.lease = 0]
Settled(q, outcome) == [Freed(q) EXCEPT !.status = "done", !.outcome = outcome]
Requeued(q, delay) == [Freed(q) EXCEPT !.status = "pending", !.avail = delay]
Aged(q) == [q EXCEPT !.lease = Elapse(@), !.avail = Elapse(@)]
NewRow(p) == [NoRow EXCEPT !.status = "pending", !.prio = p]

\* The run's context was cancelled by Stop (or its process is gone).
Cancelled(r) == coord[r] # "running"

-----------------------------------------------------------------------------
(* The table. *)

\* EnqueueInboundEvent: history row and queue row in one transaction.  A
\* message already in history only refreshes a row that is still pending.
Enqueue(m, p, a) ==
    IF row[m].status = "absent"
    THEN /\ row' = [row EXCEPT ![m] = NewRow(p)]
         /\ age' = [age EXCEPT ![m] = a]
    ELSE /\ row' = IF row[m].status = "pending" /\ row[m].prio < p
                   THEN [row EXCEPT ![m] = Refreshed(@, p)] ELSE row
         /\ UNCHANGED age

Leased(m) == row[m].status = "processing" /\ row[m].lease > 0
Busy(s) == {m \in Messages : SessionOf[m] = s /\ Leased(m)}

\* Variants with a defect: no limit per conversation; no recovery of leases
\* that expired.
ClaimableUnlimited(m) ==
    \/ row[m].status = "pending" /\ row[m].avail = 0
    \/ row[m].status = "processing" /\ row[m].lease = 0

ClaimablePendingOnly(m) ==
    /\ row[m].status = "pending" /\ row[m].avail = 0
    /\ Cardinality(Busy(SessionOf[m])) < Limit[SessionOf[m]]

Claimable(m) ==
    /\ \/ row[m].status = "pending" /\ row[m].avail = 0
       \/ row[m].status = "processing" /\ row[m].lease = 0
    /\ Cardinality(Busy(SessionOf[m])) < Limit[SessionOf[m]]

\* priority DESC, event_time ASC; further ties are left open
Before(m, n) ==
    \/ row[m].prio > row[n].prio
    \/ row[m].prio = row[n].prio /\ EventTime[m] < EventTime[n]

Candidate(m) ==
    Claimable(m) /\ \A n \in Messages : Claimable(n) => ~Before(n, m)

Take(m, r) == row' = [row EXCEPT ![m] = Claimed(@, r)]

\* Variant with a defect: the update names the row by its id alone.
HeldByAnyone(m, r) == row[m].status # "pending"

\* lease_owner matches: the guard of CompleteInboundEvent and RetryInboundEvent
Held(m, r) == row[m].status = "processing" /\ row[m].owner = r

CompleteInboundEvent(m, r, outcome) ==
    row' = IF Held(m, r) THEN [row EXCEPT ![m] = Settled(@, outcome)] ELSE row

RetryInboundEvent(m, r, delay) ==
    row' = IF Held(m, r) THEN [row EXCEPT ![m] = Requeued(@, delay)] ELSE row

ReleaseInboundLeases(owners) ==
    row' = [m \in Messages |->
              IF row[m].status = "processing" /\ row[m].owner \in owners
              THEN Requeued(row[m], 0) ELSE row[m]]

\* a write that the database refuses or that times out after five seconds
DbFault == dbFaults < MaxDbFaults /\ dbFaults' = dbFaults + 1

-----------------------------------------------------------------------------
(* The runtime's life. *)

Init ==
    /\ row = [m \in Messages |-> NoRow]
    /\ age = [m \in Messages |-> 0]
    /\ worker = [w \in Slots |-> Off]
    /\ coord = [r \in Runs |-> "none"]
    /\ run = 0
    /\ running = FALSE /\ inboundInit = FALSE
    /\ ready = FALSE /\ connected = FALSE
    /\ accepted = [m \in Messages |-> 0]
    /\ dbFaults = 0

\* Start, and the coordinator up to its loop: the first start of a process
\* returns every lease to the queue, before any worker exists.
Start ==
    /\ ~running /\ run < MaxRuns
    /\ run' = run + 1
    /\ running' = TRUE /\ inboundInit' = TRUE /\ ready' = FALSE
    /\ coord' = [coord EXCEPT ![run + 1] = "running"]
    /\ worker' = [w \in Slots |-> IF w[1] = run + 1 THEN Idle ELSE worker[w]]
    /\ IF inboundInit
       THEN UNCHANGED <<row, dbFaults>>
       ELSE \/ ReleaseInboundLeases(Runs) /\ UNCHANGED dbFaults
            \/ DbFault /\ UNCHANGED row
    /\ UNCHANGED <<age, connected, accepted>>

\* Stop cancels the run's context and closes the channel.  Start may follow
\* at once: Stop does not wait longer than five seconds for the workers.
Stop ==
    /\ running /\ run < MaxRuns
    /\ running' = FALSE /\ ready' = FALSE /\ connected' = FALSE
    /\ coord' = [coord EXCEPT ![run] = "draining"]
    /\ UNCHANGED <<row, age, worker, run, inboundInit, accepted, dbFaults>>

\* The process dies: everything but the table is gone.
Crash ==
    /\ "crash" \in Faults /\ inboundInit /\ run < MaxRuns
    /\ running' = FALSE /\ inboundInit' = FALSE
    /\ ready' = FALSE /\ connected' = FALSE
    /\ coord' = [r \in Runs |-> IF coord[r] = "none" THEN "none" ELSE "ended"]
    /\ worker' = [w \in Slots |-> Off]
    /\ UNCHANGED <<row, age, run, accepted, dbFaults>>

\* Variant with a defect: a link that comes back is not noticed.
PollMissesReconnect ==
    /\ running /\ ready /\ ~connected
    /\ ready' = FALSE
    /\ UNCHANGED <<row, age, worker, life, connected, accepted, dbFaults>>

\* The coordinator's poll: workers may claim while the channel is connected.
Poll ==
    /\ running /\ ready # connected
    /\ ready' = connected
    /\ UNCHANGED <<row, age, worker, life, connected, accepted, dbFaults>>

\* The coordinator's last step: when the workers of its run have returned it
\* gives back what the run still holds.
Drain(r) ==
    /\ coord[r] = "draining"
    /\ \A w \in Workers : worker[<<r, w>>].pc = "off"
    /\ coord' = [coord EXCEPT ![r] = "ended"]
    /\ \/ ReleaseInboundLeases({r}) /\ UNCHANGED dbFaults
       \/ DbFault /\ UNCHANGED row
    /\ UNCHANGED <<age, worker, run, running, inboundInit, link, accepted>>

Connect ==
    /\ running /\ ~connected
    /\ connected' = TRUE
    /\ UNCHANGED <<table, worker, life, ready, accepted>>

Disconnect ==
    /\ connected
    /\ connected' = FALSE
    /\ UNCHANGED <<table, worker, life, ready, accepted>>

\* HandleEvent, live or from the history backfill: the message may be old,
\* and may have been delivered before.
HandleEvent(m, p, a) ==
    /\ inboundInit
    /\ Enqueue(m, p, a)
    /\ UNCHANGED <<worker, life, link, accepted, dbFaults>>

\* A unit of time; a commit, given up after five seconds, takes less.
Tick ==
    /\ \A w \in Slots : worker[w].pc # "commit"
    /\ row' = [m \in Messages |-> Aged(row[m])]
    /\ age' = [m \in Messages |-> IF row[m].status = "absent" THEN age[m]
                                  ELSE AtMost(age[m] + 1, ReplayWindow + 1)]
    /\ UNCHANGED <<worker, life, link, accepted, dbFaults>>

-----------------------------------------------------------------------------
(* A worker: claim, prepare, reply, send, commit. *)

Move(w, pc, verdict) ==
    worker' = [worker EXCEPT ![w].pc = pc, ![w].verdict = verdict]

\* the item the claim statement returns
Holding(m) == [pc |-> "prepare", msg |-> m, verdict |-> "none",
               attempts |-> row'[m].attempts]

Claim(w) ==
    /\ worker[w].pc = "idle" /\ ~Cancelled(w[1])
    /\ ready /\ connected
    /\ \E m \in Messages :
          /\ Candidate(m)
          /\ Take(m, w[1])
          /\ \/ /\ worker' = [worker EXCEPT ![w] = Holding(m)]
                /\ UNCHANGED dbFaults
             \* the lease is taken but the answer of the database is lost
             \/ DbFault /\ UNCHANGED worker
    /\ UNCHANGED <<age, life, link, accepted>>

\* The worker loop returns when its context is cancelled.
Quit(w) ==
    /\ worker[w].pc = "idle" /\ Cancelled(w[1])
    /\ worker' = [worker EXCEPT ![w] = Off]
    /\ UNCHANGED <<table, life, link, accepted>>

\* A message the semantic router decides about during preparation; the
\* others are answered at once or wait in their group's batch.
RoutedHere(m) == m \notin Urgent /\ ~(m \in Chatter /\ running)

\* The router's verdict is lost, which counts as "do not answer", when the
\* run is cancelled or the model call fails.
RouterSilent(r) == Cancelled(r) \/ "llm" \in Faults

\* processInboundQueueItem up to replyAndRecord
Prepare(w) ==
    LET m == worker[w].msg IN
    /\ worker[w].pc = "prepare"
    /\ IF age[m] > ReplayWindow
       THEN Move(w, "commit", "ignored_stale")
       ELSE \/ Move(w, "commit", "declined")
            \/ m \in Chatter \ Urgent /\ running
               /\ Move(w, "commit", "queued_passive")
            \/ RoutedHere(m) /\ (m \notin Wanted \/ RouterSilent(w[1]))
               /\ Move(w, "commit", "ignored")
            \/ (m \in Urgent \/ (RoutedHere(m) /\ m \in Wanted))
               /\ Move(w, "reply", "none")
            \* waiting for a reply slot when the run is cancelled
            \/ Cancelled(w[1]) /\ Move(w, "commit", "retry")
    /\ UNCHANGED <<table, life, link, accepted>>

\* replyTo up to the send
Reply(w) ==
    /\ worker[w].pc = "reply"
    /\ \/ Move(w, "send", "replied")
       \/ "llm" \in Faults /\ Move(w, "send", "error_replied")
       \/ Cancelled(w[1]) /\ Move(w, "commit", "retry")
    /\ UNCHANGED <<table, life, link, accepted>>

\* The request is written and QQ accepts the reply; the answer is awaited.
SendAccepted(w) ==
    /\ worker[w].pc = "send" /\ connected
    /\ accepted' = [accepted EXCEPT ![worker[w].msg] = IF @ = 0 THEN 1 ELSE 2]
    /\ Move(w, "await", worker[w].verdict)
    /\ UNCHANGED <<table, life, link>>

\* CallAPI returns QQ's answer, or an error because the run was cancelled or
\* the answer did not come in time.  The gate of a group repeats the call, or
\* drops the reply when the run was cancelled.
SendReturns(w) ==
    LET m == worker[w].msg IN
    /\ worker[w].pc = "await"
    /\ \/ Move(w, "commit", worker[w].verdict)
       \/ /\ Cancelled(w[1]) \/ "ack_lost" \in Faults
          /\ \/ Move(w, "commit", "retry")
             \/ m \in Gated /\ accepted[m] < 2 /\ Move(w, "send", worker[w].verdict)
             \/ m \in Gated /\ Cancelled(w[1]) /\ Move(w, "commit", "declined")
    /\ UNCHANGED <<table, life, link, accepted>>

\* Variant with a defect: the error of the send is swallowed.
SendFailedUnseen(w) ==
    /\ worker[w].pc = "send"
    /\ ~connected \/ Cancelled(w[1]) \/ "send" \in Faults
    /\ Move(w, "commit", worker[w].verdict)
    /\ UNCHANGED <<table, life, link, accepted>>

\* The send fails: try the message again later, or give it up (suppressed,
\* group gone, or dropped by the gate of a group).
SendFailed(w) ==
    /\ worker[w].pc = "send"
    /\ ~connected \/ Cancelled(w[1]) \/ "send" \in Faults
    /\ \/ Move(w, "commit", "retry")
       \/ /\ worker[w].msg \in Gated \/ "send" \in Faults
          /\ Move(w, "commit", "declined")
       \* the reply's own deadline passed: an error reply is tried
       \/ worker[w].verdict = "replied" /\ "send" \in Faults
          /\ Move(w, "send", "error_replied")
    /\ UNCHANGED <<table, life, link, accepted>>

\* CompleteInboundEvent or RetryInboundEvent; a failure is only logged, and
\* the row stays as it is until its lease expires.
Commit(w) ==
    LET m == worker[w].msg
        r == w[1]
        v == worker[w].verdict
    IN
    /\ worker[w].pc = "commit"
    /\ worker' = [worker EXCEPT ![w] = IF Cancelled(r) THEN Off ELSE Idle]
    /\ \/ /\ IF v = "retry"
             THEN RetryInboundEvent(m, r,
                    IF Cancelled(r) THEN 0 ELSE RetryDelay[worker[w].attempts])
             ELSE CompleteInboundEvent(m, r, v)
          /\ UNCHANGED dbFaults
       \/ DbFault /\ UNCHANGED row
    /\ UNCHANGED <<age, life, link, accepted>>

WorkerStep(w) ==
    Quit(w) \/ Prepare(w) \/ Reply(w) \/ SendAccepted(w) \/ SendReturns(w)
    \/ SendFailed(w) \/ Commit(w)

Next ==
    \/ Start \/ Stop \/ Crash \/ Poll \/ Connect \/ Disconnect \/ Tick
    \/ \E r \in Runs : Drain(r)
    \/ \E m \in Messages, p \in Priorities, a \in {0, ReplayWindow + 1} :
          HandleEvent(m, p, a)
    \/ \E w \in Slots : Claim(w) \/ WorkerStep(w)

Spec == Init /\ [][Next]_vars

\* Every call a worker makes has a timeout, the coordinator polls, time
\* passes, and the bot is started again and reconnects after a stop or a
\* crash.  The connection may flap for ever: claims need strong fairness.
Fairness ==
    /\ WF_vars(Start) /\ WF_vars(Connect) /\ WF_vars(Tick)
    /\ SF_vars(Poll /\ connected)
    /\ SF_vars(\E w \in Slots : Claim(w))
    /\ \A r \in Runs : WF_vars(Drain(r))
    /\ \A w \in Slots : WF_vars(WorkerStep(w))

FairSpec == Spec /\ Fairness

-----------------------------------------------------------------------------
(* Properties. *)

\* Type invariant: the columns of the table, the state of the goroutines and
\* the runtime's counters, and its flags.
ShapesOK ==
    /\ row \in [Messages -> Rows]
    /\ age \in [Messages -> 0 .. ReplayWindow + 1]
    /\ worker \in [Slots -> Goroutines]
    /\ coord \in [Runs -> {"none", "running", "draining", "ended"}]
    /\ run \in 0 .. MaxRuns
    /\ accepted \in [Messages -> 0 .. 2]
    /\ dbFaults \in 0 .. MaxDbFaults

FlagsOK == {running, inboundInit, ready, connected} \subseteq BOOLEAN

TypeOK == ShapesOK /\ FlagsOK

\* A lease column is set exactly while the row is processing, by a run that
\* has been started, an outcome exactly when the row is done, and only a
\* pending row waits for a retry; the statements that move a row (claim,
\* complete, retry, release) must agree on that.
Coherent(q) ==
    /\ q.status = "processing" <=> q.owner # 0
    /\ q.lease > 0 => q.status = "processing"
    /\ q.status = "done" <=> q.outcome # "none"
    /\ q.avail > 0 => q.status = "pending"

RowsConsistent ==
    \A m \in Messages : Coherent(row[m]) /\ row[m].owner <= run

\* The claim statement bounds the unexpired leases of a conversation: three
\* for a group, one for a private chat, whatever the runs, crashes, expired
\* leases and duplicates in between (ClaimNextInboundEvent's subquery).
SessionLimit == \A s \in Sessions : Cardinality(Busy(s)) <= Limit[s]

\* A message is settled as answered only after QQ accepted a reply to it,
\* also when another worker of the run commits for the one that sent.
AnsweredWasSent ==
    \A m \in Messages : row[m].outcome \in Answered => accepted[m] > 0

\* What a worker relies on between its steps, which makes the two invariants
\* above inductive: it belongs to a run that was started, its message has a
\* row, only an answer is sent, and an answer is committed once accepted.
WorkerSound(w) ==
    LET g == worker[w] IN
    /\ g.pc # "off" => w[1] <= run
    /\ g.pc \notin {"off", "idle"} => row[g.msg].status # "absent"
    /\ g.pc \in {"send", "await"} => g.verdict \in Answered
    /\ g.pc = "commit" => g.verdict # "none"
    /\ g.pc = "await" \/ (g.pc = "commit" /\ g.verdict \in Answered)
         => accepted[g.msg] > 0

Inductive ==
    RowsConsistent /\ AnsweredWasSent /\ \A w \in Slots : WorkerSound(w)

\* Once a row is done it stays as it is: no late worker, retry, release,
\* duplicate delivery or restart reopens it.
DoneIsFinal ==
    [][\A m \in Messages : row[m].status = "done" => row'[m] = row[m]]_vars

\* An unexpired lease of run r ends only through a worker of r committing
\* that message, through r's own drain, or at the first start of a process,
\* when no worker is left: never through another run.
LeaseRespected ==
    [][\A m \in Messages : LET r == row[m].owner IN
         Leased(m) /\ row'[m].owner # r =>
            \/ \E w \in Workers : worker[<<r, w>>].msg = m
                                  /\ worker[<<r, w>>].pc = "commit"
            \/ coord[r] = "draining" /\ coord'[r] = "ended"
            \/ ~inboundInit]_vars

\* Every message that reached the inbox is settled in the end, whatever
\* fails in between: retries stop when it is older than the replay window.
EveryMessageSettles ==
    \A m \in Messages :
       row[m].status = "pending" ~> row[m].status = "done"

\* How a row looks from outside, where leases and retries do not show.
Standing(m) ==
    IF row[m].status # "done"
    THEN IF row[m].status = "absent" THEN "absent" ELSE "open"
    ELSE IF row[m].outcome \in Answered THEN "answered" ELSE "closed"

Promise == INSTANCE InboxPromise WITH inbox <- [m \in Messages |-> Standing(m)]

\* The queue keeps the promise of InboxPromise: a message is settled once,
\* as answered only when a reply was accepted (KeepsPromise), and always
\* settled in the end (Implements).
KeepsPromise == Promise!Safety

Implements == Promise!Spec

\* README: normal restarts do not lose messages.  A message the router would
\* answer is not settled as ignored (no model call fails in the run checked).
RestartLosesNothing ==
    \A m \in Wanted : row[m].outcome # "ignored"

\* README: only a crash between QQ's acceptance and the commit can duplicate
\* a reply.  Refuted: so can a stop.
DuplicateOnlyAfterCrash ==
    "crash" \notin Faults => \A m \in Messages : accepted[m] < 2

\* requireInboundLeaseUpdate refuses a commit whose "lease is not held by
\* this worker": while one worker's claim of a message is the last one, no
\* other worker's commit changes the row.  Refuted: they share the run's lease.
CommitOnlyByHolder ==
    [][\A w \in Slots : LET m == worker[w].msg IN
         worker[w].pc = "commit" /\ worker'[w].pc # "commit"
         /\ row'[m] # row[m]
         => worker[w].attempts = row[m].attempts]_vars

\* The inbox does not claim an answer that QQ never took, and works on no more
\* messages of a conversation than it may, whatever runs overlap.
InboxSafe == TypeOK /\ AnsweredWasSent /\ SessionLimit
=============================================================================
