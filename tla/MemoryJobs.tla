----------------------------- MODULE MemoryJobs -----------------------------
(***************************************************************************)
(* The structured memory of the bot: a durable table of jobs                *)
(* (memory_jobs), the workers of each run of the runtime that claim them,   *)
(* ask a model what is worth remembering and write the answer to            *)
(* memory_items, and the ways in which a run starts, stops and fails.       *)
(*                                                                          *)
(* All jobs are about one key of one person: what they write meets in one   *)
(* chain of versions.  The wording of a memory is a member of Contents.     *)
(***************************************************************************)
EXTENDS Naturals, Sequences, FiniteSets

CONSTANTS
    Jobs,         \* ids of memory_jobs, one for each message
    Workers,      \* the workers of a run (memoryWorkerCount)
    Contents,     \* what a memory can say
    NoJob,
    MaxRuns,      \* bound: runs of the runtime
    MaxFailures,  \* bound: model calls and applications that fail
    MaxFaults     \* bound: writes of the job table that fail

ASSUME MemoryConstants ==
    /\ NoJob \notin Jobs
    /\ MaxRuns \in Nat /\ MaxFailures \in Nat /\ MaxFaults \in Nat

Runs == 1 .. MaxRuns
NoRun == 0

VARIABLES
    row,       \* memory_jobs: status, owner (the run) and whether it is due
    items,     \* memory_items and memory_sources, oldest first
    worker,    \* per run and worker: where it is, its job, how the job ended
    phase,     \* per run: what its coordinator does
    stopped,   \* the runs whose context is cancelled
    latest,    \* the last run: it owns r.cancel
    running,   \* r.running
    inited,    \* r.inboundInit: this process has started a run
    failures,  \* failures so far
    faults     \* faults so far

vars == <<row, items, worker, phase, stopped, latest, running, inited, failures,
          faults>>

AllWorkers == Runs \X Workers
Off == [at |-> "off", job |-> NoJob, ok |-> FALSE]
Idle == [at |-> "idle", job |-> NoJob, ok |-> FALSE]
Goroutines ==
    {Off, Idle} \cup [at : {"working", "ending"}, job : Jobs, ok : BOOLEAN]
Rows == [status : {"none", "pending", "processing", "done"},
         owner : Runs \cup {NoRun}, due : BOOLEAN]
Memories == [content : Contents, version : Nat \ {0}, supersedes : Nat,
             status : {"active", "superseded", "forgotten"},
             by : Jobs, sources : SUBSET Jobs]
NoRow == [status |-> "none", owner |-> NoRun, due |-> FALSE]
Pending(due) == [status |-> "pending", owner |-> NoRun, due |-> due]

----------------------------------------------------------------------------
(* The table of jobs *)

\* INSERT OR IGNORE: a job is known by its message and is made once.
EnqueueMemoryJob(j) ==
    row' = IF row[j].status = "none" THEN [row EXCEPT ![j] = Pending(TRUE)] ELSE row

\* Which of several due jobs comes first depends on available_at, which the
\* retries spread; the choice is left open.
Claimable(j) == row[j].status = "pending" /\ row[j].due

Held(j, r) == row[j].status = "processing" /\ row[j].owner = r

Write(j, r, new) == row' = IF Held(j, r) THEN [row EXCEPT ![j] = new] ELSE row

CompleteMemoryJob(j, r) == Write(j, r, [NoRow EXCEPT !.status = "done"])

RetryMemoryJob(j, r) == Write(j, r, Pending(FALSE))

\* The jobs of the given runs wait again, and are due at once.
ReleaseMemoryJobLeases(owners) ==
    row' = [j \in Jobs |->
              IF row[j].status = "processing" /\ row[j].owner \in owners
              THEN Pending(TRUE) ELSE row[j]]

\* A write that fails is logged and changes nothing.
WriteFault ==
    /\ faults < MaxFaults /\ faults' = faults + 1 /\ UNCHANGED row

----------------------------------------------------------------------------
(* The memories: ApplyMemoryCandidates, one transaction *)

Active == {i \in DOMAIN items : items[i].status = "active"}

\* Variant with a defect: only the version in force is looked at.
AppliedByActive(j) == \E i \in Active : j \in items[i].sources

\* findMemoryBySourceAndKey: memory_sources has a row of this message.
AppliedBy(j) == \E i \in DOMAIN items : j \in items[i].sources

\* No source is noted for a memory that is forgotten.
Forget(j) ==
    items' = IF AppliedBy(j) THEN items
             ELSE [i \in DOMAIN items |->
                     IF i \in Active THEN [items[i] EXCEPT !.status = "forgotten"]
                     ELSE items[i]]

Confirmed(j, i) == [items EXCEPT ![i].sources = @ \cup {j}]

\* Variant with a defect: the older version is not marked.
SupersededUnmarked(j, i, c) ==
    Append(items,
           [content |-> c, version |-> items[i].version + 1, supersedes |-> i,
            status |-> "active", by |-> j, sources |-> {j}])

Superseded(j, i, c) ==
    Append([items EXCEPT ![i].status = "superseded"],
           [content |-> c, version |-> items[i].version + 1, supersedes |-> i,
            status |-> "active", by |-> j, sources |-> {j}])

First(j, c) ==
    Append(items,
           [content |-> c, version |-> 1, supersedes |-> 0,
            status |-> "active", by |-> j, sources |-> {j}])

Upsert(j, c) ==
    \/ /\ AppliedBy(j) /\ UNCHANGED items
    \/ /\ ~ AppliedBy(j) /\ Active = {} /\ items' = First(j, c)
    \/ /\ ~ AppliedBy(j)
       /\ \E i \in Active :
             items' = IF items[i].content = c THEN Confirmed(j, i)
                      ELSE Superseded(j, i, c)

----------------------------------------------------------------------------
Init ==
    /\ row = [j \in Jobs |-> NoRow]
    /\ items = <<>>
    /\ worker = [p \in AllWorkers |-> Off]
    /\ phase = [r \in Runs |-> "none"] /\ stopped = {}
    /\ latest = 0 /\ running = FALSE /\ inited = FALSE
    /\ failures = 0 /\ faults = 0

(* The runtime *)

Employ(r) == worker' = [p \in AllWorkers |-> IF p[1] = r THEN Idle ELSE worker[p]]

\* The coordinator of the first run of a process recovers the leases of the
\* process before, and then its workers begin.  Recovery is given five seconds
\* and a stop waits as long: no run starts while another one recovers.
Start ==
    /\ ~ running /\ latest < MaxRuns
    /\ \A r \in Runs : phase[r] # "recovering"
    /\ latest' = latest + 1
    /\ running' = TRUE /\ inited' = TRUE
    /\ \/ /\ inited
          /\ phase' = [phase EXCEPT ![latest + 1] = "on"]
          /\ Employ(latest + 1)
       \/ /\ ~ inited
          /\ phase' = [phase EXCEPT ![latest + 1] = "recovering"]
          /\ UNCHANGED worker
    /\ UNCHANGED <<row, items, stopped, failures, faults>>

\* Variant with a defect: only the leases of this run are released.
RecoverOwn(r) ==
    /\ phase[r] = "recovering"
    /\ phase' = [phase EXCEPT ![r] = "on"]
    /\ Employ(r)
    /\ \/ ReleaseMemoryJobLeases({r}) /\ UNCHANGED faults
       \/ WriteFault
    /\ UNCHANGED <<items, stopped, latest, running, inited, failures>>

\* Whether its write succeeds or fails, the workers begin.
Recover(r) ==
    /\ phase[r] = "recovering"
    /\ phase' = [phase EXCEPT ![r] = "on"]
    /\ Employ(r)
    /\ \/ ReleaseMemoryJobLeases(Runs) /\ UNCHANGED faults
       \/ WriteFault
    /\ UNCHANGED <<items, stopped, latest, running, inited, failures>>

\* Stop cancels the context of the last run, once; it waits five seconds for
\* the coordinator, which may take longer.  The last run of all is not stopped.
Stop ==
    /\ latest \in 1 .. MaxRuns - 1 /\ phase[latest] \in {"recovering", "on"}
    /\ latest \notin stopped
    /\ stopped' = stopped \cup {latest}
    /\ running' = FALSE
    /\ UNCHANGED <<row, items, worker, phase, latest, inited, failures, faults>>

\* Connect returns with an error: the runtime may be started again, and then
\* the workers of this run keep their context for good.
ConnectFails ==
    /\ running /\ latest < MaxRuns
    /\ running' = FALSE
    /\ UNCHANGED <<row, items, worker, phase, stopped, latest, inited, failures, faults>>

\* When all workers of a stopped run have returned, its leases are released.
Close(r) ==
    /\ phase[r] = "on" /\ r \in stopped
    /\ \A w \in Workers : worker[<<r, w>>] = Off
    /\ phase' = [phase EXCEPT ![r] = "closed"]
    /\ \/ ReleaseMemoryJobLeases({r}) /\ UNCHANGED faults
       \/ WriteFault
    /\ UNCHANGED <<items, worker, stopped, latest, running, inited, failures>>

\* The process ends at any point; the tables stay.
Crash ==
    /\ inited /\ latest < MaxRuns
    /\ phase' = [r \in Runs |-> IF phase[r] = "none" THEN "none" ELSE "closed"]
    /\ worker' = [p \in AllWorkers |-> Off]
    /\ running' = FALSE /\ inited' = FALSE
    /\ UNCHANGED <<row, items, stopped, latest, failures, faults>>

----------------------------------------------------------------------------
(* Messages and time *)

\* enqueueEventMemory and enqueueContextSummary, also when a message is
\* prepared a second time
Enqueue(j) ==
    /\ inited /\ EnqueueMemoryJob(j)
    /\ UNCHANGED <<items, worker, phase, stopped, latest, running, inited,
                   failures, faults>>

\* The delay of a failed job is over.
Tick(j) ==
    /\ row[j].status = "pending" /\ ~ row[j].due
    /\ row' = [row EXCEPT ![j].due = TRUE]
    /\ UNCHANGED <<items, worker, phase, stopped, latest, running, inited,
                   failures, faults>>

----------------------------------------------------------------------------
(* A worker *)

Goes(p, at, job, ok) == worker' = [worker EXCEPT ![p] = [at |-> at, job |-> job, ok |-> ok]]

\* The status guards the update too, so that a job is claimed once.
Claim(p) ==
    /\ worker[p].at = "idle" /\ p[1] \notin stopped
    /\ \E j \in Jobs :
          /\ Claimable(j)
          /\ row' = [row EXCEPT ![j] = [status |-> "processing", owner |-> p[1], due |-> TRUE]]
          /\ Goes(p, "working", j, FALSE)
    /\ UNCHANGED <<items, phase, stopped, latest, running, inited, failures, faults>>

\* The model finds nothing worth keeping, or something new, or it is told to
\* forget; what it says is applied as a whole.
Remember(p) ==
    /\ worker[p].at = "working"
    /\ LET j == worker[p].job IN
       /\ \/ UNCHANGED items
          \/ \E c \in Contents : Upsert(j, c)
          \/ Forget(j)
       /\ Goes(p, "ending", j, TRUE)
    /\ UNCHANGED <<row, phase, stopped, latest, running, inited, failures, faults>>

\* The model or the store fails, or the run is cancelled meanwhile.
Fail(p) ==
    /\ worker[p].at = "working"
    /\ \/ p[1] \in stopped /\ UNCHANGED failures
       \/ p[1] \notin stopped /\ failures < MaxFailures /\ failures' = failures + 1
    /\ Goes(p, "ending", worker[p].job, FALSE)
    /\ UNCHANGED <<row, items, phase, stopped, latest, running, inited, faults>>

\* The outcome is written with a context of its own, also after a stop.  A
\* write that fails is logged; the job is left as it is.
End(p) ==
    /\ worker[p].at = "ending"
    /\ LET j == worker[p].job IN
       \/ /\ IF worker[p].ok THEN CompleteMemoryJob(j, p[1]) ELSE RetryMemoryJob(j, p[1])
          /\ UNCHANGED faults
       \/ WriteFault
    /\ worker' = [worker EXCEPT ![p] = Idle]
    /\ UNCHANGED <<items, phase, stopped, latest, running, inited, failures>>

Quit(p) ==
    /\ worker[p].at = "idle" /\ p[1] \in stopped
    /\ worker' = [worker EXCEPT ![p] = Off]
    /\ UNCHANGED <<row, items, phase, stopped, latest, running, inited, failures, faults>>

WorkerStep(p) == Claim(p) \/ Remember(p) \/ Fail(p) \/ End(p) \/ Quit(p)

Next ==
    \/ Start \/ Stop \/ ConnectFails \/ Crash
    \/ \E r \in Runs : Recover(r) \/ Close(r)
    \/ \E j \in Jobs : Enqueue(j) \/ Tick(j)
    \/ \E p \in AllWorkers : WorkerStep(p)

Spec == Init /\ [][Next]_vars

\* Goroutines go on and timers run out; a runtime that is down is started again.
Fairness ==
    /\ WF_vars(Start)
    /\ \A r \in Runs : WF_vars(Recover(r)) /\ WF_vars(Close(r))
    /\ \A j \in Jobs : WF_vars(Tick(j))
    /\ \A p \in AllWorkers : WF_vars(WorkerStep(p))

FairSpec == Spec /\ Fairness

----------------------------------------------------------------------------
(* Properties *)

\* The shape of the state, and that a row names an owner exactly while it is
\* being processed.
TypeOK ==
    /\ row \in [Jobs -> Rows]
    /\ \A j \in Jobs : row[j].owner # NoRun <=> row[j].status = "processing"
    /\ items \in Seq(Memories)
    /\ worker \in [AllWorkers -> Goroutines]
    /\ phase \in [Runs -> {"none", "recovering", "on", "closed"}]
    /\ stopped \subseteq Runs /\ latest \in 0 .. MaxRuns
    /\ running \in BOOLEAN /\ inited \in BOOLEAN
    /\ failures \in 0 .. MaxFailures /\ faults \in 0 .. MaxFaults

\* A worker at work holds its job's row for its run, and no other worker of any
\* run is at the same job: two runs overlap when a stop is not waited for or
\* when Connect has failed, and leases are released when a run begins and ends.
WorkersHoldTheirJobs ==
    \A p \in AllWorkers : worker[p].job # NoJob =>
       /\ Held(worker[p].job, p[1])
       /\ \A q \in AllWorkers \ {p} : worker[q].job # worker[p].job

\* A job that is done again writes no new memory: not another version after it
\* made one or confirmed one (structured_memory_test.go:87-88), and not after
\* that memory was superseded or forgotten, when it would bring it back.
RetryWritesNothingNew ==
    \A i, k \in DOMAIN items : i < k => items[k].by \notin items[i].sources

\* The versions are chains: at most the last memory is in force, each version
\* follows the one it supersedes, and what is superseded has a successor.
VersionsChain ==
    /\ Active \subseteq {Len(items)}
    /\ \A i \in DOMAIN items :
          /\ items[i].supersedes < i
          /\ items[i].supersedes = 0 => items[i].version = 1
          /\ items[i].supersedes # 0 =>
                LET s == items[items[i].supersedes] IN
                s.status = "superseded" /\ items[i].version = s.version + 1
          /\ items[i].status = "superseded" =>
                \E k \in DOMAIN items : items[k].supersedes = i

\* What the coordinators and workers of all runs are to one another: a worker
\* lives in a run that is on; none does while a run recovers, which is the
\* first of its process, or before it.
RunsApart ==
    /\ \A p \in AllWorkers : worker[p] # Off => phase[p[1]] = "on"
    /\ \A r \in Runs : r > latest => phase[r] = "none"
    /\ \A r \in Runs : phase[r] = "recovering" => \A p \in AllWorkers : worker[p] = Off
    /\ \A r, s \in Runs : phase[r] = "recovering" /\ phase[s] \in {"recovering", "on"} => r = s
    /\ ~ inited => \A r \in Runs : phase[r] \in {"none", "closed"}

\* The inductive invariant: the author of a memory is among its sources.
Inductive ==
    /\ WorkersHoldTheirJobs /\ RunsApart
    /\ RetryWritesNothingNew /\ VersionsChain
    /\ \A i \in DOMAIN items : items[i].by \in items[i].sources

\* A job that is done stays so, over restarts and when its message comes again.
DoneIsFinal ==
    [][\A j \in Jobs : row[j].status = "done" => row'[j].status = "done"]_vars

\* A job whose row nobody could write in vain is done in the end, whatever
\* fails, stops or crashes.
EveryJobEnds ==
    [](faults = 0) => \A j \in Jobs : row[j].status = "pending" ~> row[j].status = "done"

\* A lease that its worker has lost comes to an end (runtime.go:414: "their
\* leases will expire safely").  Refuted: lease_until is written and never read,
\* so that a row whose last write failed stays with its run while the process
\* lives.
LeasesExpire ==
    \A j \in Jobs : row[j].status = "processing" ~> row[j].status # "processing"

\* Jobs have one worker, write nothing twice, and leave the memories of a key
\* in one chain of versions, however often they are retried.
MemorySafe == TypeOK /\ WorkersHoldTheirJobs /\ RetryWritesNothingNew /\ VersionsChain
=============================================================================
