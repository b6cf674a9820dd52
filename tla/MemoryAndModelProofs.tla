------------------------ MODULE MemoryAndModelProofs ------------------------
(***************************************************************************)
(* Proofs about MemoryJobs: the leases of the job table and the chain of   *)
(* memories, for any set of jobs, number of workers, runs and failures.    *)
(* And about ModelClient: what is sent of a conversation and what is heard *)
(* of the answer, for all conversations, limits, texts and streams.        *)
(***************************************************************************)
EXTENDS MemoryJobs, ModelClient, SequenceTheorems, FiniteSetTheorems, WellFoundedInduction,
        TLAPS

\* The assumption on the constants, and the values outside of their sets.
LEMMA Constants ==
    /\ MaxRuns \in Nat /\ MaxFailures \in Nat /\ MaxFaults \in Nat
    /\ NoRun \notin Runs /\ NoJob \notin Jobs
BY MemoryConstants DEF Runs, NoRun

\* The rows that the store writes are rows.
LEMMA Shapes ==
    /\ NoRow \in Rows /\ \A due \in BOOLEAN : Pending(due) \in Rows
    /\ NoRow.owner = NoRun /\ NoRow.status = "none"
    /\ \A due \in BOOLEAN : Pending(due).owner = NoRun /\ Pending(due).status = "pending"
    /\ [NoRow EXCEPT !.status = "done"] \in Rows
    /\ [NoRow EXCEPT !.status = "done"].owner = NoRun
    /\ [NoRow EXCEPT !.status = "done"].status = "done"
    /\ Off \in Goroutines /\ Idle \in Goroutines
    /\ Off.job = NoJob /\ Idle.job = NoJob
BY DEF NoRow, Pending, Rows, Off, Idle, Goroutines

\* A row names an owner exactly while it is processed.
Leased(q) == q.owner # NoRun <=> q.status = "processing"

\* A guarded write keeps the table a table.
LEMMA WriteKeepsRows ==
    ASSUME TypeOK, NEW j \in Jobs, NEW r \in Runs, NEW new \in Rows, Leased(new),
           Write(j, r, new)
    PROVE  row' \in [Jobs -> Rows] /\ \A k \in Jobs : Leased(row'[k])
BY DEF TypeOK, Write, Leased

\* So does the release of leases.
LEMMA ReleaseKeepsRows ==
    ASSUME TypeOK, NEW owners, ReleaseMemoryJobLeases(owners)
    PROVE  row' \in [Jobs -> Rows] /\ \A k \in Jobs : Leased(row'[k])
BY Shapes DEF TypeOK, ReleaseMemoryJobLeases, Leased

\* The two versions of a chain that Upsert writes are memories.
LEMMA ItemsStayMemories ==
    ASSUME TypeOK, NEW j \in Jobs,
           UNCHANGED items \/ (\E c \in Contents : Upsert(j, c)) \/ Forget(j)
    PROVE  items' \in Seq(Memories)
<1> items \in Seq(Memories)
  BY DEF TypeOK
<1>0. DOMAIN items = 1 .. Len(items) /\ Len(items) \in Nat
      /\ \A i \in DOMAIN items : items[i] \in Memories
  OBVIOUS
<1>1. CASE UNCHANGED items
  BY <1>1
<1>2. CASE Forget(j)
  <2>1. \A i \in DOMAIN items : [items[i] EXCEPT !.status = "forgotten"] \in Memories
    <3> SUFFICES ASSUME NEW i \in DOMAIN items
                 PROVE  [items[i] EXCEPT !.status = "forgotten"] \in Memories
      OBVIOUS
    <3>1. items[i] \in Memories
      BY <1>0
    <3> QED
      BY <3>1 DEF Memories
  <2>2. CASE AppliedBy(j)
    BY <1>2, <2>2 DEF Forget
  <2>3. CASE ~ AppliedBy(j)
    <3>1. DOMAIN items = 1 .. Len(items) /\ Len(items) \in Nat
      OBVIOUS
    <3>2. items' = [i \in 1 .. Len(items) |->
                      IF i \in Active THEN [items[i] EXCEPT !.status = "forgotten"]
                      ELSE items[i]]
      BY <1>2, <2>3, <3>1 DEF Forget
    <3>3. items' \in [1 .. Len(items) -> Memories]
      BY <2>1, <3>1, <3>2
    <3> QED
      BY <3>1, <3>3, SeqDef
  <2> QED
    BY <2>2, <2>3
<1>3. CASE \E c \in Contents : Upsert(j, c)
  <2> PICK c \in Contents : Upsert(j, c)
    BY <1>3
  <2>1. CASE Active = {} /\ items' = First(j, c)
    <3>1. [content |-> c, version |-> 1, supersedes |-> 0,
           status |-> "active", by |-> j, sources |-> {j}] \in Memories
      BY DEF Memories
    <3> QED
      BY <2>1, <3>1 DEF First
  <2>2. ASSUME NEW i \in Active, items' = Confirmed(j, i)
        PROVE  items' \in Seq(Memories)
    <3>1. i \in 1 .. Len(items) /\ items[i] \in Memories
      BY DEF Active
    <3>2. [items[i] EXCEPT !.sources = @ \cup {j}] \in Memories
      BY <3>1 DEF Memories
    <3>3. items' = [items EXCEPT ![i] = [items[i] EXCEPT !.sources = @ \cup {j}]]
      BY <2>2, <3>1 DEF Confirmed
    <3> QED
      BY <3>1, <3>2, <3>3, ExceptSeq
  <2>3. ASSUME NEW i \in Active, items' = Superseded(j, i, c)
        PROVE  items' \in Seq(Memories)
    <3>1. i \in 1 .. Len(items) /\ items[i] \in Memories
      BY DEF Active
    <3>2. [items[i] EXCEPT !.status = "superseded"] \in Memories
      BY <3>1 DEF Memories
    <3> DEFINE marked == [items EXCEPT ![i].status = "superseded"]
               new == [content |-> c, version |-> items[i].version + 1, supersedes |-> i,
                       status |-> "active", by |-> j, sources |-> {j}]
    <3>3. marked = [items EXCEPT ![i] = [items[i] EXCEPT !.status = "superseded"]]
      BY <3>1
    <3>4. marked \in Seq(Memories)
      BY <3>1, <3>2, <3>3, ExceptSeq
    <3>5. new \in Memories
      BY <3>1 DEF Memories
    <3>6. items' = Append(marked, new)
      BY <2>3 DEF Superseded
    <3> HIDE DEF marked, new
    <3> QED
      BY <3>4, <3>5, <3>6
  <2> QED
    BY <1>1, <2>1, <2>2, <2>3 DEF Upsert
<1> QED
  BY <1>1, <1>2, <1>3

\* A worker that takes a step stays a goroutine of its run.
LEMMA GoroutinesStay ==
    ASSUME TypeOK, NEW p \in AllWorkers,
           WorkerStep(p) \/ Remember(p) \/ Fail(p)
    PROVE  worker' \in [AllWorkers -> Goroutines]
<1>1. ASSUME NEW at \in {"working", "ending"}, NEW j \in Jobs, NEW ok \in BOOLEAN,
             Goes(p, at, j, ok)
      PROVE  worker' \in [AllWorkers -> Goroutines]
  BY <1>1 DEF Goes, Goroutines, TypeOK
<1>2. worker[p].at = "working" \/ worker[p].at = "ending" => worker[p].job \in Jobs
  BY Shapes DEF TypeOK, Goroutines, Off, Idle
<1>3. ASSUME worker' = [worker EXCEPT ![p] = Idle] \/ worker' = [worker EXCEPT ![p] = Off]
      PROVE  worker' \in [AllWorkers -> Goroutines]
  BY <1>3, Shapes DEF TypeOK
<1> QED
  BY <1>1, <1>2, <1>3 DEF WorkerStep, Claim, Remember, Fail, End, Quit

LEMMA EmployTypes ==
    ASSUME TypeOK, NEW r \in Runs, Employ(r)
    PROVE  worker' \in [AllWorkers -> Goroutines]
BY Shapes DEF Employ, TypeOK

LEMMA FaultTypes ==
    ASSUME TypeOK, UNCHANGED faults \/ WriteFault PROVE faults' \in 0 .. MaxFaults
BY Constants DEF TypeOK, WriteFault

\* Every reachable state of the memory jobs has its type.
LEMMA NextTypes == ASSUME TypeOK, Next PROVE TypeOK'
<1> USE Constants
<1> SUFFICES
       /\ row' \in [Jobs -> Rows] /\ \A j \in Jobs : Leased(row'[j])
       /\ items' \in Seq(Memories)
       /\ worker' \in [AllWorkers -> Goroutines]
       /\ phase' \in [Runs -> {"none", "recovering", "on", "closed"}]
       /\ stopped' \subseteq Runs /\ latest' \in 0 .. MaxRuns
       /\ running' \in BOOLEAN /\ inited' \in BOOLEAN
       /\ failures' \in 0 .. MaxFailures /\ faults' \in 0 .. MaxFaults
  BY DEF TypeOK, Leased
<1>0. row \in [Jobs -> Rows] /\ \A j \in Jobs : Leased(row[j])
  BY DEF TypeOK, Leased
<1>1. CASE Start
  <2>1. latest + 1 \in Runs /\ latest + 1 \in 0 .. MaxRuns
    BY <1>1 DEF Start, TypeOK, Runs
  <2>2. worker' \in [AllWorkers -> Goroutines]
    BY <1>1, <2>1, EmployTypes DEF Start, TypeOK
  <2> QED
    BY <1>0, <1>1, <2>1, <2>2 DEF Start, TypeOK
<1>2. CASE Stop
  <2>1. latest \in Runs
    BY <1>2 DEF Stop, Runs, TypeOK
  <2> QED
    BY <1>0, <1>2, <2>1 DEF Stop, TypeOK
<1>3. CASE ConnectFails
  BY <1>0, <1>3 DEF ConnectFails, TypeOK
<1>4. CASE Crash
  BY <1>0, <1>4, Shapes DEF Crash, TypeOK
<1>5. ASSUME NEW r \in Runs, Recover(r) \/ Close(r)
      PROVE  TypeOK' /\ \A j \in Jobs : Leased(row'[j])
  <2>1. row' \in [Jobs -> Rows] /\ \A j \in Jobs : Leased(row'[j])
    <3>1. (\E owners : ReleaseMemoryJobLeases(owners)) \/ UNCHANGED row
      BY <1>5 DEF Recover, Close, WriteFault
    <3> QED
      BY <1>0, <3>1, ReleaseKeepsRows
  <2>2. faults' \in 0 .. MaxFaults
    BY <1>5, FaultTypes DEF Recover, Close
  <2>3. worker' \in [AllWorkers -> Goroutines]
    BY <1>5, EmployTypes DEF Recover, Close, TypeOK
  <2>4. /\ phase' \in [Runs -> {"none", "recovering", "on", "closed"}]
        /\ UNCHANGED <<items, stopped, latest, running, inited, failures>>
    BY <1>5 DEF Recover, Close, TypeOK
  <2> QED
    BY <2>1, <2>2, <2>3, <2>4 DEF TypeOK, Leased
<1>6. ASSUME NEW j \in Jobs, Enqueue(j) \/ Tick(j)
      PROVE  TypeOK' /\ \A k \in Jobs : Leased(row'[k])
  <2>1. row' \in [Jobs -> Rows] /\ \A k \in Jobs : Leased(row'[k])
    <3>1. CASE Enqueue(j)
      BY <1>0, <3>1, Shapes DEF Enqueue, EnqueueMemoryJob, Leased
    <3>2. CASE Tick(j)
      BY <1>0, <3>2 DEF Tick, Leased, Rows
    <3> QED
      BY <1>6, <3>1, <3>2
  <2>2. UNCHANGED <<items, worker, phase, stopped, latest, running, inited, failures, faults>>
    BY <1>6 DEF Enqueue, Tick
  <2> QED
    BY <2>1, <2>2 DEF TypeOK, Leased
<1>7. ASSUME NEW p \in AllWorkers, WorkerStep(p)
      PROVE  TypeOK' /\ \A k \in Jobs : Leased(row'[k])
  <2>0. p[1] \in Runs
    BY DEF AllWorkers
  <2>1. worker' \in [AllWorkers -> Goroutines]
    BY <1>7, GoroutinesStay
  <2>2. UNCHANGED <<phase, stopped, latest, running, inited>>
    BY <1>7 DEF WorkerStep, Claim, Remember, Fail, End, Quit
  <2>3. worker[p].at \in {"working", "ending"} => worker[p].job \in Jobs
    BY Shapes DEF TypeOK, Goroutines, Off, Idle
  <2>4. items' \in Seq(Memories)
    <3>1. CASE Remember(p)
      <4> DEFINE j == worker[p].job
      <4>1. j \in Jobs
        BY <3>1, <2>3 DEF Remember
      <4>2. UNCHANGED items \/ (\E c \in Contents : Upsert(j, c)) \/ Forget(j)
        BY <3>1 DEF Remember
      <4> QED
        BY <4>1, <4>2, ItemsStayMemories
    <3>2. CASE ~ Remember(p)
      BY <1>7, <3>2 DEF WorkerStep, Claim, Fail, End, Quit, TypeOK
    <3> QED
      BY <3>1, <3>2
  <2>5. failures' \in 0 .. MaxFailures
    <3>1. CASE Fail(p)
      BY <3>1 DEF Fail, TypeOK
    <3>2. CASE ~ Fail(p)
      BY <1>7, <3>2 DEF WorkerStep, Claim, Remember, End, Quit, TypeOK
    <3> QED
      BY <3>1, <3>2
  <2>6. /\ row' \in [Jobs -> Rows] /\ \A k \in Jobs : Leased(row'[k])
        /\ faults' \in 0 .. MaxFaults
    <3>1. CASE Claim(p)
      <4>1. PICK j \in Jobs : row' = [row EXCEPT ![j] =
                 [status |-> "processing", owner |-> p[1], due |-> TRUE]]
        BY <3>1 DEF Claim
      <4>2. [status |-> "processing", owner |-> p[1], due |-> TRUE] \in Rows
        BY <2>0 DEF Rows
      <4>3. p[1] # NoRun
        BY <2>0
      <4>4. row' \in [Jobs -> Rows]
        BY <1>0, <4>1, <4>2
      <4>5. \A k \in Jobs : Leased(row'[k])
        BY <1>0, <4>1, <4>3 DEF Leased
      <4> QED
        BY <3>1, <4>4, <4>5 DEF Claim, TypeOK
    <3>2. CASE End(p)
      <4>1. worker[p].job \in Jobs
        BY <3>2, <2>3 DEF End
      <4>2. /\ UNCHANGED faults \/ WriteFault
            /\ \/ UNCHANGED row
               \/ \E new \in Rows : Leased(new) /\ Write(worker[p].job, p[1], new)
        BY <3>2, Shapes DEF End, WriteFault, CompleteMemoryJob, RetryMemoryJob, Leased
      <4> QED
        BY <1>0, <2>0, <4>1, <4>2, FaultTypes, WriteKeepsRows
    <3>3. CASE ~ Claim(p) /\ ~ End(p)
      BY <1>0, <1>7, <3>3 DEF WorkerStep, Remember, Fail, Quit, TypeOK
    <3> QED
      BY <3>1, <3>2, <3>3
  <2> QED
    BY <2>1, <2>2, <2>4, <2>5, <2>6 DEF TypeOK, Leased
<1> QED
  BY <1>1, <1>2, <1>3, <1>4, <1>5, <1>6, <1>7 DEF Next, TypeOK

\* The table of jobs, the memories, the workers and the runs have their types
\* in every reachable state.
THEOREM TypeCorrect == Spec => []TypeOK
<1>1. Init => TypeOK
  <2> SUFFICES ASSUME Init PROVE TypeOK
    OBVIOUS
  <2>1. row \in [Jobs -> Rows] /\ \A j \in Jobs : row[j].owner = NoRun /\ row[j].status = "none"
    BY Shapes DEF Init
  <2>2. worker \in [AllWorkers -> Goroutines]
    BY Shapes DEF Init
  <2>3. items \in Seq(Memories)
    BY DEF Init
  <2>4. /\ phase \in [Runs -> {"none", "recovering", "on", "closed"}]
        /\ stopped \subseteq Runs /\ latest \in 0 .. MaxRuns
        /\ running \in BOOLEAN /\ inited \in BOOLEAN
        /\ failures \in 0 .. MaxFailures /\ faults \in 0 .. MaxFaults
    <3>1. 0 \in 0 .. MaxRuns /\ 0 \in 0 .. MaxFailures /\ 0 \in 0 .. MaxFaults
      BY Constants
    <3> QED
      BY <3>1 DEF Init
  <2> QED
    BY <2>1, <2>2, <2>3, <2>4 DEF TypeOK
<1>2. TypeOK /\ [Next]_vars => TypeOK'
  <2> SUFFICES ASSUME TypeOK, UNCHANGED vars PROVE TypeOK'
    BY NextTypes
  <2> QED
    BY DEF TypeOK, vars
<1> QED
  BY <1>1, <1>2, PTL DEF Spec

----------------------------------------------------------------------------
(* The memories *)

MemoriesSound ==
    /\ RetryWritesNothingNew /\ VersionsChain
    /\ \A i \in DOMAIN items : items[i].by \in items[i].sources

LEMMA Indices ==
    ASSUME TypeOK
    PROVE  /\ DOMAIN items = 1 .. Len(items) /\ Len(items) \in Nat
           /\ \A i \in DOMAIN items : items[i] \in Memories
BY DEF TypeOK

\* VersionsChain, memory by memory.
LEMMA Chain ==
    ASSUME TypeOK, MemoriesSound, NEW k \in 1 .. Len(items)
    PROVE  /\ items[k].supersedes \in 0 .. k - 1
           /\ items[k].supersedes = 0 => items[k].version = 1
           /\ items[k].supersedes # 0 =>
                 /\ items[k].supersedes \in 1 .. Len(items)
                 /\ items[items[k].supersedes].status = "superseded"
                 /\ items[k].version = items[items[k].supersedes].version + 1
           /\ items[k].status = "superseded" =>
                 \E l \in 1 .. Len(items) : items[l].supersedes = k
           /\ items[k].status = "active" => k = Len(items)
<1>1. items[k] \in Memories /\ DOMAIN items = 1 .. Len(items) /\ Len(items) \in Nat
  BY Indices
<1>2. items[k].supersedes \in Nat
  BY <1>1 DEF Memories
<1>3. items[k].supersedes \in 0 .. k - 1
  BY <1>1, <1>2 DEF MemoriesSound, VersionsChain
<1>4. items[k].supersedes # 0 => items[k].supersedes \in 1 .. Len(items)
  BY <1>1, <1>3
<1>5. /\ items[k].supersedes = 0 => items[k].version = 1
      /\ items[k].status = "superseded" => \E l \in DOMAIN items : items[l].supersedes = k
      /\ items[k].supersedes # 0 =>
            /\ items[items[k].supersedes].status = "superseded"
            /\ items[k].version = items[items[k].supersedes].version + 1
  BY <1>1 DEF MemoriesSound, VersionsChain
<1>6. items[k].status = "active" => k = Len(items)
  BY <1>1 DEF MemoriesSound, VersionsChain, Active
<1> QED
  BY <1>1, <1>3, <1>4, <1>5, <1>6

\* A memory that is forgotten keeps its sources and its place in the chain.
LEMMA ForgetIsSound ==
    ASSUME TypeOK, MemoriesSound, NEW j \in Jobs, Forget(j)
    PROVE  MemoriesSound'
<1> USE Indices
<1>1. CASE AppliedBy(j)
  BY <1>1 DEF Forget, MemoriesSound, RetryWritesNothingNew, VersionsChain, Active
<1>2. CASE ~ AppliedBy(j)
  <2>1. DOMAIN items' = DOMAIN items /\ items' \in Seq(Memories)
    BY <1>2, ItemsStayMemories DEF Forget
  <2>2. Len(items') = Len(items)
    BY <2>1
  <2>3. ASSUME NEW i \in DOMAIN items
        PROVE  /\ items'[i].by = items[i].by
               /\ items'[i].sources = items[i].sources
               /\ items'[i].supersedes = items[i].supersedes
               /\ items'[i].version = items[i].version
               /\ items'[i].status = "superseded" <=> items[i].status = "superseded"
               /\ items'[i].status # "active"
    <3>1. items[i] \in Memories
      OBVIOUS
    <3>2. CASE i \in Active
      <4>1. items'[i] = [items[i] EXCEPT !.status = "forgotten"]
        BY <1>2, <3>2 DEF Forget
      <4> QED
        BY <3>1, <3>2, <4>1 DEF Memories, Active
    <3>3. CASE i \notin Active
      BY <1>2, <3>3 DEF Forget, Active
    <3> QED
      BY <3>2, <3>3
  <2>4. Active' = {}
    BY <2>1, <2>3 DEF Active
  <2>5. \A i \in DOMAIN items : items[i].supersedes # 0 /\ items[i].supersedes < i
                                   => items[i].supersedes \in DOMAIN items
    BY DEF Memories
  <2>6. RetryWritesNothingNew' /\ \A i \in DOMAIN items' : items'[i].by \in items'[i].sources
    BY <2>1, <2>3 DEF MemoriesSound, RetryWritesNothingNew
  <2>7. VersionsChain'
    BY <2>1, <2>3, <2>4, <2>5 DEF MemoriesSound, VersionsChain
  <2> QED
    BY <2>6, <2>7 DEF MemoriesSound
<1> QED
  BY <1>1, <1>2

\* A memory that is written by a job which no memory names as its source is the
\* last of the chain.
LEMMA UpsertIsSound ==
    ASSUME TypeOK, MemoriesSound, NEW j \in Jobs, NEW c \in Contents, Upsert(j, c)
    PROVE  MemoriesSound'
<1> USE Indices
<1> DEFINE n == Len(items)
<1>a. n \in Nat /\ DOMAIN items = 1 .. n
  BY Indices
<1>0. CASE UNCHANGED items
  BY <1>0 DEF MemoriesSound, RetryWritesNothingNew, VersionsChain, Active
<1>1. CASE ~ AppliedBy(j) /\ Active = {} /\ items' = First(j, c)
  <2> DEFINE new == [content |-> c, version |-> 1, supersedes |-> 0,
                     status |-> "active", by |-> j, sources |-> {j}]
  <2>1. items' = Append(items, new)
    BY <1>1 DEF First
  <2>2. /\ new.version = 1 /\ new.supersedes = 0 /\ new.status = "active"
        /\ new.by = j /\ new.sources = {j}
    OBVIOUS
  <2> HIDE DEF new
  <2>3. /\ DOMAIN items' = 1 .. n + 1 /\ Len(items') = n + 1
        /\ items'[n + 1] = new
        /\ \A i \in 1 .. n : items'[i] = items[i]
    BY <2>1 DEF TypeOK
  <2>4. RetryWritesNothingNew' /\ \A i \in DOMAIN items' : items'[i].by \in items'[i].sources
    BY <1>1, <2>2, <2>3 DEF MemoriesSound, RetryWritesNothingNew, AppliedBy
  <2>5. Active' \subseteq {n + 1}
    BY <1>1, <2>3 DEF Active
  <2>6. VersionsChain'
    BY <2>2, <2>3, <2>5 DEF MemoriesSound, VersionsChain, Memories
  <2> QED
    BY <2>4, <2>6 DEF MemoriesSound
<1>2. ASSUME ~ AppliedBy(j), NEW i \in Active, items' = Confirmed(j, i)
      PROVE  MemoriesSound'
  <2>0. i \in 1 .. n /\ items[i] \in Memories
    BY DEF Active
  <2>1. /\ DOMAIN items' = 1 .. n /\ Len(items') = n
        /\ \A k \in 1 .. n :
              items'[k] = IF k = i THEN [items[i] EXCEPT !.sources = @ \cup {j}] ELSE items[k]
    BY <1>2, <2>0 DEF Confirmed, TypeOK
  <2>2. \A k \in 1 .. n :
              /\ items'[k].by = items[k].by /\ items'[k].status = items[k].status
              /\ items'[k].supersedes = items[k].supersedes
              /\ items'[k].version = items[k].version
              /\ items'[k].sources = IF k = i THEN items[k].sources \cup {j} ELSE items[k].sources
    <3> TAKE k \in 1 .. n
    <3>1. CASE k = i
      <4>1. items'[k] = [items[k] EXCEPT !.sources = @ \cup {j}]
        BY <2>1, <3>1
      <4>2. items[k] \in Memories
        BY <2>0, <3>1
      <4> QED
        BY <3>1, <4>1, <4>2 DEF Memories
    <3>2. CASE k # i
      BY <2>1, <3>2
    <3> QED
      BY <3>1, <3>2
  <2>3. \A k \in 1 .. n : items[k].by # j
    BY <1>2 DEF AppliedBy, MemoriesSound
  <2>4. RetryWritesNothingNew' /\ \A k \in DOMAIN items' : items'[k].by \in items'[k].sources
    <3>1. ASSUME NEW k \in 1 .. n, NEW l \in 1 .. n, k < l
          PROVE  items'[l].by \notin items'[k].sources
      <4>1. items[l].by \notin items[k].sources /\ items[l].by # j
        BY <2>3, <3>1 DEF MemoriesSound, RetryWritesNothingNew
      <4> QED
        BY <2>2, <4>1
    <3>2. \A k \in 1 .. n : items'[k].by \in items'[k].sources
      BY <2>2 DEF MemoriesSound
    <3> QED
      BY <2>1, <3>1, <3>2 DEF RetryWritesNothingNew
  <2>5. Active' = Active
    BY <2>1, <2>2 DEF Active
  <2>6. \A k \in 1 .. n : items[k].supersedes # 0 /\ items[k].supersedes < k
                                   => items[k].supersedes \in 1 .. n
    BY DEF Memories
  <2>7. VersionsChain'
    <3>1. Active' \subseteq {Len(items')}
      BY <2>1, <2>5 DEF MemoriesSound, VersionsChain
    <3>2. ASSUME NEW k \in 1 .. n
          PROVE  /\ items'[k].supersedes < k
                 /\ items'[k].supersedes = 0 => items'[k].version = 1
                 /\ items'[k].status = "superseded" =>
                       \E l \in 1 .. n : items'[l].supersedes = k
      <4>1. /\ items[k].supersedes < k
            /\ items[k].supersedes = 0 => items[k].version = 1
            /\ items[k].status = "superseded" =>
                  \E l \in 1 .. n : items[l].supersedes = k
        BY <1>a, Chain
      <4> HIDE DEF n
      <4> QED
        BY <2>2, <4>1
    <3>3. ASSUME NEW k \in 1 .. n, items'[k].supersedes # 0
          PROVE  /\ items'[items'[k].supersedes].status = "superseded"
                 /\ items'[k].version = items'[items'[k].supersedes].version + 1
      <4>1. items[k].supersedes # 0 /\ items[k].supersedes \in 1 .. n
        BY <2>2, <3>3, Chain
      <4>2. /\ items[items[k].supersedes].status = "superseded"
            /\ items[k].version = items[items[k].supersedes].version + 1
        BY <4>1, Chain
      <4> HIDE DEF n
      <4> QED
        BY <2>2, <4>1, <4>2
    <3> QED
      BY <2>1, <3>1, <3>2, <3>3 DEF VersionsChain
  <2> QED
    BY <2>4, <2>7 DEF MemoriesSound
<1>3. ASSUME ~ AppliedBy(j), NEW i \in Active, items' = Superseded(j, i, c)
      PROVE  MemoriesSound'
  <2> DEFINE new == [content |-> c, version |-> items[i].version + 1, supersedes |-> i,
                     status |-> "active", by |-> j, sources |-> {j}]
             marked == [items EXCEPT ![i].status = "superseded"]
  <2>0. i = n /\ n \in 1 .. n /\ items[i] \in Memories
    BY DEF Active, MemoriesSound, VersionsChain
  <2>1. items' = Append(marked, new)
    BY <1>3 DEF Superseded
  <2>2. /\ new.version = items[n].version + 1 /\ new.supersedes = n /\ new.status = "active"
        /\ new.by = j /\ new.sources = {j}
    BY <2>0
  <2>3. /\ marked \in Seq(Memories) /\ Len(marked) = n
        /\ \A k \in 1 .. n : marked[k] =
              IF k = n THEN [items[n] EXCEPT !.status = "superseded"] ELSE items[k]
    <3>1. [items[n] EXCEPT !.status = "superseded"] \in Memories
      BY <2>0 DEF Memories
    <3>2. marked = [items EXCEPT ![n] = [items[n] EXCEPT !.status = "superseded"]]
      BY <2>0
    <3> HIDE DEF marked
    <3> QED
      BY <2>0, <3>1, <3>2, ExceptSeq DEF TypeOK
  <2> HIDE DEF new, marked
  <2>4. /\ DOMAIN items' = 1 .. n + 1 /\ Len(items') = n + 1
        /\ items'[n + 1] = new
        /\ \A k \in 1 .. n : items'[k] = marked[k]
    BY <2>1, <2>3
  <2>5. \A k \in 1 .. n :
              /\ items'[k].by = items[k].by /\ items'[k].sources = items[k].sources
              /\ items'[k].supersedes = items[k].supersedes
              /\ items'[k].version = items[k].version
              /\ items'[k].status = IF k = n THEN "superseded" ELSE items[k].status
    <3> TAKE k \in 1 .. n
    <3>1. CASE k = n
      <4>1. items'[k] = [items[k] EXCEPT !.status = "superseded"]
        BY <2>3, <2>4, <3>1
      <4>2. items[k] \in Memories
        BY <2>0, <3>1
      <4> QED
        BY <3>1, <4>1, <4>2 DEF Memories
    <3>2. CASE k # n
      BY <2>3, <2>4, <3>2
    <3> QED
      BY <3>1, <3>2
  <2>6. RetryWritesNothingNew' /\ \A k \in DOMAIN items' : items'[k].by \in items'[k].sources
    <3>1. ASSUME NEW k \in 1 .. n + 1, NEW l \in 1 .. n + 1, k < l
          PROVE  items'[l].by \notin items'[k].sources
      <4>1. k \in 1 .. n /\ items'[k].sources = items[k].sources
        <5>1. k \in 1 .. n
          BY <1>a, <3>1
        <5> QED
          BY <2>5, <5>1
      <4>2. CASE l \in 1 .. n
        BY <2>5, <3>1, <4>1, <4>2 DEF MemoriesSound, RetryWritesNothingNew
      <4>3. CASE l = n + 1
        BY <1>3, <2>2, <2>4, <4>1, <4>3 DEF AppliedBy
      <4> QED
        BY <4>2, <4>3
    <3>2. ASSUME NEW k \in 1 .. n + 1 PROVE items'[k].by \in items'[k].sources
      <4>1. CASE k \in 1 .. n
        BY <2>5, <4>1 DEF MemoriesSound
      <4>2. CASE k = n + 1
        BY <2>2, <2>4, <4>2
      <4> QED
        BY <4>1, <4>2
    <3> QED
      BY <2>4, <3>1, <3>2 DEF RetryWritesNothingNew
  <2>7. Active' \subseteq {n + 1}
    <3>1. ASSUME NEW k \in 1 .. n PROVE items'[k].status # "active"
      <4>1. k # n => k \notin Active
        BY DEF MemoriesSound, VersionsChain
      <4> QED
        BY <2>5, <4>1 DEF Active
    <3> QED
      BY <2>4, <3>1 DEF Active
  <2>8. \A k \in 1 .. n : items[k].supersedes # 0 /\ items[k].supersedes < k
                                   => items[k].supersedes \in 1 .. n - 1
    BY <2>0 DEF Memories
  <2>9. VersionsChain'
    <3>1. Active' \subseteq {Len(items')}
      BY <2>4, <2>7
    <3>2. ASSUME NEW k \in 1 .. n
          PROVE  /\ items'[k].supersedes < k
                 /\ items'[k].supersedes = 0 => items'[k].version = 1
                 /\ items'[k].status = "superseded" =>
                       \E l \in 1 .. n + 1 : items'[l].supersedes = k
      <4>1. items'[k].supersedes < k /\ (items'[k].supersedes = 0 => items'[k].version = 1)
        BY <2>5 DEF MemoriesSound, VersionsChain
      <4>2. CASE k = n
        BY <2>2, <2>4, <4>1, <4>2
      <4>3. CASE k # n /\ items'[k].status = "superseded"
        <5>1. PICK l \in 1 .. n : items[l].supersedes = k
          BY <2>5, <4>3, Chain
        <5>2. items'[l].supersedes = k /\ l \in 1 .. n + 1
          BY <2>0, <2>5, <5>1
        <5> QED
          BY <4>1, <5>2
      <4> QED
        BY <4>1, <4>2, <4>3
    <3>3. ASSUME NEW k \in 1 .. n, items'[k].supersedes # 0
          PROVE  /\ items'[items'[k].supersedes].status = "superseded"
                 /\ items'[k].version = items'[items'[k].supersedes].version + 1
      <4>1. items[k].supersedes # 0 /\ items[k].supersedes \in 1 .. n
        BY <2>5, <3>3, Chain
      <4>2. items[k].supersedes # n => items'[items[k].supersedes].status = "superseded"
        BY <2>5, <4>1, Chain
      <4>3. items'[n].status = "superseded"
        BY <2>0, <2>5
      <4>4. items[k].version = items[items[k].supersedes].version + 1
        BY <4>1, Chain
      <4> HIDE DEF n
      <4> QED
        BY <2>5, <4>1, <4>2, <4>3, <4>4
    <3>4. /\ items'[n + 1].supersedes = n /\ n < n + 1 /\ n # 0
          /\ items'[n].status = "superseded"
          /\ items'[n + 1].version = items'[n].version + 1
          /\ items'[n + 1].status = "active"
      <4>1. n < n + 1 /\ n # 0
        BY <2>0
      <4>2. items'[n + 1].supersedes = n /\ items'[n + 1].status = "active"
        BY <2>0, <2>2, <2>4
      <4>3. items'[n].status = "superseded" /\ items'[n].version = items[n].version
        BY <2>0, <2>5
      <4>4. items'[n + 1].version = items[n].version + 1
        BY <2>0, <2>2, <2>4
      <4> QED
        BY <4>1, <4>2, <4>3, <4>4
    <3> QED
      BY <2>4, <3>1, <3>2, <3>3, <3>4 DEF VersionsChain
  <2> QED
    BY <2>6, <2>9 DEF MemoriesSound
<1> QED
  BY <1>0, <1>1, <1>2, <1>3 DEF Upsert

----------------------------------------------------------------------------
(* The leases *)

LeasesSound == WorkersHoldTheirJobs /\ RunsApart

\* A worker has a job exactly while it is at work.
LEMMA AtWork ==
    ASSUME TypeOK, NEW p \in AllWorkers
    PROVE  /\ p[1] \in Runs /\ worker[p] \in Goroutines
           /\ worker[p].job # NoJob <=> worker[p].at \in {"working", "ending"}
           /\ worker[p].job # NoJob => worker[p].job \in Jobs /\ worker[p] # Off /\ worker[p] # Idle
           /\ worker[p].at = "off" => worker[p] = Off
           /\ worker[p].at = "idle" => worker[p] = Idle /\ worker[p] # Off
BY Constants DEF TypeOK, AllWorkers, Goroutines, Off, Idle

\* The life of the runs keeps them apart, and releases no lease of a worker at
\* work: a recovery meets none, and a run that closes has none left.
LEMMA RunsStayApart ==
    ASSUME TypeOK, LeasesSound,
           Start \/ Stop \/ ConnectFails \/ Crash \/ (\E r \in Runs : Recover(r) \/ Close(r))
    PROVE  LeasesSound'
<1> USE Constants, Shapes
<1>1. CASE Start
  <2> DEFINE new == latest + 1
  <2>1. new \in Runs /\ phase[new] = "none" /\ new > latest
    BY <1>1 DEF Start, TypeOK, Runs, LeasesSound, RunsApart
  <2>2. \A w \in AllWorkers : w[1] = new => worker[w] = Off
    BY <2>1 DEF LeasesSound, RunsApart
  <2>3. \A r \in Runs : r > latest' => r > latest /\ r # new
    BY <1>1 DEF Start, TypeOK, Runs
  <2> HIDE DEF new
  <2>4. CASE inited
    <3>1. /\ phase' = [phase EXCEPT ![new] = "on"] /\ latest' = new /\ inited'
          /\ worker' = [w \in AllWorkers |-> IF w[1] = new THEN Idle ELSE worker[w]]
          /\ UNCHANGED row /\ \A r \in Runs : phase[r] # "recovering"
      BY <1>1, <2>4 DEF Start, Employ, new
    <3>2. \A w \in AllWorkers : worker'[w].job = worker[w].job
      BY <2>2, <3>1
    <3>3. WorkersHoldTheirJobs'
      BY <3>1, <3>2 DEF LeasesSound, WorkersHoldTheirJobs, Held
    <3>4. RunsApart'
      BY <2>1, <2>3, <3>1 DEF LeasesSound, RunsApart, TypeOK, AllWorkers
    <3> QED
      BY <3>3, <3>4 DEF LeasesSound
  <2>5. CASE ~ inited
    <3>1. /\ phase' = [phase EXCEPT ![new] = "recovering"] /\ latest' = new /\ inited'
          /\ UNCHANGED <<row, worker>>
      BY <1>1, <2>5 DEF Start, new
    <3>2. \A r \in Runs : phase[r] \in {"none", "closed"}
      BY <2>5 DEF LeasesSound, RunsApart
    <3>3. \A w \in AllWorkers : worker[w] = Off
      BY <3>2 DEF LeasesSound, RunsApart, AllWorkers
    <3>4. WorkersHoldTheirJobs'
      BY <3>1 DEF LeasesSound, WorkersHoldTheirJobs, Held
    <3>5. RunsApart'
      BY <2>1, <2>3, <3>1, <3>2, <3>3 DEF LeasesSound, RunsApart, TypeOK
    <3> QED
      BY <3>4, <3>5 DEF LeasesSound
  <2> QED
    BY <2>4, <2>5
<1>2. CASE Stop \/ ConnectFails
  BY <1>2 DEF Stop, ConnectFails, LeasesSound, WorkersHoldTheirJobs, Held, RunsApart
<1>3. CASE Crash
  <2>1. /\ phase' = [r \in Runs |-> IF phase[r] = "none" THEN "none" ELSE "closed"]
        /\ worker' = [w \in AllWorkers |-> Off]
        /\ UNCHANGED <<row, latest>>
    BY <1>3 DEF Crash
  <2>2. WorkersHoldTheirJobs'
    BY <2>1 DEF WorkersHoldTheirJobs
  <2>3. RunsApart'
    BY <2>1 DEF LeasesSound, RunsApart
  <2> QED
    BY <2>2, <2>3 DEF LeasesSound
<1>4. ASSUME NEW r \in Runs, Recover(r) PROVE LeasesSound'
  <2>1. /\ phase' = [phase EXCEPT ![r] = "on"] /\ phase[r] = "recovering"
        /\ worker' = [w \in AllWorkers |-> IF w[1] = r THEN Idle ELSE worker[w]]
        /\ UNCHANGED <<latest, inited>>
    BY <1>4 DEF Recover, Employ
  <2>2. \A w \in AllWorkers : worker[w] = Off
    BY <2>1 DEF LeasesSound, RunsApart
  <2>3. WorkersHoldTheirJobs'
    BY <2>1, <2>2 DEF WorkersHoldTheirJobs
  <2>4. \A s \in Runs : phase'[s] # "recovering"
    BY <2>1 DEF LeasesSound, RunsApart, TypeOK
  <2>5. RunsApart'
    BY <2>1, <2>2, <2>4 DEF LeasesSound, RunsApart, TypeOK
  <2> QED
    BY <2>3, <2>5 DEF LeasesSound
<1>5. ASSUME NEW r \in Runs, Close(r) PROVE LeasesSound'
  <2>1. /\ phase' = [phase EXCEPT ![r] = "closed"] /\ phase[r] = "on"
        /\ UNCHANGED <<worker, latest, inited>>
        /\ ReleaseMemoryJobLeases({r}) \/ UNCHANGED row
    BY <1>5 DEF Close, WriteFault
  <2>2. \A w \in AllWorkers : w[1] = r => worker[w] = Off
    BY <1>5 DEF Close, AllWorkers
  <2>3. WorkersHoldTheirJobs'
    <3> SUFFICES ASSUME NEW w \in AllWorkers, worker[w].job # NoJob
                 PROVE  Held(worker[w].job, w[1])'
      BY <2>1 DEF LeasesSound, WorkersHoldTheirJobs
    <3>1. w[1] # r /\ worker[w].job \in Jobs /\ Held(worker[w].job, w[1])
      BY <2>2, AtWork DEF LeasesSound, WorkersHoldTheirJobs
    <3>2. row'[worker[w].job] = row[worker[w].job]
      BY <2>1, <3>1 DEF ReleaseMemoryJobLeases, Held
    <3> QED
      BY <2>1, <3>1, <3>2 DEF Held
  <2>4. RunsApart'
    BY <2>1, <2>2 DEF LeasesSound, RunsApart, TypeOK
  <2> QED
    BY <2>3, <2>4 DEF LeasesSound
<1> QED
  BY <1>1, <1>2, <1>3, <1>4, <1>5

\* A worker that takes a step holds the job it has then, alone.
LEMMA WorkersKeepTheirJobs ==
    ASSUME TypeOK, LeasesSound,
           (\E j \in Jobs : Enqueue(j) \/ Tick(j)) \/ (\E p \in AllWorkers : WorkerStep(p))
    PROVE  LeasesSound'
<1> USE Constants, Shapes
<1>1. ASSUME NEW j \in Jobs, Enqueue(j) \/ Tick(j) PROVE LeasesSound'
  <2>1. UNCHANGED <<worker, phase, latest, inited>>
    BY <1>1 DEF Enqueue, Tick
  <2>2. \A k \in Jobs : row[k].status = "processing" => row'[k] = row[k]
    BY <1>1 DEF Enqueue, EnqueueMemoryJob, Tick, TypeOK
  <2>3. WorkersHoldTheirJobs'
    BY <2>1, <2>2, AtWork DEF LeasesSound, WorkersHoldTheirJobs, Held
  <2> QED
    BY <2>1, <2>3 DEF LeasesSound, RunsApart
<1>2. ASSUME NEW p \in AllWorkers, WorkerStep(p) PROVE LeasesSound'
  <2>0. UNCHANGED <<phase, latest, inited>> /\ p[1] \in Runs
    BY <1>2, AtWork DEF WorkerStep, Claim, Remember, Fail, End, Quit
  <2>1. \A q \in AllWorkers \ {p} : worker'[q] = worker[q]
    <3>1. worker \in [AllWorkers -> Goroutines]
      BY DEF TypeOK
    <3>2. ASSUME NEW at, NEW j, NEW ok, Goes(p, at, j, ok)
          PROVE  \A q \in AllWorkers \ {p} : worker'[q] = worker[q]
      BY <3>1, <3>2 DEF Goes
    <3>3. CASE Claim(p) \/ Remember(p) \/ Fail(p)
      BY <3>2, <3>3 DEF Claim, Remember, Fail
    <3>4. CASE End(p) \/ Quit(p)
      BY <3>1, <3>4 DEF End, Quit
    <3> QED
      BY <1>2, <3>3, <3>4 DEF WorkerStep
  <2>2. worker[p] # Off
    <3>1. worker[p].at # "off"
      BY <1>2 DEF WorkerStep, Claim, Remember, Fail, End, Quit
    <3> QED
      BY <3>1 DEF Off
  <2>3. RunsApart'
    <3>1. phase[p[1]] = "on"
      BY <2>2 DEF LeasesSound, RunsApart
    <3>2. \A r \in Runs : phase[r] # "recovering"
      BY <2>2 DEF LeasesSound, RunsApart
    <3> QED
      BY <2>0, <2>1, <3>1, <3>2 DEF LeasesSound, RunsApart
  <2>4. WorkersHoldTheirJobs'
    <3>1. CASE Claim(p)
      <4>1. PICK j \in Jobs :
              /\ row[j].status = "pending"
              /\ row' = [row EXCEPT ![j] = [status |-> "processing", owner |-> p[1], due |-> TRUE]]
              /\ Goes(p, "working", j, FALSE)
        BY <3>1 DEF Claim, Claimable
      <4>2. /\ worker'[p].job = j
            /\ row'[j].status = "processing" /\ row'[j].owner = p[1]
            /\ \A k \in Jobs \ {j} : row'[k] = row[k]
        BY <4>1 DEF Goes, TypeOK
      <4>3. ASSUME NEW q \in AllWorkers \ {p}, worker[q].job # NoJob
            PROVE  /\ worker[q].job \in Jobs \ {j} /\ Held(worker[q].job, q[1])
                   /\ \A o \in AllWorkers \ {q} : worker[o].job # worker[q].job
        BY <4>1, <4>3, AtWork DEF LeasesSound, WorkersHoldTheirJobs, Held
      <4> QED
        BY <2>1, <4>2, <4>3 DEF WorkersHoldTheirJobs, Held
    <3>2. CASE Remember(p) \/ Fail(p)
      <4>1. worker'[p].job = worker[p].job /\ UNCHANGED row
        BY <3>2 DEF Remember, Fail, Goes, TypeOK
      <4> QED
        BY <2>1, <4>1 DEF LeasesSound, WorkersHoldTheirJobs, Held
    <3>3. CASE End(p) \/ Quit(p)
      <4>1. worker'[p].job = NoJob
        BY <3>3 DEF End, Quit, TypeOK
      <4>2. \A k \in Jobs : k # worker[p].job => row'[k] = row[k]
        BY <3>3 DEF End, Quit, WriteFault, CompleteMemoryJob, RetryMemoryJob, Write, TypeOK
      <4>3. ASSUME NEW q \in AllWorkers \ {p}, worker[q].job # NoJob
            PROVE  /\ worker[q].job \in Jobs /\ worker[q].job # worker[p].job
                   /\ Held(worker[q].job, q[1])
                   /\ \A o \in AllWorkers \ {q} : worker[o].job # worker[q].job
        BY <4>3, AtWork DEF LeasesSound, WorkersHoldTheirJobs
      <4> QED
        BY <2>1, <4>1, <4>2, <4>3 DEF WorkersHoldTheirJobs, Held
    <3> QED
      BY <1>2, <3>1, <3>2, <3>3 DEF WorkerStep
  <2> QED
    BY <2>3, <2>4 DEF LeasesSound
<1> QED
  BY <1>1, <1>2

----------------------------------------------------------------------------
(* Theorems *)

LEMMA InductiveParts == Inductive <=> LeasesSound /\ MemoriesSound
BY DEF Inductive, LeasesSound, MemoriesSound

\* The inductive invariant holds in every reachable state: who is at work on
\* what, and how the memories hang together.
THEOREM Soundness == Spec => []Inductive
<1>1. Init => Inductive
  <2> SUFFICES ASSUME Init PROVE Inductive
    OBVIOUS
  <2>1. MemoriesSound
    BY DEF Init, MemoriesSound, RetryWritesNothingNew, VersionsChain, Active
  <2>2. LeasesSound
    BY Shapes DEF Init, LeasesSound, WorkersHoldTheirJobs, RunsApart
  <2> QED
    BY <2>1, <2>2, InductiveParts
<1>2. TypeOK /\ Inductive /\ [Next]_vars => Inductive'
  <2> SUFFICES ASSUME TypeOK, LeasesSound, MemoriesSound, [Next]_vars
               PROVE  LeasesSound' /\ MemoriesSound'
    BY InductiveParts DEF Inductive, LeasesSound, MemoriesSound
  <2>1. CASE UNCHANGED vars
    BY <2>1 DEF vars, LeasesSound, WorkersHoldTheirJobs, Held, RunsApart,
                MemoriesSound, RetryWritesNothingNew, VersionsChain, Active
  <2>2. CASE Next
    <3>0. ASSUME UNCHANGED items PROVE MemoriesSound'
      BY <3>0 DEF MemoriesSound, RetryWritesNothingNew, VersionsChain, Active
    <3>1. LeasesSound'
      BY <2>2, RunsStayApart, WorkersKeepTheirJobs DEF Next
    <3>2. ASSUME NEW p \in AllWorkers, Remember(p) PROVE MemoriesSound'
      <4>1. Remember(p)
        BY <3>2
      <4>2. worker[p].job \in Jobs
        BY <4>1, AtWork DEF Remember
      <4>3. UNCHANGED items \/ (\E c \in Contents : Upsert(worker[p].job, c))
               \/ Forget(worker[p].job)
        BY <4>1 DEF Remember
      <4>4. CASE UNCHANGED items
        BY <3>0, <4>4
      <4>5. CASE Forget(worker[p].job)
        BY <4>2, <4>5, ForgetIsSound
      <4>6. CASE \E c \in Contents : Upsert(worker[p].job, c)
        <5>1. PICK c \in Contents : Upsert(worker[p].job, c)
          BY <4>6
        <5> QED
          BY <4>2, <5>1, UpsertIsSound
      <4> QED
        BY <4>3, <4>4, <4>5, <4>6
    <3>3. ASSUME ~ \E p \in AllWorkers : Remember(p) PROVE MemoriesSound'
      <4>1. UNCHANGED items
        BY <2>2, <3>3 DEF Next, WorkerStep, Start, Stop, ConnectFails, Crash, Recover, Close,
                          Enqueue, Tick, Claim, Fail, End, Quit
      <4> QED
        BY <3>0, <4>1
    <3> QED
      BY <3>1, <3>2, <3>3
  <2> QED
    BY <2>1, <2>2
<1> QED
  BY <1>1, <1>2, TypeCorrect, PTL DEF Spec

\* Whatever run it belongs to, a worker at work holds its job's row and no other
\* worker has that job.
THEOREM JobsAreExclusive == Spec => []WorkersHoldTheirJobs
<1>1. Inductive => WorkersHoldTheirJobs
  BY DEF Inductive
<1> QED
  BY <1>1, Soundness, PTL

\* A job that is done again, after a crash or a write that failed, writes
\* nothing new and brings back nothing that was forgotten.
THEOREM RetriesWriteNothing == Spec => []RetryWritesNothingNew
<1>1. Inductive => RetryWritesNothingNew
  BY DEF Inductive
<1> QED
  BY <1>1, Soundness, PTL

\* At most one memory of a key is in force, and it is the end of its chain.
THEOREM MemoriesFormChains == Spec => []VersionsChain
<1>1. Inductive => VersionsChain
  BY DEF Inductive
<1> QED
  BY <1>1, Soundness, PTL

\* No step takes a job that is done out of this status.
THEOREM DoneStaysDone == Spec => DoneIsFinal
<1>1. TypeOK /\ [Next]_vars =>
         [\A j \in Jobs : row[j].status = "done" => row'[j].status = "done"]_vars
  <2> SUFFICES ASSUME TypeOK, Next, NEW j \in Jobs, row[j].status = "done"
               PROVE  row'[j].status = "done"
    BY DEF vars
  <2>1. ASSUME NEW k \in Jobs, NEW r, NEW new, Write(k, r, new) PROVE row'[j] = row[j]
    BY <2>1 DEF Write, Held, TypeOK
  <2>2. ASSUME NEW owners, ReleaseMemoryJobLeases(owners) PROVE row'[j] = row[j]
    BY <2>2 DEF ReleaseMemoryJobLeases
  <2>3. ASSUME NEW r \in Runs, Recover(r) \/ Close(r) PROVE row'[j] = row[j]
    BY <2>2, <2>3 DEF Recover, Close, WriteFault
  <2>4. ASSUME NEW k \in Jobs, Enqueue(k) \/ Tick(k) PROVE row'[j] = row[j]
    BY <2>4 DEF Enqueue, EnqueueMemoryJob, Tick, TypeOK
  <2>5. ASSUME NEW p \in AllWorkers, WorkerStep(p) PROVE row'[j] = row[j]
    <3>1. CASE Claim(p)
      BY <3>1 DEF Claim, Claimable, TypeOK
    <3>2. CASE End(p)
      <4>1. worker[p].job \in Jobs
        BY <3>2, AtWork DEF End
      <4> QED
        BY <2>1, <3>2, <4>1 DEF End, CompleteMemoryJob, RetryMemoryJob, WriteFault
    <3>3. CASE Remember(p) \/ Fail(p) \/ Quit(p)
      BY <3>3 DEF Remember, Fail, Quit
    <3> QED
      BY <2>5, <3>1, <3>2, <3>3 DEF WorkerStep
  <2>6. CASE Start \/ Stop \/ ConnectFails \/ Crash
    BY <2>6 DEF Start, Stop, ConnectFails, Crash
  <2> QED
    BY <2>3, <2>4, <2>5, <2>6 DEF Next
<1> QED
  BY <1>1, TypeCorrect, PTL DEF Spec, DoneIsFinal

\* Whatever jobs, runs and failures there are, a job has one worker, retries
\* write nothing twice, and the memories of a key form one chain.
THEOREM MemoryIsSafe == Spec => []MemorySafe
<1> QED
  BY TypeCorrect, JobsAreExclusive, RetriesWriteNothing, MemoriesFormChains, PTL
     DEF MemorySafe

\* Every set of natural numbers that is not empty has a least one.
LEMMA LeastOf ==
    ASSUME NEW T, T \subseteq Nat, T # {}
    PROVE  \E x \in T : \A y \in T : ~(y < x)
<1>1. \E x \in T : \A y \in T : ~(<<y, x>> \in OpToRel(<, Nat))
  BY NatLessThanWellFounded, WFMin
<1> QED  BY <1>1 DEF OpToRel

\* Induction over the natural numbers, for a set.
LEMMA Counting ==
    ASSUME NEW T, 0 \in T, \A n \in T \cap Nat : n + 1 \in T
    PROVE  Nat \subseteq T
<1> SUFFICES ASSUME Nat \ T # {}  PROVE FALSE
  OBVIOUS
<1>1. PICK x \in Nat \ T : \A y \in Nat \ T : ~(y < x)
  BY LeastOf
<1>2. x # 0 /\ x - 1 \in Nat /\ x - 1 < x /\ x - 1 + 1 = x  OBVIOUS
<1>3. x - 1 \in T  BY <1>1, <1>2
<1> QED  BY <1>1, <1>2, <1>3

-----------------------------------------------------------------------------
(* The budget: what messages cost. *)

\* c is what CostOf has added up after each of the first n messages.
CostAt(ms, is, k) == IF k \in is THEN Cost(ms[k]) ELSE 0
Costing(c, ms, is, n) == c = [k \in 0 .. n |-> IF k = 0 THEN 0 ELSE c[k - 1] + CostAt(ms, is, k)]

\* The sums go on from each message to the next.
LEMMA CostingExtends ==
    ASSUME NEW ms, NEW is, NEW n \in Nat, NEW c, Costing(c, ms, is, n)
    PROVE  \E e : Costing(e, ms, is, n + 1)
<1> DEFINE e == [k \in 0 .. n + 1 |-> IF k = n + 1 THEN c[n] + CostAt(ms, is, k) ELSE c[k]]
<1>1. ASSUME NEW k \in 0 .. n + 1
      PROVE  e[k] = IF k = 0 THEN 0 ELSE e[k - 1] + CostAt(ms, is, k)
  <2>1. CASE k = n + 1
    <3>1. k # 0 /\ k - 1 = n /\ n \in 0 .. n + 1 /\ n # n + 1  BY <2>1
    <3> QED  BY <2>1, <3>1
  <2>2. CASE k # n + 1 /\ k = 0
    <3>1. 0 \in 0 .. n  OBVIOUS
    <3> QED  BY <2>2, <3>1 DEF Costing
  <2>3. CASE k # n + 1 /\ k # 0
    <3>1. k \in 0 .. n /\ k - 1 \in 0 .. n /\ k - 1 \in 0 .. n + 1 /\ k - 1 # n + 1  BY <2>3
    <3>2. c[k] = c[k - 1] + CostAt(ms, is, k)  BY <2>3, <3>1 DEF Costing
    <3> QED  BY <2>3, <3>1, <3>2
  <2> QED  BY <2>1, <2>2, <2>3
<1>2. e = [k \in 0 .. n + 1 |-> IF k = 0 THEN 0 ELSE e[k - 1] + CostAt(ms, is, k)]
  BY <1>1
<1> HIDE DEF e
<1> QED  BY <1>2 DEF Costing

\* CostOf is the last of such sums.
LEMMA CostOfIsCosting ==
    ASSUME NEW ms, NEW is, NEW n \in Nat
    PROVE  \E c : Costing(c, ms, is, n) /\ CostOf(ms, is, n) = c[n]
<1> DEFINE T == {k \in Nat : \E c : Costing(c, ms, is, k)}
<1>1. Costing([k \in 0 .. 0 |-> 0], ms, is, 0)  BY DEF Costing
<1>2. 0 \in T  BY <1>1
<1>3. \A k \in T \cap Nat : k + 1 \in T  BY CostingExtends
<1> HIDE DEF T
<1>4. n \in T  BY <1>2, <1>3, Counting
<1>5. \E c : Costing(c, ms, is, n)  BY <1>4 DEF T
<1>6. CostOf(ms, is, n) = (CHOOSE c : Costing(c, ms, is, n))[n]
  BY DEF CostOf, Costing, CostAt
<1> QED  BY <1>5, <1>6

\* The cost of a set is a number, and at least that of any of its messages.
LEMMA CostIsNatural ==
    ASSUME NEW ms, NEW is, NEW n \in Nat, \A k \in is \cap (1 .. n) : Cost(ms[k]) \in Nat
    PROVE  /\ CostOf(ms, is, n) \in Nat
           /\ \A i \in is \cap (1 .. n) : Cost(ms[i]) <= CostOf(ms, is, n)
<1>1. PICK c : Costing(c, ms, is, n) /\ CostOf(ms, is, n) = c[n]  BY CostOfIsCosting
<1> DEFINE T == {k \in Nat : k <= n => /\ c[k] \in Nat
                                       /\ \A i \in is \cap (1 .. k) : Cost(ms[i]) <= c[k]}
<1>2. 0 \in T
  <2>1. c[0] = 0  BY <1>1 DEF Costing
  <2>2. c[0] \in Nat /\ is \cap (1 .. 0) = {}  BY <2>1
  <2> QED  BY <2>2
<1>3. ASSUME NEW k \in T \cap Nat  PROVE k + 1 \in T
  <2> SUFFICES ASSUME k + 1 <= n
               PROVE  /\ c[k + 1] \in Nat
                      /\ \A i \in is \cap (1 .. k + 1) : Cost(ms[i]) <= c[k + 1]
    OBVIOUS
  <2>0. k \in Nat  OBVIOUS
  <2>1. c[k] \in Nat /\ \A i \in is \cap (1 .. k) : Cost(ms[i]) <= c[k]  OBVIOUS
  <2>2. c[k + 1] = c[k] + CostAt(ms, is, k + 1)
    <3>1. k + 1 \in 0 .. n /\ k + 1 # 0 /\ (k + 1) - 1 = k  OBVIOUS
    <3> QED  BY <1>1, <3>1 DEF Costing
  <2>3. k + 1 \in 1 .. n /\ \A i \in 1 .. k + 1 : (i \in 1 .. k \/ i = k + 1) /\ i \in 1 .. n
    OBVIOUS
  <2>4. CostAt(ms, is, k + 1) \in Nat  BY <2>3 DEF CostAt
  <2> HIDE DEF T
  <2>5. c[k + 1] \in Nat /\ c[k] <= c[k + 1]  BY <2>1, <2>2, <2>4
  <2>6. ASSUME NEW i \in is \cap (1 .. k + 1)  PROVE Cost(ms[i]) <= c[k + 1]
    <3>1. Cost(ms[i]) \in Nat  BY <2>3
    <3>2. CASE i \in 1 .. k
      BY <2>1, <2>5, <3>1, <3>2
    <3>3. CASE i = k + 1
      <4>1. CostAt(ms, is, k + 1) = Cost(ms[i])  BY <3>3 DEF CostAt
      <4> QED  BY <2>1, <2>2, <3>1, <4>1
    <3> QED  BY <2>3, <3>2, <3>3
  <2> QED  BY <2>5, <2>6
<1> HIDE DEF T
<1>4. n \in T  BY <1>2, <1>3, Counting
<1> QED  BY <1>1, <1>4 DEF T

\* Only the messages of the set count.
LEMMA CostOfSame ==
    ASSUME NEW ms, NEW ks, NEW is, NEW js, NEW n \in Nat,
           \A k \in 1 .. n : (k \in is <=> k \in js) /\ (k \in is => ms[k] = ks[k])
    PROVE  CostOf(ms, is, n) = CostOf(ks, js, n)
<1>1. PICK c : Costing(c, ms, is, n) /\ CostOf(ms, is, n) = c[n]  BY CostOfIsCosting
<1>2. PICK d : Costing(d, ks, js, n) /\ CostOf(ks, js, n) = d[n]  BY CostOfIsCosting
<1> DEFINE T == {k \in Nat : k <= n => c[k] = d[k]}
<1>3. 0 \in T  BY <1>1, <1>2 DEF Costing
<1>4. ASSUME NEW k \in T \cap Nat  PROVE k + 1 \in T
  <2> SUFFICES ASSUME k + 1 <= n  PROVE c[k + 1] = d[k + 1]
    OBVIOUS
  <2>1. k + 1 \in 0 .. n /\ k + 1 # 0 /\ (k + 1) - 1 = k /\ k + 1 \in 1 .. n /\ k <= n  OBVIOUS
  <2>2. c[k + 1] = c[k] + CostAt(ms, is, k + 1)  BY <1>1, <2>1 DEF Costing
  <2>3. d[k + 1] = d[k] + CostAt(ks, js, k + 1)  BY <1>2, <2>1 DEF Costing
  <2>4. c[k] = d[k]  BY <2>1
  <2>5. CostAt(ms, is, k + 1) = CostAt(ks, js, k + 1)  BY <2>1 DEF CostAt
  <2> QED  BY <2>2, <2>3, <2>4, <2>5
<1> HIDE DEF T
<1>5. n \in T  BY <1>3, <1>4, Counting
<1> QED  BY <1>1, <1>2, <1>5 DEF T

\* One more message adds its cost.
LEMMA CostOfMore ==
    ASSUME NEW ms, NEW is, NEW n \in Nat, \A k \in is \cap (1 .. n) : Cost(ms[k]) \in Nat,
           NEW i \in (1 .. n) \ is, Cost(ms[i]) \in Nat
    PROVE  CostOf(ms, is \cup {i}, n) = CostOf(ms, is, n) + Cost(ms[i])
<1> DEFINE js == is \cup {i}
<1>1. PICK c : Costing(c, ms, is, n) /\ CostOf(ms, is, n) = c[n]  BY CostOfIsCosting
<1>2. PICK d : Costing(d, ms, js, n) /\ CostOf(ms, js, n) = d[n]  BY CostOfIsCosting
<1> DEFINE T == {k \in Nat : k <= n => c[k] \in Int /\ d[k] = c[k] + (IF i <= k THEN Cost(ms[i]) ELSE 0)}
<1>3. 0 \in T
  <2>1. c[0] = 0 /\ d[0] = 0  BY <1>1, <1>2 DEF Costing
  <2>2. ~(i <= 0)  OBVIOUS
  <2> QED  BY <2>1, <2>2
<1>4. ASSUME NEW k \in T \cap Nat  PROVE k + 1 \in T
  <2> SUFFICES ASSUME k + 1 <= n
               PROVE  c[k + 1] \in Int /\ d[k + 1] = c[k + 1] + (IF i <= k + 1 THEN Cost(ms[i]) ELSE 0)
    OBVIOUS
  <2>1. k + 1 \in 0 .. n /\ k + 1 # 0 /\ (k + 1) - 1 = k /\ k + 1 \in 1 .. n /\ k <= n  OBVIOUS
  <2>2. c[k + 1] = c[k] + CostAt(ms, is, k + 1)  BY <1>1, <2>1 DEF Costing
  <2>3. d[k + 1] = d[k] + CostAt(ms, js, k + 1)  BY <1>2, <2>1 DEF Costing
  <2>4. c[k] \in Int /\ d[k] = c[k] + (IF i <= k THEN Cost(ms[i]) ELSE 0)  BY <2>1
  <2>5. k \in Nat /\ i \in Nat  OBVIOUS
  <2> DEFINE x == c[k]  y == CostAt(ms, is, k + 1)  z == CostAt(ms, js, k + 1)  m == Cost(ms[i])
  <2>6. y \in Nat /\ (k + 1 = i => y = 0 /\ z = m) /\ (k + 1 # i => z = y)
    BY <2>1 DEF CostAt
  <2>7. m \in Nat /\ x \in Int  BY <2>4
  <2>8. c[k + 1] = x + y /\ d[k + 1] = (x + (IF i <= k THEN m ELSE 0)) + z
    BY <2>2, <2>3, <2>4
  <2> HIDE DEF x, y, z, m, T, js
  <2>9. d[k + 1] = c[k + 1] + (IF i <= k + 1 THEN m ELSE 0) /\ c[k + 1] \in Int
    <3>1. CASE i <= k
      BY <2>5, <2>6, <2>7, <2>8, <3>1
    <3>2. CASE i = k + 1
      BY <2>5, <2>6, <2>7, <2>8, <3>2
    <3>3. CASE i > k + 1
      BY <2>5, <2>6, <2>7, <2>8, <3>3
    <3> QED  BY <2>5, <3>1, <3>2, <3>3
  <2> QED  BY <2>9 DEF m
<1> HIDE DEF T
<1>5. n \in T  BY <1>3, <1>4, Counting
<1>6. i <= n  OBVIOUS
<1> HIDE DEF js
<1>7. CostOf(ms, js, n) = CostOf(ms, is, n) + Cost(ms[i])  BY <1>1, <1>2, <1>5, <1>6 DEF T
<1> QED  BY <1>7 DEF js

-----------------------------------------------------------------------------
(* The budget: selections. *)

\* A message costs more than nothing.
LEMMA CostsOfPrompts ==
    ASSUME NEW m \in Prompts
    PROVE  Cost(m) \in Nat /\ Cost(m) > 0
BY BudgetConstants DEF Cost, Prompts

\* A message that is cut keeps to its tokens, but for the markup when there is
\* no room for it.
LEMMA TrimmedCosts ==
    ASSUME NEW m \in Prompts, NEW tokens \in Int, tokens > Overhead
    PROVE  /\ Trimmed(m, tokens) \in Prompts
           /\ Cost(Trimmed(m, tokens)) <= tokens + Markup
           /\ tokens > Overhead + Markup => Cost(Trimmed(m, tokens)) <= tokens
<1> DEFINE room == tokens - Overhead
           text == Least(m.text, IF m.parts /\ room > Markup THEN room - Markup ELSE room)
           image == IF Markup + text + m.image > room THEN 0 ELSE m.image
           t == [m EXCEPT !.text = text, !.image = image]
<1>1. Overhead \in Nat /\ Markup \in Nat  BY BudgetConstants
<1>2. m.text \in Nat /\ m.image \in Nat /\ m.parts \in BOOLEAN  BY DEF Prompts
<1>3. room \in Nat \ {0} /\ tokens = Overhead + room  BY <1>1
<1> HIDE DEF room
<1>4. /\ text \in Nat /\ text <= room
      /\ m.parts /\ room > Markup => text + Markup <= room
  BY <1>1, <1>2, <1>3 DEF Least
<1> HIDE DEF text
<1>5. /\ image \in Nat
      /\ image = 0 \/ Markup + text + image <= room
  BY <1>1, <1>2, <1>3, <1>4
<1> HIDE DEF image
<1>6. Trimmed(m, tokens) = t  BY DEF Trimmed, room, text, image
<1>7. t \in Prompts /\ t.text = text /\ t.image = image /\ t.parts = m.parts
  BY <1>4, <1>5 DEF Prompts
<1> HIDE DEF t
<1>8. Cost(t) = Overhead + text + (IF m.parts THEN Markup + image ELSE 0)
  BY <1>7 DEF Cost
<1>9. Cost(t) <= tokens + Markup
  BY <1>1, <1>2, <1>3, <1>4, <1>5, <1>8
<1>10. tokens > Overhead + Markup => Cost(t) <= tokens
  BY <1>1, <1>2, <1>3, <1>4, <1>5, <1>8
<1> QED  BY <1>6, <1>7, <1>9, <1>10

\* A selection among the first n messages of what the budget is for
Selects(sel, n, budget) ==
    /\ sel.left \in Int /\ sel.left + Markup >= 0
    /\ DOMAIN sel.kept \subseteq 1 .. n
    /\ \A i \in DOMAIN sel.kept : sel.kept[i] \in Prompts
    /\ sel.left + CostOf(sel.kept, DOMAIN sel.kept, n) = budget

\* Keeping one more message, for no more than what is left and the markup,
\* counts it and leaves the others as they are.
LEMMA KeepSelects ==
    ASSUME NEW sel, NEW n \in Nat, NEW budget, Selects(sel, n, budget),
           NEW i \in (1 .. n) \ DOMAIN sel.kept, NEW m \in Prompts, Cost(m) <= sel.left + Markup
    PROVE  /\ Selects(Keep(sel, i, m), n, budget)
           /\ Keep(sel, i, m).left = sel.left - Cost(m)
           /\ DOMAIN Keep(sel, i, m).kept = DOMAIN sel.kept \cup {i}
           /\ Keep(sel, i, m).kept[i] = m
           /\ \A j \in DOMAIN sel.kept : Keep(sel, i, m).kept[j] = sel.kept[j]
<1> DEFINE is == DOMAIN sel.kept  js == is \cup {i}
           kept == [j \in js |-> IF j = i THEN m ELSE sel.kept[j]]
           left == sel.left - Cost(m)
<1>1. Keep(sel, i, m) = [left |-> left, kept |-> kept]  BY DEF Keep
<1>2. DOMAIN kept = js /\ kept[i] = m /\ \A j \in is : kept[j] = sel.kept[j]
  OBVIOUS
<1>3. \A j \in js : kept[j] \in Prompts  BY DEF Selects
<1>4. Cost(m) \in Nat /\ \A j \in js : Cost(kept[j]) \in Nat  BY <1>3, CostsOfPrompts
<1> HIDE DEF kept
<1>5. CostOf(kept, js, n) = CostOf(kept, is, n) + Cost(m)
  BY <1>2, <1>4, CostOfMore
<1>6. CostOf(kept, is, n) = CostOf(sel.kept, is, n)
  BY <1>2, CostOfSame
<1>7. CostOf(sel.kept, is, n) \in Nat
  <2>1. \A j \in is : Cost(sel.kept[j]) \in Nat  BY <1>2, <1>4
  <2> QED  BY <2>1, CostIsNatural
<1>8. left \in Int /\ left + Markup >= 0 /\ js \subseteq 1 .. n
  BY <1>4, BudgetConstants DEF Selects
<1>9. left + CostOf(kept, js, n) = budget
  <2>1. sel.left \in Int /\ sel.left + CostOf(sel.kept, is, n) = budget  BY DEF Selects
  <2> QED  BY <1>4, <1>5, <1>6, <1>7, <2>1
<1> DEFINE k == Keep(sel, i, m)
<1>10. k.left = left /\ k.kept = kept  BY <1>1
<1> HIDE DEF k, left, js
<1>11. Selects(k, n, budget)  BY <1>2, <1>3, <1>8, <1>9, <1>10 DEF Selects
<1> QED  BY <1>2, <1>10, <1>11 DEF k, left, js

\* To begin with nothing is kept; what is kept whole costs what it costs.
LEMMA WholeSelects ==
    ASSUME NEW ms \in Seq(Prompts), NEW budget \in Nat, NEW is, is \subseteq DOMAIN ms,
           CostOf(ms, is, Len(ms)) <= budget
    PROVE  LET k == KeepWhole(ms, [left |-> budget, kept |-> <<>>], is) IN
           /\ Selects(k, Len(ms), budget) /\ k.left = budget - CostOf(ms, is, Len(ms))
           /\ DOMAIN k.kept = is /\ \A i \in is : k.kept[i] = ms[i]
<1> DEFINE n == Len(ms)  none == [left |-> budget, kept |-> <<>>]
           kept == [j \in is |-> ms[j]]  left == budget - CostOf(ms, is, n)
           k == KeepWhole(ms, none, is)
<1>1. n \in Nat /\ DOMAIN ms = 1 .. n  BY LenProperties
<1>2. k = [left |-> left, kept |-> kept]
  <2>1. DOMAIN <<>> = {}  OBVIOUS
  <2>2. none.left = budget /\ none.kept = <<>>  OBVIOUS
  <2> HIDE DEF none
  <2>3. DOMAIN none.kept \cup is = is  BY <2>1, <2>2
  <2>4. [j \in is |-> IF j \in is THEN ms[j] ELSE none.kept[j]] = kept  OBVIOUS
  <2> QED  BY <2>2, <2>3, <2>4 DEF KeepWhole
<1>3. DOMAIN kept = is /\ \A i \in is : kept[i] = ms[i]  OBVIOUS
<1>4. \A i \in is : kept[i] \in Prompts
  <2>1. \A i \in 1 .. n : ms[i] \in Prompts  BY <1>1, ElementOfSeq
  <2> QED  BY <1>1, <1>3, <2>1
<1>5. \A i \in is : Cost(ms[i]) \in Nat  BY <1>3, <1>4, CostsOfPrompts
<1>6. CostOf(ms, is, n) \in Nat  BY <1>1, <1>5, CostIsNatural
<1> HIDE DEF kept
<1>7. CostOf(kept, is, n) = CostOf(ms, is, n)  BY <1>1, <1>3, CostOfSame
<1>8. left \in Int /\ left >= 0 /\ left + CostOf(kept, is, n) = budget
  BY <1>6, <1>7
<1>9. k.left = left /\ k.kept = kept  BY <1>2
<1> HIDE DEF k, left
<1>10. Selects(k, n, budget)
  BY <1>1, <1>3, <1>4, <1>8, <1>9, BudgetConstants DEF Selects
<1> QED  BY <1>3, <1>9, <1>10 DEF k, left

-----------------------------------------------------------------------------
(* The budget: shares. *)

\* A share is more than the overhead and no more than what is left, and leaves
\* the least for each of the others if there is as much.
LEMMA SharesFit ==
    ASSUME NEW left \in Int, left > Overhead, NEW cost \in Nat, NEW costs \in Nat \ {0},
           NEW others \in Nat
    PROVE  LET share == Share(left, cost, costs, others) IN
           /\ share \in Int /\ share > Overhead /\ share <= left
           /\ left >= (others + 1) * Minimum =>
                 share > Overhead + Markup /\ left - share >= others * Minimum
<1> DEFINE wanted == (left * cost) \div costs  theirs == others * Minimum
           share == Least(Greatest(Least(wanted, left - theirs), Minimum), left)
<1>1. /\ Overhead \in Nat /\ Markup \in Nat /\ Minimum \in Nat
      /\ 0 < Overhead /\ Overhead + Markup < Minimum
  BY BudgetConstants
<1>2. left * cost \in Int  OBVIOUS
<1>3. wanted \in Int
  <2> DEFINE product == left * cost
  <2>1. product \in Int  BY <1>2
  <2> HIDE DEF product
  <2>2. product \div costs \in Int  BY <2>1
  <2> QED  BY <2>2 DEF product
<1>4. theirs \in Nat /\ (others + 1) * Minimum = theirs + Minimum  BY <1>1
<1>5. Share(left, cost, costs, others) = share  BY DEF Share
<1> HIDE DEF wanted, theirs
<1>6. share \in Int /\ share > Overhead /\ share <= left
  BY <1>1, <1>3, <1>4 DEF Least, Greatest
<1>7. left >= theirs + Minimum => share > Overhead + Markup /\ left - share >= theirs
  BY <1>1, <1>3, <1>4 DEF Least, Greatest
<1> HIDE DEF share
<1> QED  BY <1>4, <1>5, <1>6, <1>7 DEF theirs

\* What is still to come among the messages that share what is left
After(is, i) == {j \in is : j > i}

\* Places of a conversation, of which there are as many as messages
LEMMA PlacesAreFinite ==
    ASSUME NEW n \in Nat, NEW is, is \subseteq 1 .. n
    PROVE  IsFiniteSet(is) /\ \A j \in is : j \in Nat /\ j > 0
<1>1. 1 \in Int /\ n \in Int  OBVIOUS
<1>2. IsFiniteSet(1 .. n)  BY <1>1, FS_Interval
<1>3. IsFiniteSet(is)  BY <1>2, FS_Subset
<1>4. \A j \in is : j \in Nat /\ j > 0  OBVIOUS
<1> QED  BY <1>3, <1>4

\* One message less is still to come after one of them.
LEMMA AfterNext ==
    ASSUME NEW n \in Nat, NEW is, is \subseteq 1 .. n, NEW i \in Nat
    PROVE  \A h : h = i + 1 =>
              /\ Cardinality(After(is, i)) \in Nat /\ Cardinality(After(is, h)) \in Nat
              /\ h \in is => Cardinality(After(is, i)) = Cardinality(After(is, h)) + 1
              /\ h \notin is => After(is, i) = After(is, h)
<1> SUFFICES ASSUME NEW h, h = i + 1
             PROVE  /\ Cardinality(After(is, i)) \in Nat /\ Cardinality(After(is, h)) \in Nat
                    /\ h \in is => Cardinality(After(is, i)) = Cardinality(After(is, h)) + 1
                    /\ h \notin is => After(is, i) = After(is, h)
  OBVIOUS
<1>1. IsFiniteSet(is) /\ \A j \in is : j \in Nat /\ j > 0  BY PlacesAreFinite
<1>2. IsFiniteSet(After(is, i)) /\ IsFiniteSet(After(is, h))
  <2>1. After(is, i) \subseteq is /\ After(is, h) \subseteq is  BY DEF After
  <2>2. IsFiniteSet(After(is, i))  BY <1>1, <2>1, FS_Subset
  <2>3. IsFiniteSet(After(is, h))  BY <1>1, <2>1, FS_Subset
  <2> QED  BY <2>2, <2>3
<1>3. Cardinality(After(is, i)) \in Nat  BY <1>2, FS_CardinalityType
<1>4. Cardinality(After(is, h)) \in Nat  BY <1>2, FS_CardinalityType
<1>5. \A j \in is : j \in Nat /\ j > 0  BY <1>1
<1>7. ASSUME h \in is  PROVE Cardinality(After(is, i)) = Cardinality(After(is, h)) + 1
  <2>1. h \notin After(is, h)  BY <1>5, <1>7 DEF After
  <2>2. \A j : j \in After(is, i) <=> j \in After(is, h) \/ j = h
    <3>1. \A j \in is : j > i <=> j > h \/ j = h
      <4> SUFFICES ASSUME NEW j \in is  PROVE j > i <=> j > h \/ j = h
        OBVIOUS
      <4>1. j \in Nat  BY <1>5
      <4> QED  BY <4>1
    <3> QED  BY <1>7, <3>1 DEF After
  <2> DEFINE more == After(is, h)
  <2>3. After(is, i) = more \cup {h}  BY <2>2
  <2>4. IsFiniteSet(more) /\ h \notin more  BY <1>2, <2>1
  <2> HIDE DEF more
  <2>5. Cardinality(more \cup {h}) = Cardinality(more) + 1  BY <2>4, FS_AddElement
  <2> QED  BY <2>3, <2>5 DEF more
<1>8. ASSUME h \notin is  PROVE After(is, i) = After(is, h)
  <2>1. \A j \in is : j > i <=> j > h
    <3> SUFFICES ASSUME NEW j \in is  PROVE j > i <=> j > h
      OBVIOUS
    <3>1. j \in Nat /\ j # h  BY <1>5, <1>8
    <3> QED  BY <3>1
  <2> QED  BY <2>1 DEF After
<1> QED  BY <1>3, <1>4, <1>7, <1>8

\* A conversation of n messages
Conversation(ms, n) == ms \in Seq(Prompts) /\ n = Len(ms)

\* Where KeepProportionally is after the first i messages: it keeps what was
\* kept, and with the least for each it has kept every one so far and has as
\* much for the others.
SharedTo(ms, sel, is, s, i, budget) ==
    /\ Selects(s, Len(ms), budget)
    /\ DOMAIN sel.kept \subseteq DOMAIN s.kept
    /\ \A j \in DOMAIN s.kept : j \in DOMAIN sel.kept \/ (j \in is /\ j <= i)
    /\ \A j \in DOMAIN sel.kept : s.kept[j] = sel.kept[j]
    /\ sel.left >= Cardinality(is) * Minimum =>
          /\ s.left >= Cardinality(After(is, i)) * Minimum
          /\ \A j \in is : j <= i => j \in DOMAIN s.kept

\* The next message gets its share: enough for it, and enough is left for the
\* others.
LEMMA ShareIsKept ==
    ASSUME NEW ms, NEW n \in Nat, Conversation(ms, n), NEW sel, NEW is, is \subseteq 1 .. n,
           is \cap DOMAIN sel.kept = {}, NEW budget, NEW i \in Nat, i + 1 <= n,
           NEW s, SharedTo(ms, sel, is, s, i, budget)
    PROVE  SharedTo(ms, sel, is, KeepShare(ms, s, is, i + 1), i + 1, budget)
<1>a. IsFiniteSet(is) /\ \A j \in is : j \in Nat /\ j > 0  BY PlacesAreFinite
<1>b. \A h : h = i + 1 =>
         /\ Cardinality(After(is, i)) \in Nat /\ Cardinality(After(is, h)) \in Nat
         /\ h \in is => Cardinality(After(is, i)) = Cardinality(After(is, h)) + 1
         /\ h \notin is => After(is, i) = After(is, h)
  BY AfterNext
<1> DEFINE next == i + 1  k == KeepShare(ms, s, is, next)
           enough == sel.left >= Cardinality(is) * Minimum
           others == After(is, next)  costs == CostOf(ms, others \cup {next}, n)
           share == Share(s.left, Cost(ms[next]), costs, Cardinality(others))
           m == Trimmed(ms[next], share)
<1>1. DOMAIN ms = 1 .. n /\ \A j \in 1 .. n : ms[j] \in Prompts
  BY LenProperties, ElementOfSeq DEF Conversation
<1>n. n = Len(ms)  BY DEF Conversation
<1>2. next \in 1 .. n /\ next \in Nat /\ next = i + 1  OBVIOUS
<1>3. /\ Cardinality(After(is, i)) \in Nat /\ Cardinality(others) \in Nat
      /\ next \in is => Cardinality(After(is, i)) = Cardinality(others) + 1
      /\ next \notin is => After(is, i) = others
  BY <1>b DEF others, next
<1>4. KeepShare(ms, s, is, next) =
         IF next \notin is \/ s.left <= Overhead THEN s ELSE Keep(s, next, m)
  BY <1>n DEF KeepShare, After
<1>5. /\ Overhead \in Nat /\ Markup \in Nat /\ Minimum \in Nat
      /\ 0 < Overhead /\ Overhead + Markup < Minimum
  BY BudgetConstants
<1>6. s.left \in Int  BY DEF SharedTo, Selects
<1> HIDE DEF m, k, others, share, costs, enough, next
<1>7. /\ Selects(s, n, budget) /\ DOMAIN sel.kept \subseteq DOMAIN s.kept
      /\ \A j \in DOMAIN s.kept : j \in DOMAIN sel.kept \/ (j \in is /\ j <= i)
      /\ \A j \in DOMAIN sel.kept : s.kept[j] = sel.kept[j]
      /\ enough => /\ s.left >= Cardinality(After(is, i)) * Minimum
                   /\ \A j \in is : j <= i => j \in DOMAIN s.kept
  <2>1. /\ Selects(s, n, budget) /\ DOMAIN sel.kept \subseteq DOMAIN s.kept
        /\ \A j \in DOMAIN s.kept : j \in DOMAIN sel.kept \/ (j \in is /\ j <= i)
        /\ \A j \in DOMAIN sel.kept : s.kept[j] = sel.kept[j]
    BY <1>n DEF SharedTo
  <2>2. enough => /\ s.left >= Cardinality(After(is, i)) * Minimum
                  /\ \A j \in is : j <= i => j \in DOMAIN s.kept
    BY DEF SharedTo, enough
  <2> QED  BY <2>1, <2>2
<1>8. \A j \in is : j \in Nat /\ (j <= next => j <= i \/ j = next)
  <2>1. \A j \in Nat : j <= next => j <= i \/ j = next  BY <1>2
  <2> QED  BY <1>a, <2>1
<1>0. ASSUME NEW j \in is, j <= i  PROVE j <= next
  <2>1. j \in Nat  BY <1>8
  <2> QED  BY <1>0, <1>2, <2>1
<1>9. CASE next \notin is
  <2>1. k = s  BY <1>4, <1>9 DEF k
  <2>2. Selects(k, n, budget)  BY <1>7, <2>1
  <2>3. \A j \in DOMAIN k.kept : j \in DOMAIN sel.kept \/ (j \in is /\ j <= next)
    BY <1>0, <1>7, <2>1
  <2>4. enough => /\ k.left >= Cardinality(others) * Minimum
                  /\ \A j \in is : j <= next => j \in DOMAIN k.kept
    BY <1>3, <1>7, <1>8, <1>9, <2>1
  <2> QED  BY <1>n, <1>7, <2>1, <2>2, <2>3, <2>4 DEF SharedTo, k, others, enough, next
<1>10. CASE next \in is /\ s.left <= Overhead
  <2>1. k = s  BY <1>4, <1>10 DEF k
  <2>2. ~enough
    <3> SUFFICES ASSUME enough  PROVE FALSE
      OBVIOUS
    <3>1. s.left >= Cardinality(After(is, i)) * Minimum  BY <1>7
    <3>2. Cardinality(After(is, i)) = Cardinality(others) + 1  BY <1>3, <1>10
    <3> DEFINE c == Cardinality(others)  theirs == c * Minimum
    <3>3. theirs \in Nat /\ (c + 1) * Minimum = theirs + Minimum  BY <1>3, <1>5
    <3> HIDE DEF theirs
    <3>4. s.left >= (c + 1) * Minimum  BY <3>1, <3>2
    <3> HIDE DEF c
    <3>5. s.left >= theirs + Minimum  BY <3>3, <3>4
    <3>6. s.left <= Overhead  BY <1>10
    <3> QED  BY <1>5, <1>6, <3>3, <3>5, <3>6
  <2>3. \A j \in DOMAIN k.kept : j \in DOMAIN sel.kept \/ (j \in is /\ j <= next)
    BY <1>0, <1>7, <2>1
  <2> QED  BY <1>n, <1>7, <2>1, <2>2, <2>3 DEF SharedTo, k, enough, next
<1>11. CASE next \in is /\ ~(s.left <= Overhead)
  <2>1. s.left > Overhead  BY <1>5, <1>6, <1>11
  <2>2. Cost(ms[next]) \in Nat /\ ms[next] \in Prompts  BY <1>1, <1>2, CostsOfPrompts
  <2>3. costs \in Nat \ {0}
    <3> DEFINE all == others \cup {next}
    <3>1. all \subseteq 1 .. n  BY <1>2 DEF others, After
    <3>2. \A j \in all : Cost(ms[j]) \in Nat /\ Cost(ms[j]) > 0  BY <1>1, <3>1, CostsOfPrompts
    <3>3. CostOf(ms, all, n) \in Nat /\ \A j \in all \cap (1 .. n) : Cost(ms[j]) <= CostOf(ms, all, n)
      <4>1. \A j \in all \cap (1 .. n) : Cost(ms[j]) \in Nat  BY <3>2
      <4>2. n \in Nat  BY <1>1
      <4> HIDE DEF all
      <4> QED  BY <4>1, <4>2, CostIsNatural
    <3>4. next \in all \cap (1 .. n)  BY <1>2
    <3>5. costs = CostOf(ms, all, n)  BY DEF costs
    <3> HIDE DEF all
    <3> QED  BY <3>2, <3>3, <3>4, <3>5
  <2> DEFINE c == Cardinality(others)
  <2>4. c \in Nat  BY <1>3
  <2>5. /\ share \in Int /\ share > Overhead /\ share <= s.left
        /\ s.left >= (c + 1) * Minimum =>
              share > Overhead + Markup /\ s.left - share >= c * Minimum
    <3> HIDE DEF c
    <3>1. share = Share(s.left, Cost(ms[next]), costs, c)  BY DEF share, c
    <3> QED  BY <1>6, <2>1, <2>2, <2>3, <2>4, <3>1, SharesFit
  <2>6. /\ m \in Prompts /\ Cost(m) <= share + Markup
        /\ share > Overhead + Markup => Cost(m) <= share
    BY <2>2, <2>5, TrimmedCosts DEF m
  <2>7. Cost(m) \in Nat  BY <2>6, CostsOfPrompts
  <2>8. next \in (1 .. n) \ DOMAIN s.kept
    <3>1. ~(next <= i)  BY <1>2
    <3> QED  BY <1>2, <1>7, <1>11, <3>1
  <2>9. Cost(m) <= s.left + Markup  BY <1>5, <1>6, <2>5, <2>6, <2>7
  <2>10. k = Keep(s, next, m)  BY <1>4, <1>11 DEF k
  <2>11. /\ Selects(k, n, budget) /\ k.left = s.left - Cost(m)
         /\ DOMAIN k.kept = DOMAIN s.kept \cup {next}
         /\ \A j \in DOMAIN s.kept : k.kept[j] = s.kept[j]
    <3>1. n \in Nat  OBVIOUS
    <3>2. Selects(s, n, budget)  BY <1>7
    <3>3. m \in Prompts  BY <2>6
    <3>4. /\ Selects(Keep(s, next, m), n, budget)
          /\ Keep(s, next, m).left = s.left - Cost(m)
          /\ DOMAIN Keep(s, next, m).kept = DOMAIN s.kept \cup {next}
          /\ \A j \in DOMAIN s.kept : Keep(s, next, m).kept[j] = s.kept[j]
      BY <2>8, <2>9, <3>1, <3>2, <3>3, KeepSelects
    <3> QED  BY <2>10, <3>4
  <2>12. \A j \in DOMAIN k.kept : j \in DOMAIN sel.kept \/ (j \in is /\ j <= next)
    <3>1. \A j \in DOMAIN k.kept : j \in DOMAIN s.kept \/ j = next  BY <2>11
    <3>2. next \in is /\ next <= next  BY <1>2, <1>11
    <3> QED  BY <1>0, <1>7, <3>1, <3>2
  <2>13. DOMAIN sel.kept \subseteq DOMAIN k.kept /\ \A j \in DOMAIN sel.kept : k.kept[j] = sel.kept[j]
    BY <1>7, <2>11
  <2>14. enough => /\ k.left >= Cardinality(others) * Minimum
                   /\ \A j \in is : j <= next => j \in DOMAIN k.kept
    <3> SUFFICES ASSUME enough
                 PROVE  /\ k.left >= c * Minimum
                        /\ \A j \in is : j <= next => j \in DOMAIN k.kept
      OBVIOUS
    <3>1. s.left >= (c + 1) * Minimum  BY <1>3, <1>7, <1>11
    <3>2. Cost(m) <= share /\ s.left - share >= c * Minimum  BY <2>5, <2>6, <3>1
    <3> DEFINE theirs == c * Minimum
    <3>3. theirs \in Nat  BY <1>5, <2>4
    <3> HIDE DEF theirs
    <3>4. k.left >= theirs  BY <1>6, <2>5, <2>7, <2>11, <3>2, <3>3 DEF theirs
    <3>5. \A j \in is : j <= next => j \in DOMAIN k.kept  BY <1>7, <1>8, <2>11
    <3> QED  BY <3>4, <3>5 DEF theirs
  <2> QED  BY <1>n, <2>11, <2>12, <2>13, <2>14 DEF SharedTo, k, others, enough, next
<1> QED  BY <1>9, <1>10, <1>11 DEF k, next

\* sharing is what KeepProportionally has done after each message.
Sharing(sharing, ms, sel, is, n) ==
    sharing = [i \in 0 .. n |-> IF i = 0 THEN sel ELSE KeepShare(ms, sharing[i - 1], is, i)]

\* It goes on from each message to the next.
LEMMA SharingExtends ==
    ASSUME NEW ms, NEW sel, NEW is, NEW n \in Nat, NEW c, Sharing(c, ms, sel, is, n)
    PROVE  \E e : Sharing(e, ms, sel, is, n + 1)
<1> DEFINE e == [k \in 0 .. n + 1 |-> IF k = n + 1 THEN KeepShare(ms, c[n], is, k) ELSE c[k]]
<1>1. ASSUME NEW k \in 0 .. n + 1
      PROVE  e[k] = IF k = 0 THEN sel ELSE KeepShare(ms, e[k - 1], is, k)
  <2>1. CASE k = n + 1
    <3>1. k # 0 /\ k - 1 = n /\ n \in 0 .. n + 1 /\ n # n + 1  BY <2>1
    <3> QED  BY <2>1, <3>1
  <2>2. CASE k # n + 1 /\ k = 0
    <3>1. 0 \in 0 .. n  OBVIOUS
    <3> QED  BY <2>2, <3>1 DEF Sharing
  <2>3. CASE k # n + 1 /\ k # 0
    <3>1. k \in 0 .. n /\ k - 1 \in 0 .. n /\ k - 1 \in 0 .. n + 1 /\ k - 1 # n + 1  BY <2>3
    <3>2. c[k] = KeepShare(ms, c[k - 1], is, k)  BY <2>3, <3>1 DEF Sharing
    <3> QED  BY <2>3, <3>1, <3>2
  <2> QED  BY <2>1, <2>2, <2>3
<1>2. e = [k \in 0 .. n + 1 |-> IF k = 0 THEN sel ELSE KeepShare(ms, e[k - 1], is, k)]
  BY <1>1
<1> HIDE DEF e
<1> QED  BY <1>2 DEF Sharing

\* What messages of a set get of what is left: it stays within the budget, what
\* was kept is as it was, and with the least for each every one of them is kept.
LEMMA ProportionsSelect ==
    ASSUME NEW ms, NEW n \in Nat, Conversation(ms, n), NEW is, is \subseteq 1 .. n,
           NEW sel, is \cap DOMAIN sel.kept = {}, NEW budget, Selects(sel, n, budget)
    PROVE  LET k == KeepProportionally(ms, sel, is) IN
           /\ Selects(k, n, budget)
           /\ DOMAIN sel.kept \subseteq DOMAIN k.kept
           /\ DOMAIN k.kept \subseteq DOMAIN sel.kept \cup is
           /\ \A j \in DOMAIN sel.kept : k.kept[j] = sel.kept[j]
           /\ sel.left >= Cardinality(is) * Minimum => is \subseteq DOMAIN k.kept
<1>0. n = Len(ms)  BY DEF Conversation
<1> DEFINE T == {i \in Nat : \E c : Sharing(c, ms, sel, is, i)}
           k == KeepProportionally(ms, sel, is)
<1>1. Sharing([i \in 0 .. 0 |-> sel], ms, sel, is, 0)  BY DEF Sharing
<1>2. 0 \in T  BY <1>1
<1>3. \A i \in T \cap Nat : i + 1 \in T  BY SharingExtends
<1> HIDE DEF T
<1>4. n \in T  BY <1>2, <1>3, Counting
<1>5. \E c : Sharing(c, ms, sel, is, n)  BY <1>4 DEF T
<1>6. k = (CHOOSE c : Sharing(c, ms, sel, is, n))[n]
  BY <1>0 DEF KeepProportionally, Sharing
<1>7. PICK c : Sharing(c, ms, sel, is, n) /\ k = c[n]  BY <1>5, <1>6
<1> HIDE DEF k
<1> DEFINE S == {i \in Nat : i <= n => SharedTo(ms, sel, is, c[i], i, budget)}
<1>8. 0 \in S
  <2>1. c[0] = sel  BY <1>7 DEF Sharing
  <2>2. \A j \in is : j \in Nat /\ ~(j <= 0) /\ j > 0  OBVIOUS
  <2>3. After(is, 0) = is  BY <2>2 DEF After
  <2>4. SharedTo(ms, sel, is, sel, 0, budget)  BY <1>0, <2>2, <2>3 DEF SharedTo
  <2> QED  BY <2>1, <2>4
<1>9. ASSUME NEW i \in S \cap Nat  PROVE i + 1 \in S
  <2> SUFFICES ASSUME i + 1 <= n  PROVE SharedTo(ms, sel, is, c[i + 1], i + 1, budget)
    OBVIOUS
  <2>1. i \in Nat /\ i <= n /\ SharedTo(ms, sel, is, c[i], i, budget)  OBVIOUS
  <2>2. c[i + 1] = KeepShare(ms, c[i], is, i + 1)
    <3>1. i + 1 \in 0 .. n /\ i + 1 # 0 /\ (i + 1) - 1 = i  OBVIOUS
    <3> QED  BY <1>7, <3>1 DEF Sharing
  <2> HIDE DEF S
  <2> DEFINE s == c[i]
  <2>3. SharedTo(ms, sel, is, s, i, budget) /\ i + 1 <= n  BY <2>1
  <2> HIDE DEF s
  <2>4. SharedTo(ms, sel, is, KeepShare(ms, s, is, i + 1), i + 1, budget)
    BY <2>1, <2>3, ShareIsKept, ZenonT(30)
  <2> QED  BY <2>2, <2>4 DEF s
<1> HIDE DEF S
<1>10. n \in S  BY <1>8, <1>9, Counting
<1>11. SharedTo(ms, sel, is, k, n, budget)  BY <1>7, <1>10 DEF S
<1>12. ASSUME NEW j \in is  PROVE j <= n
  <2>1. j \in 1 .. n  OBVIOUS
  <2> QED  BY <2>1
<1>13. /\ Selects(k, n, budget) /\ DOMAIN sel.kept \subseteq DOMAIN k.kept
       /\ \A j \in DOMAIN k.kept : j \in DOMAIN sel.kept \cup is
       /\ \A j \in DOMAIN sel.kept : k.kept[j] = sel.kept[j]
       /\ sel.left >= Cardinality(is) * Minimum => \A j \in is : j \in DOMAIN k.kept
  BY <1>0, <1>11, <1>12 DEF SharedTo
<1> QED  BY <1>13 DEF k

-----------------------------------------------------------------------------
(* The budget: the other messages, in the order of their priorities. *)

\* Among messages there is a foremost one.
LEMMA ForemostIsOne ==
    ASSUME NEW ms, NEW n \in Nat, Conversation(ms, n), NEW is, is \subseteq 1 .. n, is # {}
    PROVE  Foremost(ms, is) \in is
<1>1. DOMAIN ms = 1 .. n /\ \A j \in 1 .. n : ms[j] \in Prompts
  BY LenProperties, ElementOfSeq DEF Conversation
<1>2. ASSUME NEW j \in is  PROVE ms[j].priority \in Nat /\ ms[j].priority <= Current
  <2>1. ms[j] \in Prompts  BY <1>1
  <2> QED  BY <2>1 DEF Prompts, History, Summary, Memory, System, Plugin, Current
<1> DEFINE T == {Current - ms[j].priority : j \in is}
<1>3. T \subseteq Nat /\ T # {}
  <2>1. \A j \in is : Current - ms[j].priority \in Nat  BY <1>2 DEF Current
  <2> QED  BY <2>1
<1>4. PICK x \in T : \A y \in T : ~(y < x)  BY <1>3, LeastOf
<1>5. PICK a \in is : x = Current - ms[a].priority  BY <1>4
<1>6. ASSUME NEW j \in is  PROVE ms[a].priority >= ms[j].priority
  <2>1. Current - ms[j].priority \in T  OBVIOUS
  <2> HIDE DEF T
  <2>2. ~(Current - ms[j].priority < Current - ms[a].priority)  BY <1>4, <1>5, <2>1
  <2> QED  BY <1>2, <2>2 DEF Current
<1> DEFINE highest == {j \in is : ms[j].priority = ms[a].priority}  U == {n - j : j \in highest}
<1>7. U \subseteq Nat /\ U # {}
  <2>1. a \in highest  OBVIOUS
  <2>2. ASSUME NEW j \in is  PROVE n - j \in Nat
    <3>1. j \in 1 .. n  OBVIOUS
    <3> QED  BY <3>1
  <2> QED  BY <2>1, <2>2
<1>8. PICK u \in U : \A y \in U : ~(y < u)  BY <1>7, LeastOf
<1>9. PICK b \in highest : u = n - b  BY <1>8
<1>10. ASSUME NEW j \in is
       PROVE  \/ ms[b].priority > ms[j].priority
              \/ ms[b].priority = ms[j].priority /\ b >= j
  <2>1. ms[b].priority = ms[a].priority /\ b \in is  OBVIOUS
  <2>2. ms[a].priority \in Nat /\ ms[j].priority \in Nat  BY <1>2
  <2>3. CASE ms[j].priority = ms[a].priority
    <3>1. n - j \in U  BY <2>3
    <3> HIDE DEF U, highest
    <3>2. ~(n - j < n - b)  BY <1>8, <1>9, <3>1
    <3>3. j \in 1 .. n /\ b \in 1 .. n  BY <2>1
    <3>4. b >= j  BY <3>2, <3>3
    <3>5. ms[b].priority = ms[j].priority  BY <2>1, <2>3
    <3> QED  BY <3>4, <3>5
  <2>4. CASE ms[j].priority # ms[a].priority
    <3> DEFINE g == ms[a].priority  h == ms[j].priority
    <3>0. h <= g  BY <1>6
    <3>1. ms[a].priority > ms[j].priority
      <4>1. g \in Nat /\ h \in Nat /\ h # g  BY <2>2, <2>4
      <4> HIDE DEF g, h
      <4>2. g > h  BY <3>0, <4>1
      <4> QED  BY <4>2 DEF g, h
    <3> QED  BY <2>1, <3>1
  <2> QED  BY <2>3, <2>4
<1>11. b \in is  OBVIOUS
<1> HIDE DEF highest, U, T
<1> QED  BY <1>10, <1>11 DEF Foremost

\* Where KeepOthers is: what was kept is as it was, and the others are still
\* to come or taken.
OthersTo(ms, n, sel, s, budget) ==
    /\ Selects(s.sel, n, budget)
    /\ s.rest \subseteq 1 .. n /\ s.rest \cap DOMAIN s.sel.kept = {}
    /\ DOMAIN sel.kept \subseteq DOMAIN s.sel.kept
    /\ \A j \in DOMAIN sel.kept : s.sel.kept[j] = sel.kept[j]

\* Taking the foremost of the rest, or leaving it, changes nothing that is kept.
LEMMA OtherIsTaken ==
    ASSUME NEW ms, NEW n \in Nat, Conversation(ms, n), NEW sel, NEW budget,
           NEW s, OthersTo(ms, n, sel, s, budget)
    PROVE  OthersTo(ms, n, sel, TakeFirst(ms, s), budget)
<1>1. DOMAIN ms = 1 .. n /\ \A j \in 1 .. n : ms[j] \in Prompts
  BY LenProperties, ElementOfSeq DEF Conversation
<1>2. CASE s.rest = {}
  <2>1. TakeFirst(ms, s) = s  BY <1>2 DEF TakeFirst
  <2> QED  BY <2>1
<1>3. CASE s.rest # {}
  <2> DEFINE i == Foremost(ms, s.rest)  k == KeepOther(ms, s.sel, i)  t == TakeFirst(ms, s)
  <2>1. s.rest \subseteq 1 .. n  BY DEF OthersTo
  <2>2. i \in s.rest  BY <1>3, <2>1, ForemostIsOne
  <2>3. i \in (1 .. n) \ DOMAIN s.sel.kept  BY <2>2 DEF OthersTo
  <2>4. t = [sel |-> k, rest |-> s.rest \ {i}]  BY <1>3 DEF TakeFirst
  <2>5. t.sel = k /\ t.rest = s.rest \ {i}  BY <2>4
  <2> HIDE DEF i, t
  <2>6. ms[i] \in Prompts /\ Cost(ms[i]) \in Nat  BY <1>1, <2>3, CostsOfPrompts
  <2>7. Selects(s.sel, n, budget) /\ s.sel.left \in Int  BY DEF OthersTo, Selects
  <2>8. Markup \in Nat /\ Overhead \in Nat  BY BudgetConstants
  <2>9. ASSUME NEW m \in Prompts, Cost(m) <= s.sel.left + Markup, k = Keep(s.sel, i, m)
        PROVE  /\ Selects(k, n, budget) /\ DOMAIN k.kept = DOMAIN s.sel.kept \cup {i}
               /\ \A j \in DOMAIN s.sel.kept : k.kept[j] = s.sel.kept[j]
    <3> DEFINE sl == s.sel
    <3>1. Selects(sl, n, budget)  BY <2>7
    <3>3. i \in (1 .. n) \ DOMAIN sl.kept  BY <2>3
    <3>4. Cost(m) <= sl.left + Markup /\ m \in Prompts  BY <2>9
    <3> HIDE DEF sl, k
    <3>2. /\ Selects(Keep(sl, i, m), n, budget)
          /\ DOMAIN Keep(sl, i, m).kept = DOMAIN sl.kept \cup {i}
          /\ \A j \in DOMAIN sl.kept : Keep(sl, i, m).kept[j] = sl.kept[j]
      BY <3>1, <3>3, <3>4, KeepSelects
    <3> QED  BY <2>9, <3>2 DEF sl
  <2>10. \/ k = s.sel
         \/ /\ Selects(k, n, budget) /\ DOMAIN k.kept = DOMAIN s.sel.kept \cup {i}
            /\ \A j \in DOMAIN s.sel.kept : k.kept[j] = s.sel.kept[j]
    <3>1. CASE Cost(ms[i]) <= s.sel.left
      <4>1. k = Keep(s.sel, i, ms[i])  BY <2>6, <2>7, <3>1 DEF KeepOther
      <4>2. Cost(ms[i]) <= s.sel.left + Markup  BY <2>6, <2>7, <2>8, <3>1
      <4> QED  BY <2>6, <2>9, <4>1, <4>2
    <3>2. CASE Cost(ms[i]) > s.sel.left /\ ms[i].priority >= Summary /\ s.sel.left > Overhead
      <4>1. k = Keep(s.sel, i, Trimmed(ms[i], s.sel.left))  BY <2>6, <2>7, <3>2 DEF KeepOther
      <4>2. /\ Trimmed(ms[i], s.sel.left) \in Prompts
            /\ Cost(Trimmed(ms[i], s.sel.left)) <= s.sel.left + Markup
        BY <2>6, <2>7, <3>2, TrimmedCosts
      <4> QED  BY <2>9, <4>1, <4>2
    <3>3. CASE /\ ~(Cost(ms[i]) <= s.sel.left)
               /\ ~(Cost(ms[i]) > s.sel.left /\ ms[i].priority >= Summary /\ s.sel.left > Overhead)
      BY <3>3 DEF KeepOther
    <3> QED  BY <3>1, <3>2, <3>3
  <2> HIDE DEF k
  <2>11. /\ Selects(k, n, budget) /\ DOMAIN s.sel.kept \subseteq DOMAIN k.kept
         /\ DOMAIN k.kept \subseteq DOMAIN s.sel.kept \cup {i}
         /\ \A j \in DOMAIN s.sel.kept : k.kept[j] = s.sel.kept[j]
    BY <2>7, <2>10
  <2>12. OthersTo(ms, n, sel, t, budget)
    <3>1. /\ s.rest \cap DOMAIN s.sel.kept = {} /\ DOMAIN sel.kept \subseteq DOMAIN s.sel.kept
          /\ \A j \in DOMAIN sel.kept : s.sel.kept[j] = sel.kept[j]
      BY DEF OthersTo
    <3> QED  BY <2>1, <2>5, <2>11, <3>1 DEF OthersTo
  <2> QED  BY <2>12 DEF t
<1> QED  BY <1>2, <1>3

\* c is what KeepOthers has done after each step.
Taking(c, ms, first, n) ==
    c = [k \in 0 .. n |-> IF k = 0 THEN first ELSE TakeFirst(ms, c[k - 1])]

\* It goes on from each step to the next.
LEMMA TakingExtends ==
    ASSUME NEW ms, NEW first, NEW n \in Nat, NEW c, Taking(c, ms, first, n)
    PROVE  \E e : Taking(e, ms, first, n + 1)
<1> DEFINE e == [k \in 0 .. n + 1 |-> IF k = n + 1 THEN TakeFirst(ms, c[n]) ELSE c[k]]
<1>1. ASSUME NEW k \in 0 .. n + 1
      PROVE  e[k] = IF k = 0 THEN first ELSE TakeFirst(ms, e[k - 1])
  <2>1. CASE k = n + 1
    <3>1. k # 0 /\ k - 1 = n /\ n \in 0 .. n + 1 /\ n # n + 1  BY <2>1
    <3> QED  BY <2>1, <3>1
  <2>2. CASE k # n + 1 /\ k = 0
    <3>1. 0 \in 0 .. n  OBVIOUS
    <3> QED  BY <2>2, <3>1 DEF Taking
  <2>3. CASE k # n + 1 /\ k # 0
    <3>1. k \in 0 .. n /\ k - 1 \in 0 .. n /\ k - 1 \in 0 .. n + 1 /\ k - 1 # n + 1  BY <2>3
    <3>2. c[k] = TakeFirst(ms, c[k - 1])  BY <2>3, <3>1 DEF Taking
    <3> QED  BY <2>3, <3>1, <3>2
  <2> QED  BY <2>1, <2>2, <2>3
<1>2. e = [k \in 0 .. n + 1 |-> IF k = 0 THEN first ELSE TakeFirst(ms, e[k - 1])]
  BY <1>1
<1> HIDE DEF e
<1> QED  BY <1>2 DEF Taking

\* The others are taken beside what is kept, and within the budget.
LEMMA OthersSelect ==
    ASSUME NEW ms, NEW n \in Nat, Conversation(ms, n), NEW sel, NEW budget,
           Selects(sel, n, budget), DOMAIN sel.kept \subseteq Required(ms)
    PROVE  LET k == KeepOthers(ms, sel) IN
           /\ Selects(k, n, budget) /\ DOMAIN sel.kept \subseteq DOMAIN k.kept
           /\ \A j \in DOMAIN sel.kept : k.kept[j] = sel.kept[j]
<1>0. n = Len(ms)  BY DEF Conversation
<1>1. DOMAIN ms = 1 .. n  BY LenProperties DEF Conversation
<1> DEFINE first == [sel |-> sel, rest |-> DOMAIN ms \ Required(ms)]
           T == {i \in Nat : \E c : Taking(c, ms, first, i)}
           k == KeepOthers(ms, sel)
<1>2. first.sel = sel /\ first.rest = DOMAIN ms \ Required(ms)  OBVIOUS
<1>3. k = (CHOOSE c : Taking(c, ms, first, n))[n].sel
  BY <1>0 DEF KeepOthers, Taking
<1> HIDE DEF first, k
<1>4. Taking([i \in 0 .. 0 |-> first], ms, first, 0)  BY DEF Taking
<1>5. 0 \in T  BY <1>4
<1>6. \A i \in T \cap Nat : i + 1 \in T  BY TakingExtends
<1> HIDE DEF T
<1>7. n \in T  BY <1>5, <1>6, Counting
<1>8. \E c : Taking(c, ms, first, n)  BY <1>7 DEF T
<1>9. PICK c : Taking(c, ms, first, n) /\ k = c[n].sel  BY <1>3, <1>8
<1> DEFINE S == {i \in Nat : i <= n => OthersTo(ms, n, sel, c[i], budget)}
<1>10. 0 \in S
  <2>1. c[0] = first  BY <1>9 DEF Taking
  <2>2. OthersTo(ms, n, sel, first, budget)  BY <1>1, <1>2 DEF OthersTo
  <2> QED  BY <2>1, <2>2
<1>11. ASSUME NEW i \in S \cap Nat  PROVE i + 1 \in S
  <2> SUFFICES ASSUME i + 1 <= n  PROVE OthersTo(ms, n, sel, c[i + 1], budget)
    OBVIOUS
  <2>1. i \in Nat /\ i <= n /\ OthersTo(ms, n, sel, c[i], budget)  OBVIOUS
  <2>2. c[i + 1] = TakeFirst(ms, c[i])
    <3>1. i + 1 \in 0 .. n /\ i + 1 # 0 /\ (i + 1) - 1 = i  OBVIOUS
    <3> QED  BY <1>9, <3>1 DEF Taking
  <2> DEFINE s == c[i]
  <2>3. OthersTo(ms, n, sel, s, budget)  BY <2>1
  <2> HIDE DEF S, s
  <2>4. OthersTo(ms, n, sel, TakeFirst(ms, s), budget)  BY <2>3, OtherIsTaken
  <2> QED  BY <2>2, <2>4 DEF s
<1> HIDE DEF S
<1>12. n \in S  BY <1>10, <1>11, Counting
<1>13. OthersTo(ms, n, sel, c[n], budget)  BY <1>12 DEF S
<1> QED  BY <1>9, <1>13 DEF OthersTo, k

-----------------------------------------------------------------------------
(* The budget: what is sent. *)

\* Of the required messages the protected ones are kept whole if they fit beside
\* the least of the others, and all are kept if there is the least for each.
LEMMA RequiredSelect ==
    ASSUME NEW ms, NEW n \in Nat, Conversation(ms, n), NEW budget \in Nat
    PROVE  LET k == KeepRequired(ms, [left |-> budget, kept |-> <<>>]) IN
           /\ Selects(k, n, budget) /\ DOMAIN k.kept \subseteq Required(ms)
           /\ ProtectedFit(ms, budget) =>
                 \A i \in Protected(ms) : i \in DOMAIN k.kept /\ k.kept[i] = ms[i]
           /\ Cardinality(Required(ms)) * Minimum <= budget => Required(ms) \subseteq DOMAIN k.kept
<1>0. n = Len(ms) /\ ms \in Seq(Prompts)  BY DEF Conversation
<1>1. DOMAIN ms = 1 .. n /\ \A j \in 1 .. n : ms[j] \in Prompts
  BY LenProperties, ElementOfSeq DEF Conversation
<1> DEFINE none == [left |-> budget, kept |-> <<>>]
           all == Required(ms)  safe == Protected(ms)  rest == all \ safe
           k == KeepRequired(ms, none)
<1>2. all \subseteq 1 .. n /\ safe \subseteq 1 .. n  BY <1>1 DEF Required, Protected
<1>3. safe \subseteq all
  <2>1. ASSUME NEW j \in 1 .. n, ms[j].priority >= Plugin  PROVE ms[j].priority >= System
    <3>1. ms[j] \in Prompts  BY <1>1
    <3>2. ms[j].priority \in Nat
      BY <3>1 DEF Prompts, History, Summary, Memory, System, Plugin, Current
    <3> QED  BY <2>1, <3>2 DEF System, Plugin
  <2> QED  BY <1>1, <2>1 DEF Required, Protected
<1>4. none.left = budget /\ DOMAIN none.kept = {}  OBVIOUS
<1>5. Selects(none, n, budget)
  <2>1. none.kept = <<>> /\ DOMAIN <<>> = {}  OBVIOUS
  <2>2. CostOf(<<>>, {}, n) = 0
    <3>1. PICK c : Costing(c, <<>>, {}, n) /\ CostOf(<<>>, {}, n) = c[n]  BY CostOfIsCosting
    <3> DEFINE T == {i \in Nat : i <= n => c[i] = 0}
    <3>2. 0 \in T  BY <3>1 DEF Costing
    <3>3. ASSUME NEW i \in T \cap Nat  PROVE i + 1 \in T
      <4> SUFFICES ASSUME i + 1 <= n  PROVE c[i + 1] = 0
        OBVIOUS
      <4>1. i + 1 \in 0 .. n /\ i + 1 # 0 /\ (i + 1) - 1 = i /\ c[i] = 0  OBVIOUS
      <4>2. c[i + 1] = c[(i + 1) - 1] + CostAt(<<>>, {}, i + 1)  BY <3>1, <4>1 DEF Costing
      <4>3. CostAt(<<>>, {}, i + 1) = 0  BY DEF CostAt
      <4> QED  BY <4>1, <4>2, <4>3
    <3> HIDE DEF T
    <3>4. n \in T  BY <3>2, <3>3, Counting
    <3> QED  BY <3>1, <3>4 DEF T
  <2> HIDE DEF none
  <2>3. none.left + CostOf(none.kept, DOMAIN none.kept, n) = budget  BY <1>4, <2>1, <2>2
  <2> QED  BY <1>4, <2>3, BudgetConstants DEF Selects
<1>6. k = IF CostOf(ms, all, n) <= budget THEN KeepWhole(ms, none, all)
          ELSE IF ProtectedFit(ms, budget) THEN KeepProportionally(ms, KeepWhole(ms, none, safe), rest)
          ELSE KeepProportionally(ms, none, all)
  BY <1>0, <1>4 DEF KeepRequired
<1>7. ASSUME NEW is, is \subseteq 1 .. n, CostOf(ms, is, n) <= budget
      PROVE  LET w == KeepWhole(ms, none, is) IN
             /\ Selects(w, n, budget) /\ w.left = budget - CostOf(ms, is, n)
             /\ DOMAIN w.kept = is /\ \A i \in is : w.kept[i] = ms[i]
  <2>1. is \subseteq DOMAIN ms /\ CostOf(ms, is, Len(ms)) <= budget  BY <1>0, <1>1, <1>7
  <2> QED  BY <1>0, <2>1, WholeSelects
<1>8. ASSUME NEW is, is \subseteq 1 .. n, NEW sel, is \cap DOMAIN sel.kept = {}, Selects(sel, n, budget)
      PROVE  LET w == KeepProportionally(ms, sel, is) IN
             /\ Selects(w, n, budget)
             /\ DOMAIN sel.kept \subseteq DOMAIN w.kept
             /\ DOMAIN w.kept \subseteq DOMAIN sel.kept \cup is
             /\ \A j \in DOMAIN sel.kept : w.kept[j] = sel.kept[j]
             /\ sel.left >= Cardinality(is) * Minimum => is \subseteq DOMAIN w.kept
  BY <1>8, ProportionsSelect
<1> HIDE DEF none, all, safe, k
<1>9. CASE CostOf(ms, all, n) <= budget
  <2>1. k = KeepWhole(ms, none, all)  BY <1>6, <1>9
  <2>2. /\ Selects(k, n, budget) /\ DOMAIN k.kept = all /\ \A i \in all : k.kept[i] = ms[i]
    BY <1>2, <1>7, <1>9, <2>1
  <2> QED  BY <1>3, <2>2 DEF k, all, safe, none
<1>10. CASE ~(CostOf(ms, all, n) <= budget) /\ ProtectedFit(ms, budget)
  <2> DEFINE w == KeepWhole(ms, none, safe)  c == Cardinality(rest)
  <2>1. k = KeepProportionally(ms, w, rest)  BY <1>6, <1>10
  <2>2. CostOf(ms, safe, n) + c * Minimum <= budget  BY <1>0, <1>10 DEF ProtectedFit, all, safe
  <2>3. c \in Nat
    <3>1. rest \subseteq 1 .. n /\ IsFiniteSet(1 .. n)  BY <1>2, FS_Interval
    <3> QED  BY <3>1, FS_Subset, FS_CardinalityType
  <2>4. CostOf(ms, safe, n) \in Nat
    <3>1. \A j \in safe \cap (1 .. n) : Cost(ms[j]) \in Nat  BY <1>1, CostsOfPrompts
    <3> QED  BY <3>1, CostIsNatural
  <2> DEFINE theirs == c * Minimum  cost == CostOf(ms, safe, n)
  <2>5. theirs \in Nat /\ cost \in Nat /\ cost + theirs <= budget  BY <2>2, <2>3, <2>4, BudgetConstants
  <2> HIDE DEF theirs
  <2>6. cost <= budget /\ budget - cost >= theirs
    <3> HIDE DEF cost
    <3> QED  BY <2>5
  <2> HIDE DEF c
  <2>7. /\ Selects(w, n, budget) /\ w.left = budget - cost
        /\ DOMAIN w.kept = safe /\ \A i \in safe : w.kept[i] = ms[i]
    BY <1>2, <1>7, <2>6
  <2> HIDE DEF w, cost
  <2>8. rest \subseteq 1 .. n /\ rest \cap DOMAIN w.kept = {}  BY <1>2, <2>7
  <2>9. w.left >= Cardinality(rest) * Minimum  BY <2>6, <2>7 DEF theirs, c
  <2> HIDE DEF rest
  <2>10. /\ Selects(k, n, budget)
         /\ DOMAIN w.kept \subseteq DOMAIN k.kept
         /\ DOMAIN k.kept \subseteq DOMAIN w.kept \cup rest
         /\ \A j \in DOMAIN w.kept : k.kept[j] = w.kept[j]
         /\ rest \subseteq DOMAIN k.kept
    BY <1>8, <2>1, <2>7, <2>8, <2>9
  <2>11. /\ DOMAIN k.kept \subseteq all /\ all \subseteq DOMAIN k.kept
         /\ \A i \in safe : i \in DOMAIN k.kept /\ k.kept[i] = ms[i]
    BY <1>3, <2>7, <2>10 DEF rest
  <2> QED  BY <2>10, <2>11 DEF k, all, safe, none
<1>11. CASE ~(CostOf(ms, all, n) <= budget) /\ ~ProtectedFit(ms, budget)
  <2>1. k = KeepProportionally(ms, none, all)  BY <1>6, <1>11
  <2>2. /\ Selects(k, n, budget) /\ DOMAIN k.kept \subseteq all
        /\ budget >= Cardinality(all) * Minimum => all \subseteq DOMAIN k.kept
    <3>1. all \cap DOMAIN none.kept = {}  BY <1>4
    <3>2. /\ Selects(k, n, budget) /\ DOMAIN k.kept \subseteq DOMAIN none.kept \cup all
          /\ none.left >= Cardinality(all) * Minimum => all \subseteq DOMAIN k.kept
      BY <1>2, <1>5, <1>8, <2>1, <3>1
    <3> QED  BY <1>4, <3>2
  <2>3. Cardinality(all) * Minimum \in Nat
    <3>1. IsFiniteSet(1 .. n)  BY FS_Interval
    <3>2. IsFiniteSet(all)  BY <1>2, <3>1, FS_Subset
    <3>3. Cardinality(all) \in Nat  BY <3>2, FS_CardinalityType
    <3> QED  BY <3>3, BudgetConstants
  <2>4. Cardinality(all) * Minimum <= budget => all \subseteq DOMAIN k.kept  BY <2>2, <2>3
  <2> QED  BY <1>11, <2>2, <2>4 DEF k, all, safe, none
<1> QED  BY <1>9, <1>10, <1>11

\* What Fit promises of every conversation and budget.
LEMMA FitSends ==
    ASSUME NEW ms, NEW n \in Nat, Conversation(ms, n), NEW budget \in Nat
    PROVE  LET sent == Fit(ms, budget) IN
           /\ CostOf(sent, DOMAIN sent, n) <= budget + Markup
           /\ ProtectedFit(ms, budget) =>
                 \A i \in Protected(ms) : i \in DOMAIN sent /\ sent[i] = ms[i]
           /\ Cardinality(Required(ms)) * Minimum <= budget => Required(ms) \subseteq DOMAIN sent
<1>0. n = Len(ms)  BY DEF Conversation
<1>1. DOMAIN ms = 1 .. n /\ \A j \in 1 .. n : ms[j] \in Prompts
  BY LenProperties, ElementOfSeq DEF Conversation
<1> DEFINE none == [left |-> budget, kept |-> <<>>]  sent == Fit(ms, budget)
           req == KeepRequired(ms, none)  k == KeepOthers(ms, req)
<1>2. sent = IF CostOf(ms, DOMAIN ms, n) <= budget THEN [i \in DOMAIN ms |-> ms[i]] ELSE k.kept
  BY <1>0 DEF Fit
<1>3. Markup \in Nat  BY BudgetConstants
<1>4. CASE CostOf(ms, DOMAIN ms, n) <= budget
  <2>1. DOMAIN sent = DOMAIN ms /\ \A i \in DOMAIN ms : sent[i] = ms[i]  BY <1>2, <1>4
  <2> HIDE DEF sent
  <2>2. CostOf(sent, DOMAIN sent, n) = CostOf(ms, DOMAIN ms, n)  BY <1>1, <2>1, CostOfSame
  <2>3. CostOf(ms, DOMAIN ms, n) \in Nat
    <3>1. \A j \in DOMAIN ms \cap (1 .. n) : Cost(ms[j]) \in Nat  BY <1>1, CostsOfPrompts
    <3> QED  BY <3>1, CostIsNatural
  <2>4. CostOf(sent, DOMAIN sent, n) <= budget + Markup  BY <1>3, <1>4, <2>2, <2>3
  <2>5. Required(ms) \subseteq DOMAIN sent /\ Protected(ms) \subseteq DOMAIN ms
    BY <2>1 DEF Required, Protected
  <2> QED  BY <2>1, <2>4, <2>5 DEF sent
<1>5. CASE ~(CostOf(ms, DOMAIN ms, n) <= budget)
  <2>1. /\ Selects(req, n, budget) /\ DOMAIN req.kept \subseteq Required(ms)
        /\ ProtectedFit(ms, budget) =>
              \A i \in Protected(ms) : i \in DOMAIN req.kept /\ req.kept[i] = ms[i]
        /\ Cardinality(Required(ms)) * Minimum <= budget => Required(ms) \subseteq DOMAIN req.kept
    BY RequiredSelect
  <2>2. sent = k.kept  BY <1>2, <1>5
  <2> HIDE DEF req, sent
  <2>3. /\ Selects(k, n, budget) /\ DOMAIN req.kept \subseteq DOMAIN k.kept
        /\ \A j \in DOMAIN req.kept : k.kept[j] = req.kept[j]
    BY <2>1, OthersSelect
  <2> HIDE DEF k
  <2>4. CostOf(sent, DOMAIN sent, n) <= budget + Markup
    <3>1. /\ k.left \in Int /\ k.left + Markup >= 0
          /\ k.left + CostOf(sent, DOMAIN sent, n) = budget
          /\ \A i \in DOMAIN sent : sent[i] \in Prompts
      BY <2>2, <2>3 DEF Selects
    <3>2. CostOf(sent, DOMAIN sent, n) \in Nat
      <4>1. \A j \in DOMAIN sent \cap (1 .. n) : Cost(sent[j]) \in Nat  BY <3>1, CostsOfPrompts
      <4> QED  BY <4>1, CostIsNatural
    <3> QED  BY <1>3, <3>1, <3>2
  <2>5. ASSUME ProtectedFit(ms, budget), NEW i \in Protected(ms)
        PROVE  i \in DOMAIN sent /\ sent[i] = ms[i]
    <3>1. i \in DOMAIN req.kept /\ req.kept[i] = ms[i]  BY <2>1, <2>5
    <3> QED  BY <2>2, <2>3, <3>1
  <2>6. Cardinality(Required(ms)) * Minimum <= budget => Required(ms) \subseteq DOMAIN sent
    BY <2>1, <2>2, <2>3
  <2> QED  BY <2>4, <2>5, <2>6 DEF sent
<1> QED  BY <1>4, <1>5


-----------------------------------------------------------------------------
(* Flattened sequences. *)

\* f is what FlattenSeq has put together after each of the first n sequences.
Flattening(f, s, n) == f = [i \in 1 .. n |-> IF i = 1 THEN s[i] ELSE f[i - 1] \o s[i]]

\* It goes on from each sequence to the next.
LEMMA FlatteningExtends ==
    ASSUME NEW s, NEW n \in Nat, NEW c, Flattening(c, s, n)
    PROVE  \E e : Flattening(e, s, n + 1)
<1> DEFINE e == [k \in 1 .. n + 1 |-> IF k = n + 1 THEN IF k = 1 THEN s[k] ELSE c[n] \o s[k] ELSE c[k]]
<1>1. ASSUME NEW k \in 1 .. n + 1
      PROVE  e[k] = IF k = 1 THEN s[k] ELSE e[k - 1] \o s[k]
  <2>1. CASE k = n + 1 /\ k = 1
    BY <2>1
  <2>2. CASE k = n + 1 /\ k # 1
    <3>1. k - 1 = n /\ n \in 1 .. n + 1 /\ n # n + 1  BY <2>2
    <3> QED  BY <2>2, <3>1
  <2>3. CASE k # n + 1 /\ k = 1
    <3>1. k \in 1 .. n  BY <2>3
    <3> QED  BY <2>3, <3>1 DEF Flattening
  <2>4. CASE k # n + 1 /\ k # 1
    <3>1. k \in 1 .. n /\ k - 1 \in 1 .. n /\ k - 1 \in 1 .. n + 1 /\ k - 1 # n + 1  BY <2>4
    <3>2. c[k] = c[k - 1] \o s[k]  BY <2>4, <3>1 DEF Flattening
    <3> QED  BY <2>4, <3>1, <3>2
  <2> QED  BY <2>1, <2>2, <2>3, <2>4
<1>2. e = [k \in 1 .. n + 1 |-> IF k = 1 THEN s[k] ELSE e[k - 1] \o s[k]]
  BY <1>1
<1> HIDE DEF e
<1> QED  BY <1>2 DEF Flattening

\* FlattenSeq is the last of them.
LEMMA FlattenIsFlattening ==
    ASSUME NEW s, NEW n \in Nat \ {0}, Len(s) = n
    PROVE  \E f : Flattening(f, s, n) /\ FlattenSeq(s) = f[n]
<1> DEFINE T == {k \in Nat : \E f : Flattening(f, s, k)}
<1>1. Flattening([k \in 1 .. 0 |-> s], s, 0)  BY DEF Flattening
<1>2. 0 \in T  BY <1>1
<1>3. \A k \in T \cap Nat : k + 1 \in T  BY FlatteningExtends
<1> HIDE DEF T
<1>4. n \in T  BY <1>2, <1>3, Counting
<1>5. \E f : Flattening(f, s, n)  BY <1>4 DEF T
<1>6. FlattenSeq(s) = (CHOOSE f : Flattening(f, s, n))[n]
  BY DEF FlattenSeq, Flattening
<1> QED  BY <1>5, <1>6

\* One more sequence is put at the end of what the others give.
LEMMA FlattenMore ==
    ASSUME NEW X, NEW s \in Seq(Seq(X)), NEW x \in Seq(X)
    PROVE  /\ FlattenSeq(s) \in Seq(X)
           /\ FlattenSeq(Append(s, x)) = FlattenSeq(s) \o x
<1> DEFINE n == Len(s)  t == Append(s, x)
<1>1. n \in Nat /\ Len(t) = n + 1 /\ t[n + 1] = x /\ \A i \in 1 .. n : t[i] = s[i] /\ s[i] \in Seq(X)
  BY LenProperties, AppendProperties, ElementOfSeq
<1> HIDE DEF t
<1>2. PICK g : Flattening(g, t, n + 1) /\ FlattenSeq(t) = g[n + 1]
  <2>1. n + 1 \in Nat \ {0}  BY <1>1
  <2> QED  BY <1>1, <2>1, FlattenIsFlattening
<1>3. CASE n = 0
  <2>1. FlattenSeq(s) = s /\ s = <<>>  BY <1>3, EmptySeq DEF FlattenSeq
  <2>2. g[1] = x  BY <1>1, <1>2, <1>3 DEF Flattening
  <2>3. <<>> \in Seq(X) /\ <<>> \o x = x  BY ConcatEmptySeq, EmptySeq
  <2> QED  BY <1>2, <1>3, <2>1, <2>2, <2>3 DEF t
<1>4. CASE n # 0
  <2>1. PICK f : Flattening(f, s, n) /\ FlattenSeq(s) = f[n]
    BY <1>1, <1>4, FlattenIsFlattening
  <2> HIDE DEF n
  <2> DEFINE T == {k \in Nat : k + 1 <= n => f[k + 1] = g[k + 1] /\ f[k + 1] \in Seq(X)}
  <2>2. 0 \in T
    <3>1. 1 \in 1 .. n /\ 1 \in 1 .. n + 1  BY <1>1, <1>4
    <3>2. f[1] = s[1] /\ g[1] = t[1]  BY <1>2, <2>1, <3>1 DEF Flattening
    <3> QED  BY <1>1, <3>1, <3>2
  <2>3. ASSUME NEW k \in T \cap Nat  PROVE k + 1 \in T
    <3> DEFINE i == k + 1  j == i + 1
    <3> SUFFICES ASSUME j <= n  PROVE f[j] = g[j] /\ f[j] \in Seq(X)
      OBVIOUS
    <3>1. i \in 1 .. n /\ j \in 1 .. n /\ j \in 1 .. n + 1 /\ j # 1 /\ j - 1 = i  BY <1>1
    <3>2. f[i] = g[i] /\ f[i] \in Seq(X)  BY <3>1
    <3> HIDE DEF i, j, T
    <3>3. f[j] = f[i] \o s[j]  BY <2>1, <3>1 DEF Flattening
    <3>4. g[j] = g[i] \o t[j]  BY <1>2, <3>1 DEF Flattening
    <3>5. f[i] \o s[j] \in Seq(X)  BY <1>1, <3>1, <3>2, ConcatProperties
    <3> QED  BY <1>1, <3>1, <3>2, <3>3, <3>4, <3>5
  <2> HIDE DEF T
  <2>4. n - 1 \in Nat /\ (n - 1) + 1 = n  BY <1>1, <1>4
  <2>5. n - 1 \in T  BY <2>2, <2>3, <2>4, Counting
  <2>6. f[n] = g[n] /\ f[n] \in Seq(X)  BY <2>4, <2>5 DEF T
  <2>7. n + 1 \in 1 .. n + 1 /\ n + 1 # 1 /\ (n + 1) - 1 = n  BY <1>1, <1>4
  <2>8. g[n + 1] = g[n] \o t[n + 1]  BY <1>2, <2>7 DEF Flattening
  <2> QED  BY <1>1, <1>2, <2>1, <2>6, <2>8 DEF t
<1> QED  BY <1>3, <1>4

\* A sequence is a prefix of what it is followed by something in.
LEMMA PrefixOfConcat ==
    ASSUME NEW X, NEW s \in Seq(X), NEW t \in Seq(X)
    PROVE  IsPrefix(s, s \o t)
<1> DEFINE n == Len(s)
<1>1. n \in Nat /\ Len(t) \in Nat /\ Len(s \o t) = n + Len(t) /\ s \o t \in Seq(X)
  BY LenProperties, ConcatProperties
<1>2. SubSeq(s, 1, n) = s  BY SubSeqFull
<1>3. CASE n = 0
  <2>1. SubSeq(s \o t, 1, 0) = <<>> /\ SubSeq(s, 1, 0) = <<>>  BY SubSeqEmpty
  <2> QED  BY <1>1, <1>3, <2>1 DEF IsPrefix
<1>4. CASE n # 0
  <2>1. 1 \in 1 .. n /\ n \in 1 .. n  BY <1>1, <1>4
  <2>2. SubSeq(s \o t, 1, n) = SubSeq(s, 1, n)  BY <2>1, SubSeqOfConcat1
  <2> QED  BY <1>1, <2>2 DEF IsPrefix
<1> QED  BY <1>3, <1>4

-----------------------------------------------------------------------------
(* The text that the model says. *)

\* What a text is made of, and how many parts it has
Signs == Nat \X Nat
Places == Len(Chunks)

\* The text before part q, and with the first c chunks of it
Upto(q) == FlattenSeq([p \in 1 .. q - 1 |-> PartText(p)])
\* The text up to chunk c of part q
Text(q, c) == Upto(q) \o Beginning(q, c)

\* Every part has chunks.
LEMMA ChunksOfParts ==
    /\ Places \in Nat /\ DOMAIN Chunks = 1 .. Places
    /\ \A p \in 1 .. Places : Chunks[p] \in Nat /\ Chunks[p] > 0
<1>1. Chunks \in Seq(Nat \ {0})  BY ClientConstants
<1>2. Places \in Nat /\ DOMAIN Chunks = 1 .. Places  BY <1>1, LenProperties DEF Places
<1>3. \A p \in 1 .. Places : Chunks[p] \in Nat \ {0}  BY <1>1, ElementOfSeq DEF Places
<1> QED  BY <1>2, <1>3

\* The beginning of a part is a text of its length.
LEMMA BeginningIsText ==
    ASSUME NEW p \in Nat, NEW c \in Nat
    PROVE  /\ Beginning(p, c) \in Seq(Signs) /\ Len(Beginning(p, c)) = c
           /\ \A i \in 1 .. c : Beginning(p, c)[i] = <<p, i>>
<1>1. \A i \in 1 .. c : <<p, i>> \in Signs  BY DEF Signs
<1>2. Beginning(p, c) \in [1 .. c -> Signs]  BY <1>1 DEF Beginning
<1>3. Beginning(p, c) \in Seq(Signs)  BY <1>2, SeqDef
<1>4. DOMAIN Beginning(p, c) = 1 .. c  BY DEF Beginning
<1>5. Len(Beginning(p, c)) \in Nat /\ DOMAIN Beginning(p, c) = 1 .. Len(Beginning(p, c))
  BY <1>3, LenProperties
<1>6. Len(Beginning(p, c)) = c  BY <1>4, <1>5
<1> QED  BY <1>3, <1>6 DEF Beginning

\* More chunks of a part go on where fewer of them end.
LEMMA BeginningGrows ==
    ASSUME NEW p \in Nat, NEW c \in Nat, NEW d \in Nat, c <= d
    PROVE  \E rest \in Seq(Signs) : Beginning(p, d) = Beginning(p, c) \o rest
<1> DEFINE a == Beginning(p, c)  b == Beginning(p, d)  rest == SubSeq(b, c + 1, d)
<1>1. /\ a \in Seq(Signs) /\ Len(a) = c /\ \A i \in 1 .. c : a[i] = <<p, i>>
      /\ b \in Seq(Signs) /\ Len(b) = d /\ \A i \in 1 .. d : b[i] = <<p, i>>
  BY BeginningIsText
<1> HIDE DEF a, b
<1>2. \A i \in c + 1 .. d : b[i] \in Signs
  <2>1. \A i \in c + 1 .. d : i \in 1 .. Len(b)  BY <1>1
  <2> QED  BY <1>1, <2>1, ElementOfSeq
<1>3. /\ rest \in Seq(Signs) /\ Len(rest) = d - c
      /\ \A i \in 1 .. d - c : rest[i] = b[c + i]
  <2>1. c + 1 \in Int /\ d \in Int /\ d - (c + 1) + 1 = d - c  OBVIOUS
  <2>2. /\ rest \in Seq(Signs)
        /\ Len(rest) = IF c + 1 <= d THEN d - (c + 1) + 1 ELSE 0
        /\ \A i \in 1 .. d - (c + 1) + 1 : rest[i] = b[(c + 1) + i - 1]
    BY <1>2, <2>1, SubSeqProperties
  <2>3. \A i \in 1 .. d - c : (c + 1) + i - 1 = c + i  OBVIOUS
  <2> QED  BY <2>1, <2>2, <2>3
<1> HIDE DEF rest
<1>4. /\ a \o rest \in Seq(Signs) /\ Len(a \o rest) = c + (d - c)
      /\ \A i \in 1 .. c + (d - c) : (a \o rest)[i] = IF i <= c THEN a[i] ELSE rest[i - c]
  BY <1>1, <1>3, ConcatProperties
<1>5. ASSUME NEW i \in 1 .. d  PROVE b[i] = (a \o rest)[i]
  <2>1. CASE i <= c
    <3>1. i \in 1 .. c /\ i \in 1 .. c + (d - c)  BY <2>1
    <3> QED  BY <1>1, <1>4, <2>1, <3>1
  <2>2. CASE ~(i <= c)
    <3>1. i - c \in 1 .. d - c /\ c + (i - c) = i /\ i \in 1 .. c + (d - c)  BY <2>2
    <3> QED  BY <1>3, <1>4, <2>2, <3>1
  <2> QED  BY <2>1, <2>2
<1>6. b = a \o rest
  <2>1. Len(a \o rest) = Len(b)  BY <1>1, <1>4
  <2> QED  BY <1>1, <1>4, <1>5, <2>1, SeqEqual
<1> QED  BY <1>3, <1>6 DEF a, b

\* The parts follow one another up to the whole text.
LEMMA UptoIsText ==
    /\ Upto(1) = <<>> /\ WholeText = Upto(Places + 1)
    /\ \A q \in 1 .. Places + 1 : Upto(q) \in Seq(Signs)
    /\ \A q \in 1 .. Places : Upto(q + 1) = Upto(q) \o PartText(q)
<1>1. WholeText = Upto(Places + 1)
  <2>1. (Places + 1) - 1 = Places  BY ChunksOfParts
  <2> QED  BY <2>1, ChunksOfParts DEF WholeText, Upto
<1> DEFINE s(q) == [p \in 1 .. q - 1 |-> PartText(p)]
<1>2. ASSUME NEW q \in 1 .. Places + 1  PROVE s(q) \in Seq(Seq(Signs)) /\ Len(s(q)) = q - 1
  <2>1. q - 1 \in Nat /\ \A p \in 1 .. q - 1 : p \in 1 .. Places /\ p \in Nat  BY ChunksOfParts
  <2>2. \A p \in 1 .. q - 1 : PartText(p) \in Seq(Signs)
    BY <2>1, BeginningIsText, ChunksOfParts DEF PartText
  <2>3. s(q) \in [1 .. q - 1 -> Seq(Signs)]  BY <2>2
  <2>4. s(q) \in Seq(Seq(Signs))  BY <2>1, <2>3, SeqDef
  <2>5. DOMAIN s(q) = 1 .. q - 1  OBVIOUS
  <2> HIDE DEF s
  <2>6. Len(s(q)) \in Nat /\ DOMAIN s(q) = 1 .. Len(s(q))  BY <2>4, LenProperties
  <2> QED  BY <2>1, <2>4, <2>5, <2>6
<1>3. Upto(1) = <<>>
  <2>1. 1 \in 1 .. Places + 1  BY ChunksOfParts
  <2> DEFINE t == s(1)
  <2>2. t \in Seq(Seq(Signs)) /\ Len(t) = 0  BY <1>2, <2>1
  <2>3. Upto(1) = FlattenSeq(t)  BY DEF Upto
  <2> HIDE DEF t
  <2>4. t = <<>>  BY <2>2, EmptySeq
  <2>5. FlattenSeq(t) = t  BY <2>2 DEF FlattenSeq
  <2> QED  BY <2>3, <2>4, <2>5
<1>4. ASSUME NEW q \in 1 .. Places + 1  PROVE Upto(q) \in Seq(Signs)
  <2>1. s(q) \in Seq(Seq(Signs))  BY <1>2
  <2>2. <<>> \in Seq(Signs)  BY EmptySeq
  <2>3. Upto(q) = FlattenSeq(s(q))  BY DEF Upto
  <2> HIDE DEF s
  <2> QED  BY <2>1, <2>2, <2>3, FlattenMore
<1>5. ASSUME NEW q \in 1 .. Places  PROVE Upto(q + 1) = Upto(q) \o PartText(q)
  <2>1. q \in 1 .. Places + 1 /\ q + 1 \in 1 .. Places + 1 /\ (q + 1) - 1 = q /\ q \in Nat
    BY ChunksOfParts
  <2> DEFINE h == q + 1  a == s(q)  b == s(h)  x == PartText(q)
  <2>2. x \in Seq(Signs)  BY <2>1, BeginningIsText, ChunksOfParts DEF PartText
  <2>3. a \in Seq(Seq(Signs)) /\ Len(a) = q - 1  BY <1>2, <2>1
  <2>4. b \in Seq(Seq(Signs)) /\ Len(b) = q  BY <1>2, <2>1
  <2>5. \A p \in 1 .. q - 1 : a[p] = PartText(p)  OBVIOUS
  <2>6. \A p \in 1 .. q : b[p] = PartText(p)  BY <2>1
  <2>7. Upto(q) = FlattenSeq(a) /\ Upto(h) = FlattenSeq(b)  BY DEF Upto
  <2> HIDE DEF a, b, x, h, s
  <2>8. /\ Append(a, x) \in Seq(Seq(Signs)) /\ Len(Append(a, x)) = (q - 1) + 1
        /\ \A i \in 1 .. q - 1 : Append(a, x)[i] = a[i]
        /\ Append(a, x)[(q - 1) + 1] = x
    BY <2>2, <2>3, AppendProperties
  <2>9. (q - 1) + 1 = q  BY <2>1
  <2>10. ASSUME NEW i \in 1 .. q  PROVE b[i] = Append(a, x)[i]
    <3>1. CASE i = q
      BY <2>6, <2>8, <2>9, <3>1 DEF x
    <3>2. CASE i # q
      <4>1. i \in 1 .. q - 1  BY <2>1, <3>2
      <4> QED  BY <2>5, <2>6, <2>8, <4>1
    <3> QED  BY <3>1, <3>2
  <2>11. b = Append(a, x)
    <3>1. Len(Append(a, x)) = q  BY <2>8, <2>9
    <3> QED  BY <2>4, <2>8, <2>10, <3>1, SeqEqual
  <2>12. FlattenSeq(Append(a, x)) = FlattenSeq(a) \o x  BY <2>2, <2>3, FlattenMore
  <2> QED  BY <2>7, <2>11, <2>12 DEF h, x
<1> QED  BY <1>1, <1>3, <1>4, <1>5

\* So does the beginning of the next part.
LEMMA TextIsText ==
    ASSUME NEW q \in 1 .. Places + 1, NEW c \in Nat
    PROVE  /\ Text(q, c) \in Seq(Signs) /\ Text(q, 0) = Upto(q)
           /\ c > 0 => Text(q, c) # <<>>
<1>1. q \in Nat /\ Upto(q) \in Seq(Signs)  BY UptoIsText, ChunksOfParts
<1>2. Beginning(q, c) \in Seq(Signs) /\ Len(Beginning(q, c)) = c  BY <1>1, BeginningIsText
<1>3. Text(q, c) \in Seq(Signs)  BY <1>1, <1>2, ConcatProperties DEF Text
<1>4. Text(q, 0) = Upto(q)
  <2>1. Beginning(q, 0) \in Seq(Signs) /\ Len(Beginning(q, 0)) = 0  BY <1>1, BeginningIsText
  <2>2. Beginning(q, 0) = <<>>  BY <2>1, EmptySeq
  <2> QED  BY <1>1, <2>2, ConcatEmptySeq DEF Text
<1>5. c > 0 => Text(q, c) # <<>>
  <2> SUFFICES ASSUME c > 0, Text(q, c) = <<>>  PROVE FALSE
    OBVIOUS
  <2>1. Beginning(q, c) = <<>>  BY <1>1, <1>2, ConcatEqualIffEmpty DEF Text
  <2> QED  BY <1>2, <2>1, EmptySeq
<1> QED  BY <1>3, <1>4, <1>5

\* The next chunk, and the whole of a part
LEMMA TextGoesOn ==
    ASSUME NEW q \in 1 .. Places
    PROVE  /\ \A c \in Nat : Text(q, c) \o <<<<q, c + 1>>>> = Text(q, c + 1)
           /\ \A c \in Nat : Beginning(q, c) \o <<<<q, c + 1>>>> = Beginning(q, c + 1)
           /\ Upto(q) \o PartText(q) = Text(q, Chunks[q])
           /\ Text(q, Chunks[q]) = Upto(q + 1)
           /\ Text(q, Chunks[q]) = Text(q + 1, 0)
<1>1. q \in Nat /\ q \in 1 .. Places + 1 /\ q + 1 \in 1 .. Places + 1 /\ Upto(q) \in Seq(Signs)
  BY UptoIsText, ChunksOfParts
<1>2. ASSUME NEW c \in Nat  PROVE Beginning(q, c) \o <<<<q, c + 1>>>> = Beginning(q, c + 1)
  <2> DEFINE a == Beginning(q, c)  h == c + 1  x == <<q, h>>  b == Beginning(q, h)  e == a \o <<x>>
  <2>1. /\ a \in Seq(Signs) /\ Len(a) = c /\ \A i \in 1 .. c : a[i] = <<q, i>>
    BY <1>1, BeginningIsText
  <2>2. /\ b \in Seq(Signs) /\ Len(b) = h /\ \A i \in 1 .. h : b[i] = <<q, i>>
    BY <1>1, BeginningIsText
  <2>3. x \in Signs  BY <1>1 DEF Signs
  <2>4. x = <<q, h>> /\ h = c + 1  OBVIOUS
  <2> HIDE DEF a, b, x, h
  <2>5. <<x>> \in Seq(Signs) /\ Len(<<x>>) = 1 /\ <<x>>[1] = x  BY <2>3
  <2>6. /\ e \in Seq(Signs) /\ Len(e) = c + 1
        /\ \A i \in 1 .. c + 1 : e[i] = IF i <= c THEN a[i] ELSE <<x>>[i - c]
    BY <2>1, <2>5, ConcatProperties
  <2>7. ASSUME NEW i \in 1 .. c + 1  PROVE e[i] = b[i]
    <3>1. CASE i <= c
      <4>1. i \in 1 .. c /\ i \in 1 .. h  BY <2>4, <3>1
      <4> QED  BY <2>1, <2>2, <2>6, <3>1, <4>1
    <3>2. CASE ~(i <= c)
      <4>1. i = h /\ i - c = 1 /\ i \in 1 .. h  BY <2>4, <3>2
      <4> QED  BY <2>2, <2>4, <2>5, <2>6, <3>2, <4>1
    <3> QED  BY <3>1, <3>2
  <2> HIDE DEF e
  <2>8. e = b  BY <2>2, <2>4, <2>6, <2>7, SeqEqual
  <2> QED  BY <2>8 DEF e, b, a, x, h
<1>3. ASSUME NEW c \in Nat  PROVE Text(q, c) \o <<<<q, c + 1>>>> = Text(q, c + 1)
  <2> DEFINE u == Upto(q)  a == Beginning(q, c)  x == <<<<q, c + 1>>>>
  <2>1. a \in Seq(Signs)  BY <1>1, BeginningIsText
  <2>2. x \in Seq(Signs)
    <3>1. <<q, c + 1>> \in Signs  BY <1>1 DEF Signs
    <3> QED  BY <3>1
  <2>3. u \in Seq(Signs)  BY <1>1
  <2>4. a \o x = Beginning(q, c + 1)  BY <1>2
  <2> HIDE DEF u, a, x
  <2>5. (u \o a) \o x = u \o (a \o x)  BY <2>1, <2>2, <2>3, ConcatAssociative
  <2> QED  BY <2>4, <2>5 DEF Text, u, a, x
<1>4. Upto(q) \o PartText(q) = Text(q, Chunks[q])  BY DEF Text, PartText
<1>5. Text(q, Chunks[q]) = Upto(q + 1)  BY <1>4, UptoIsText
<1>6. Text(q + 1, 0) = Upto(q + 1)
  <2> DEFINE h == q + 1
  <2>1. h \in 1 .. Places + 1  BY <1>1
  <2> HIDE DEF h
  <2>2. Text(h, 0) = Upto(h)  BY <2>1, TextIsText
  <2> QED  BY <2>2 DEF h
<1> QED  BY <1>2, <1>3, <1>4, <1>5, <1>6

\* The text so far is the beginning of all of it.
LEMMA UptoBegins ==
    ASSUME NEW q \in 1 .. Places + 1
    PROVE  \E rest \in Seq(Signs) : WholeText = Upto(q) \o rest
<1> DEFINE last == Places + 1
           Begins(p) == \E rest \in Seq(Signs) : WholeText = Upto(p) \o rest
           T == {d \in Nat : d <= Places => Begins(last - d)}
<1>1. Places \in Nat /\ last \in Nat /\ last = Places + 1  BY ChunksOfParts
<1>2. 0 \in T
  <2>1. WholeText = Upto(last) /\ Upto(last) \in Seq(Signs)  BY <1>1, UptoIsText
  <2> HIDE DEF last
  <2>2. <<>> \in Seq(Signs) /\ Upto(last) \o <<>> = Upto(last)  BY <2>1, EmptySeq, ConcatEmptySeq
  <2>3. Begins(last)  BY <2>1, <2>2
  <2>4. last - 0 = last  BY <1>1
  <2> QED  BY <2>3, <2>4
<1>3. ASSUME NEW d \in T \cap Nat  PROVE d + 1 \in T
  <2> DEFINE p == last - (d + 1)  h == last - d
  <2> SUFFICES ASSUME d + 1 <= Places  PROVE Begins(p)
    OBVIOUS
  <2>1. d \in Nat /\ d <= Places /\ Begins(h)  BY <1>1
  <2>2. p \in 1 .. Places /\ p \in 1 .. Places + 1 /\ p + 1 = h  BY <1>1
  <2> HIDE DEF p, h, T
  <2>3. PICK rest \in Seq(Signs) : WholeText = Upto(h) \o rest  BY <2>1
  <2>4. Upto(h) = Upto(p) \o PartText(p) /\ Upto(p) \in Seq(Signs)  BY <2>2, UptoIsText
  <2>5. PartText(p) \in Seq(Signs)
    <3>1. p \in Nat /\ Chunks[p] \in Nat  BY <2>2, ChunksOfParts
    <3> QED  BY <3>1, BeginningIsText DEF PartText
  <2>6. (Upto(p) \o PartText(p)) \o rest = Upto(p) \o (PartText(p) \o rest)
    BY <2>4, <2>5, ConcatAssociative
  <2>7. PartText(p) \o rest \in Seq(Signs)  BY <2>5, ConcatProperties
  <2> QED  BY <2>3, <2>4, <2>6, <2>7
<1> HIDE DEF T, Begins
<1>4. last - q \in Nat /\ last - q <= Places /\ last - (last - q) = q  BY <1>1
<1>5. last - q \in T  BY <1>2, <1>3, <1>4, Counting
<1>6. Begins(last - (last - q))  BY <1>4, <1>5 DEF T
<1> QED  BY <1>4, <1>6 DEF Begins

\* Concatenation is associative, stated where little else is known.
LEMMA ConcatThree ==
    ASSUME NEW X, NEW s \in Seq(X), NEW t \in Seq(X), NEW u \in Seq(X)
    PROVE  s \o (t \o u) = (s \o t) \o u
BY ConcatAssociative

\* The first two of four sequences, of which the third and fourth come later.
LEMMA PrefixOfMore ==
    ASSUME NEW X, NEW s \in Seq(X), NEW t \in Seq(X), NEW u \in Seq(X), NEW v \in Seq(X)
    PROVE  IsPrefix(s \o t, (s \o (t \o u)) \o v)
<1>1. \A a, b, c \in Seq(X) : a \o (b \o c) = (a \o b) \o c  BY ConcatThree, SMTT(60)
<1> DEFINE st == s \o t  uv == u \o v
<1>2. st \in Seq(X) /\ uv \in Seq(X)  BY ConcatProperties
<1>3. s \o (t \o u) = st \o u  BY <1>1
<1> HIDE DEF st
<1>4. st \o uv = (st \o u) \o v  BY <1>1, <1>2
<1> HIDE DEF uv
<1>5. IsPrefix(st, st \o uv)  BY <1>2, PrefixOfConcat
<1> QED  BY <1>3, <1>4, <1>5 DEF st

\* The text up to a chunk is the beginning of the whole.
LEMMA TextBegins ==
    ASSUME NEW q \in 1 .. Places + 1, NEW c \in Nat, q \in 1 .. Places => c <= Chunks[q],
           q = Places + 1 => c = 0
    PROVE  IsPrefix(Text(q, c), WholeText)
<1>1. Text(q, c) \in Seq(Signs) /\ Places \in Nat  BY TextIsText, ChunksOfParts
<1>2. CASE q = Places + 1
  <2>1. Text(q, c) = Upto(q)  BY <1>2, TextIsText
  <2>2. PICK rest \in Seq(Signs) : WholeText = Upto(q) \o rest  BY UptoBegins
  <2> QED  BY <1>1, <2>1, <2>2, PrefixOfConcat
<1>3. CASE q # Places + 1
  <2>1. q \in 1 .. Places /\ q \in Nat /\ Chunks[q] \in Nat /\ c <= Chunks[q]
    BY <1>3, ChunksOfParts
  <2>2. PICK more \in Seq(Signs) : Beginning(q, Chunks[q]) = Beginning(q, c) \o more
    BY <2>1, BeginningGrows
  <2> DEFINE h == q + 1
  <2>3. Upto(q) \in Seq(Signs) /\ Beginning(q, c) \in Seq(Signs)
    BY <2>1, UptoIsText, BeginningIsText
  <2>4. Upto(h) = Upto(q) \o (Beginning(q, c) \o more)  BY <2>1, <2>2, UptoIsText DEF PartText
  <2>5. h \in 1 .. Places + 1  BY <1>1, <2>1
  <2> HIDE DEF h
  <2>6. PICK rest \in Seq(Signs) : WholeText = Upto(h) \o rest  BY <2>5, UptoBegins
  <2>7. WholeText = (Upto(q) \o (Beginning(q, c) \o more)) \o rest  BY <2>4, <2>6
  <2>8. IsPrefix(Upto(q) \o Beginning(q, c), (Upto(q) \o (Beginning(q, c) \o more)) \o rest)
    BY <2>3, PrefixOfMore
  <2> QED  BY <2>7, <2>8 DEF Text
<1> QED  BY <1>2, <1>3

-----------------------------------------------------------------------------
(* What the accumulator holds. *)

\* With indexes it has each part so far; without, the text so far under key 0.
Gathered(indexed, q, c) ==
    IF indexed
    THEN [p \in 1 .. (IF c = 0 THEN q - 1 ELSE q) |->
             [key |-> p, text |-> IF p < q THEN PartText(p) ELSE Beginning(q, c)]]
    ELSE IF Text(q, c) = <<>> THEN <<>> ELSE <<[key |-> 0, text |-> Text(q, c)]>>

\* The text of one part
LEMMA OneText ==
    ASSUME NEW X, NEW t \in Seq(X), NEW key
    PROVE  TextOf(<<[key |-> key, text |-> t]>>) = t
<1> DEFINE parts == <<[key |-> key, text |-> t]>>
           texts == [i \in DOMAIN parts |-> parts[i].text]
<1>1. DOMAIN parts = 1 .. 1 /\ parts[1].text = t  OBVIOUS
<1> HIDE DEF parts
<1>2. DOMAIN texts = 1 .. 1 /\ texts[1] = t /\ texts \in [1 .. 1 -> Seq(X)]  BY <1>1
<1>3. texts \in Seq(Seq(X))
  <2>1. 1 \in Nat  OBVIOUS
  <2> QED  BY <1>2, <2>1, SeqDef
<1>4. TextOf(parts) = FlattenSeq(texts)  BY DEF TextOf
<1> HIDE DEF texts
<1>5. Len(texts) = 1  BY <1>2, <1>3, LenProperties
<1> DEFINE one == 1
<1>6. one \in Nat \ {0} /\ one = 1 /\ one \in 1 .. one  OBVIOUS
<1> HIDE DEF one
<1>7. PICK f : Flattening(f, texts, one) /\ FlattenSeq(texts) = f[one]
  BY <1>5, <1>6, FlattenIsFlattening
<1>8. f[one] = texts[one]  BY <1>6, <1>7 DEF Flattening
<1> QED  BY <1>2, <1>4, <1>6, <1>7, <1>8 DEF parts

\* No part, no text
LEMMA NoText == TextOf(<<>>) = <<>>
<1> DEFINE texts == [i \in DOMAIN <<>> |-> <<>>[i].text]
<1>1. DOMAIN <<>> = {}  OBVIOUS
<1>2. texts = <<>>
  <2>1. DOMAIN texts = {}  BY <1>1
  <2>2. 0 \in Nat /\ 1 .. 0 = {}  OBVIOUS
  <2>3. texts \in [1 .. 0 -> {}]  BY <2>1, <2>2
  <2>4. texts \in Seq({})  BY <2>2, <2>3, SeqDef
  <2> HIDE DEF texts
  <2>5. Len(texts) \in Nat /\ 1 .. Len(texts) = {}  BY <2>1, <2>4, LenProperties
  <2>6. Len(texts) = 0  BY <2>5
  <2> QED  BY <2>4, <2>6, EmptySeq
<1>3. TextOf(<<>>) = FlattenSeq(texts)  BY DEF TextOf
<1> HIDE DEF texts
<1>4. Len(texts) = 0  BY <1>2, EmptySeq
<1>5. FlattenSeq(texts) = texts  BY <1>4 DEF FlattenSeq
<1> QED  BY <1>2, <1>3, <1>5

\* The text of what is held is the text so far.
LEMMA HeldText ==
    ASSUME NEW indexed \in BOOLEAN, NEW q \in 1 .. Places + 1, NEW c \in Nat
    PROVE  TextOf(Gathered(indexed, q, c)) = Text(q, c)
<1>1. q \in Nat /\ q >= 1 /\ q <= Places + 1 /\ Places \in Nat  BY ChunksOfParts
<1>2. CASE ~indexed
  <2>1. Text(q, c) \in Seq(Signs)  BY TextIsText
  <2>2. CASE Text(q, c) = <<>>
    <3>1. Gathered(indexed, q, c) = <<>>  BY <1>2, <2>2 DEF Gathered
    <3> QED  BY <2>2, <3>1, NoText
  <2>3. CASE Text(q, c) # <<>>
    <3>1. Gathered(indexed, q, c) = <<[key |-> 0, text |-> Text(q, c)]>>  BY <1>2, <2>3 DEF Gathered
    <3> QED  BY <2>1, <3>1, OneText
  <2> QED  BY <2>2, <2>3
<1>3. CASE indexed
  <2> DEFINE n == IF c = 0 THEN q - 1 ELSE q
             held == Gathered(indexed, q, c)  texts == [i \in DOMAIN held |-> held[i].text]
             a == [p \in 1 .. q - 1 |-> PartText(p)]  x == Beginning(q, c)
  <2>1. held = [p \in 1 .. n |-> [key |-> p, text |-> IF p < q THEN PartText(p) ELSE x]]
    BY <1>3 DEF Gathered
  <2>2. DOMAIN held = 1 .. n /\ \A p \in 1 .. n : held[p].text = IF p < q THEN PartText(p) ELSE x
    BY <2>1
  <2> HIDE DEF held
  <2>3. texts = [p \in 1 .. n |-> IF p < q THEN PartText(p) ELSE x]  BY <2>2
  <2>4. TextOf(held) = FlattenSeq(texts)  BY DEF TextOf
  <2>5. CASE c = 0
    <3>1. \A p \in 1 .. q - 1 : p < q  BY <1>1
    <3>2. texts = a  BY <2>3, <2>5, <3>1
    <3>3. FlattenSeq(a) = Upto(q)  BY DEF Upto
    <3>4. Text(q, 0) = Upto(q)  BY TextIsText
    <3> QED  BY <2>4, <2>5, <3>2, <3>3, <3>4 DEF held
  <2>6. CASE c # 0
    <3>1. q - 1 \in Nat /\ \A p \in 1 .. q - 1 : p \in 1 .. Places /\ p \in Nat /\ p < q /\ p \in 1 .. q
      BY <1>1
    <3>2. \A p \in 1 .. q - 1 : PartText(p) \in Seq(Signs)
      BY <3>1, BeginningIsText, ChunksOfParts DEF PartText
    <3>3. a \in [1 .. q - 1 -> Seq(Signs)]  BY <3>2
    <3>4. a \in Seq(Seq(Signs)) /\ Len(a) = q - 1
      <4>1. a \in Seq(Seq(Signs))  BY <3>1, <3>3, SeqDef
      <4>2. DOMAIN a = 1 .. q - 1  OBVIOUS
      <4> HIDE DEF a
      <4>3. Len(a) \in Nat /\ DOMAIN a = 1 .. Len(a)  BY <4>1, LenProperties
      <4> QED  BY <3>1, <4>1, <4>2, <4>3
    <3>5. x \in Seq(Signs)  BY <1>1, BeginningIsText
    <3>6. \A p \in 1 .. q - 1 : a[p] = PartText(p)  OBVIOUS
    <3>7. Upto(q) = FlattenSeq(a)  BY DEF Upto
    <3>8. texts = [p \in 1 .. q |-> IF p < q THEN PartText(p) ELSE x]  BY <2>3, <2>6
    <3> HIDE DEF a, x, texts
    <3>9. /\ Append(a, x) \in Seq(Seq(Signs)) /\ Len(Append(a, x)) = (q - 1) + 1
          /\ \A i \in 1 .. q - 1 : Append(a, x)[i] = a[i]
          /\ Append(a, x)[(q - 1) + 1] = x
      BY <3>4, <3>5, AppendProperties
    <3>10. (q - 1) + 1 = q /\ ~(q < q)  BY <1>1
    <3>11. DOMAIN Append(a, x) = 1 .. q  BY <3>9, <3>10, LenProperties
    <3>12. ASSUME NEW p \in 1 .. q  PROVE Append(a, x)[p] = IF p < q THEN PartText(p) ELSE x
      <4>1. CASE p = q
        BY <3>9, <3>10, <4>1
      <4>2. CASE p # q
        <5>1. p \in 1 .. q - 1 /\ p < q  BY <1>1, <4>2
        <5> QED  BY <3>6, <3>9, <5>1
      <4> QED  BY <4>1, <4>2
    <3>13. Append(a, x) = texts
      <4>1. Append(a, x) = [p \in DOMAIN Append(a, x) |-> Append(a, x)[p]]
        BY <3>9, LenProperties
      <4> QED  BY <3>8, <3>11, <3>12, <4>1
    <3>14. FlattenSeq(Append(a, x)) = FlattenSeq(a) \o x  BY <3>4, <3>5, FlattenMore
    <3> QED  BY <2>4, <3>7, <3>13, <3>14 DEF Text, held, x
  <2> QED  BY <2>5, <2>6
<1> QED  BY <1>2, <1>3

\* With indexes the parts are held in their order, the one that comes as the last.
LEMMA HeldPart ==
    ASSUME NEW q \in 1 .. Places, NEW c \in Nat
    PROVE  /\ DOMAIN Gathered(TRUE, q, c) = 1 .. (IF c = 0 THEN q - 1 ELSE q)
           /\ \A p \in 1 .. (IF c = 0 THEN q - 1 ELSE q) :
                 Gathered(TRUE, q, c)[p] = [key |-> p, text |-> IF p < q THEN PartText(p) ELSE Beginning(q, c)]
           /\ Parts(Gathered(TRUE, q, c), q) = IF c = 0 THEN {} ELSE {q}
           /\ TextAt(Gathered(TRUE, q, c), q) = Beginning(q, c)
<1> DEFINE n == IF c = 0 THEN q - 1 ELSE q  held == Gathered(TRUE, q, c)
           text(p) == IF p < q THEN PartText(p) ELSE Beginning(q, c)
<1>1. q \in Nat /\ q >= 1 /\ ~(q < q)  BY ChunksOfParts
<1>2. held = [p \in 1 .. n |-> [key |-> p, text |-> text(p)]]  BY DEF Gathered
<1> HIDE DEF text
<1>3. DOMAIN held = 1 .. n /\ \A p \in 1 .. n : held[p] = [key |-> p, text |-> text(p)]  BY <1>2
<1> HIDE DEF held
<1>4. ASSUME NEW p \in 1 .. n  PROVE held[p].key = p /\ held[p].text = text(p)
  <2> DEFINE t == text(p)
  <2>1. held[p] = [key |-> p, text |-> t]  BY <1>3
  <2> HIDE DEF t
  <2>2. held[p].key = p /\ held[p].text = t  BY <2>1
  <2> QED  BY <2>2 DEF t
<1>5. Parts(held, q) = {p \in 1 .. n : p = q}  BY <1>3, <1>4 DEF Parts
<1>6. Parts(held, q) = IF c = 0 THEN {} ELSE {q}
  <2>1. CASE c = 0
    <3>1. \A p \in 1 .. q - 1 : p # q  BY <1>1
    <3> QED  BY <1>5, <2>1, <3>1
  <2>2. CASE c # 0
    <3>1. q \in 1 .. q  BY <1>1
    <3> QED  BY <1>5, <2>2, <3>1
  <2> QED  BY <2>1, <2>2
<1>7. TextAt(held, q) = Beginning(q, c)
  <2>1. CASE c = 0
    <3>1. TextAt(held, q) = <<>>  BY <1>6, <2>1 DEF TextAt
    <3>2. Beginning(q, 0) \in Seq(Signs) /\ Len(Beginning(q, 0)) = 0  BY <1>1, BeginningIsText
    <3>3. Beginning(q, 0) = <<>>  BY <3>2, EmptySeq
    <3> QED  BY <2>1, <3>1, <3>3
  <2>2. CASE c # 0
    <3>1. Parts(held, q) = {q} /\ n = q  BY <1>6, <2>2
    <3>2. (CHOOSE i \in {q} : TRUE) = q  OBVIOUS
    <3>3. TextAt(held, q) = held[q].text  BY <3>1, <3>2 DEF TextAt
    <3>4. q \in 1 .. n  BY <1>1, <3>1
    <3>5. text(q) = Beginning(q, c)  BY <1>1 DEF text
    <3> QED  BY <1>4, <3>3, <3>4, <3>5
  <2> QED  BY <2>1, <2>2
<1> QED  BY <1>3, <1>6, <1>7 DEF held, text

\* A part's text is set where it is, or added as the last.
LEMMA HeldSet ==
    ASSUME NEW q \in 1 .. Places, NEW c \in Nat, NEW d \in Nat \ {0}
    PROVE  SetText(Gathered(TRUE, q, c), q, Beginning(q, d)) = Gathered(TRUE, q, d)
<1> DEFINE held == Gathered(TRUE, q, c)  then == Gathered(TRUE, q, d)  x == Beginning(q, d)
           set == SetText(held, q, x)  n == IF c = 0 THEN q - 1 ELSE q
           Stored == [key : Nat, text : Seq(Signs)]
<1>1. q \in Nat /\ q >= 1 /\ q <= Places /\ Places \in Nat  BY ChunksOfParts
<1>2. /\ DOMAIN held = 1 .. n
      /\ \A p \in 1 .. n : held[p] = [key |-> p, text |-> IF p < q THEN PartText(p) ELSE Beginning(q, c)]
      /\ Parts(held, q) = IF c = 0 THEN {} ELSE {q}
  BY HeldPart
<1>3. then = [p \in 1 .. q |-> [key |-> p, text |-> IF p < q THEN PartText(p) ELSE x]]
  BY DEF Gathered
<1>4. x \in Seq(Signs)  BY <1>1, BeginningIsText
<1>5. \A p \in 1 .. q - 1 : PartText(p) \in Seq(Signs)
  <2>1. \A p \in 1 .. q - 1 : p \in 1 .. Places /\ p \in Nat  BY <1>1
  <2> QED  BY <2>1, BeginningIsText, ChunksOfParts DEF PartText
<1> HIDE DEF held, then, x
<1>6. CASE c = 0
  <2> DEFINE added == [key |-> q, text |-> x]
  <2>1. set = Append(held, added)  BY <1>2, <1>6 DEF SetText
  <2>2. n = q - 1 /\ q - 1 \in Nat /\ (q - 1) + 1 = q /\ ~(q < q)  BY <1>1, <1>6
  <2>3. \A p \in 1 .. q - 1 : p < q /\ p \in Nat  BY <1>1
  <2>4. \A p \in 1 .. q - 1 : held[p] = [key |-> p, text |-> PartText(p)] /\ held[p] \in Stored
    BY <1>2, <1>5, <2>2, <2>3
  <2>5. added \in Stored  BY <1>1, <1>4
  <2> HIDE DEF Stored, n
  <2>6. held \in Seq(Stored) /\ Len(held) = q - 1
    <3>1. DOMAIN held = 1 .. q - 1  BY <1>2, <2>2
    <3>2. held = [p \in DOMAIN held |-> held[p]]
      <4>1. held = [p \in 1 .. n |-> [key |-> p, text |-> IF p < q THEN PartText(p) ELSE Beginning(q, c)]]
        BY DEF held, Gathered, n
      <4> QED  BY <4>1
    <3>3. held \in [1 .. q - 1 -> Stored]  BY <2>4, <3>1, <3>2
    <3>4. held \in Seq(Stored)  BY <2>2, <3>3, SeqDef
    <3>5. Len(held) \in Nat /\ DOMAIN held = 1 .. Len(held)  BY <3>4, LenProperties
    <3> QED  BY <2>2, <3>1, <3>4, <3>5
  <2> HIDE DEF added, set
  <2>7. /\ Append(held, added) \in Seq(Stored) /\ Len(Append(held, added)) = (q - 1) + 1
        /\ \A i \in 1 .. q - 1 : Append(held, added)[i] = held[i]
        /\ Append(held, added)[(q - 1) + 1] = added
    BY <2>5, <2>6, AppendProperties
  <2>8. DOMAIN set = 1 .. q /\ set = [p \in DOMAIN set |-> set[p]]
    BY <2>1, <2>2, <2>7, LenProperties
  <2>9. ASSUME NEW p \in 1 .. q
        PROVE  set[p] = [key |-> p, text |-> IF p < q THEN PartText(p) ELSE x]
    <3>1. CASE p = q
      BY <2>1, <2>2, <2>7, <3>1 DEF added
    <3>2. CASE p # q
      <4>1. p \in 1 .. q - 1 /\ p < q  BY <1>1, <3>2
      <4> QED  BY <2>1, <2>4, <2>7, <4>1
    <3> QED  BY <3>1, <3>2
  <2>10. set = then  BY <1>3, <2>8, <2>9
  <2> QED  BY <2>10 DEF set, held, then, x
<1>7. CASE c # 0
  <2>1. n = q /\ q \in 1 .. q /\ ~(q < q)  BY <1>1, <1>7
  <2>2. set = [i \in 1 .. q |-> IF held[i].key = q THEN [held[i] EXCEPT !.text = x] ELSE held[i]]
    BY <1>2, <1>7, <2>1 DEF SetText
  <2>3. ASSUME NEW p \in 1 .. q
        PROVE  (IF held[p].key = q THEN [held[p] EXCEPT !.text = x] ELSE held[p])
                   = [key |-> p, text |-> IF p < q THEN PartText(p) ELSE x]
    <3>1. held[p] = [key |-> p, text |-> IF p < q THEN PartText(p) ELSE Beginning(q, c)]
      BY <1>2, <2>1
    <3>2. CASE p = q
      BY <2>1, <3>1, <3>2
    <3>3. CASE p # q
      <4>1. p < q  BY <1>1, <3>3
      <4> QED  BY <3>1, <3>3, <4>1
    <3> QED  BY <3>2, <3>3
  <2>4. set = then  BY <1>3, <2>2, <2>3
  <2> QED  BY <2>4 DEF held, then, x
<1> QED  BY <1>6, <1>7

\* When a part is whole the next one begins.
LEMMA HeldGoesOn ==
    ASSUME NEW indexed \in BOOLEAN, NEW q \in 1 .. Places
    PROVE  Gathered(indexed, q, Chunks[q]) = Gathered(indexed, q + 1, 0)
<1>1. q \in Nat /\ q <= Places /\ Places \in Nat /\ Chunks[q] # 0 /\ (q + 1) - 1 = q
  BY ChunksOfParts
<1>2. CASE indexed
  <2>1. Gathered(indexed, q, Chunks[q]) =
           [p \in 1 .. q |-> [key |-> p, text |-> IF p < q THEN PartText(p) ELSE PartText(q)]]
    BY <1>1, <1>2 DEF Gathered, PartText
  <2>2. Gathered(indexed, q + 1, 0) =
           [p \in 1 .. q |-> [key |-> p, text |-> IF p < q + 1 THEN PartText(p) ELSE Beginning(q + 1, 0)]]
    BY <1>1, <1>2 DEF Gathered
  <2>3. ASSUME NEW p \in 1 .. q
        PROVE  /\ (IF p < q THEN PartText(p) ELSE PartText(q)) = PartText(p)
               /\ (IF p < q + 1 THEN PartText(p) ELSE Beginning(q + 1, 0)) = PartText(p)
    <3>1. p < q + 1 /\ (~(p < q) => p = q)  BY <1>1
    <3> QED  BY <3>1
  <2> QED  BY <2>1, <2>2, <2>3
<1>3. CASE ~indexed
  <2>1. Text(q, Chunks[q]) = Text(q + 1, 0)  BY TextGoesOn
  <2> QED  BY <1>3, <2>1 DEF Gathered
<1> QED  BY <1>2, <1>3

\* Without indexes all is held as one part.
LEMMA HeldPlain ==
    ASSUME NEW q \in 1 .. Places + 1, NEW c \in Nat, NEW t
    PROVE  /\ TextAt(Gathered(FALSE, q, c), 0) = Text(q, c)
           /\ SetText(Gathered(FALSE, q, c), 0, t) = <<[key |-> 0, text |-> t]>>
<1> DEFINE held == Gathered(FALSE, q, c)
<1>1. CASE Text(q, c) = <<>>
  <2>1. held = <<>>  BY <1>1 DEF Gathered
  <2>2. DOMAIN <<>> = {}  OBVIOUS
  <2> HIDE DEF held
  <2>3. Parts(held, 0) = {}  BY <2>1, <2>2 DEF Parts
  <2>4. TextAt(held, 0) = <<>>  BY <2>3 DEF TextAt
  <2>5. SetText(held, 0, t) = Append(<<>>, [key |-> 0, text |-> t])  BY <2>1, <2>3 DEF SetText
  <2>6. Append(<<>>, [key |-> 0, text |-> t]) = <<[key |-> 0, text |-> t]>>  OBVIOUS
  <2> QED  BY <1>1, <2>4, <2>5, <2>6 DEF held
<1>2. CASE Text(q, c) # <<>>
  <2> DEFINE one == 1
  <2>1. held = <<[key |-> 0, text |-> Text(q, c)]>>  BY <1>2 DEF Gathered
  <2>2. DOMAIN held = 1 .. one /\ held[one] = [key |-> 0, text |-> Text(q, c)]
    <3> DEFINE r == [key |-> 0, text |-> Text(q, c)]
    <3> HIDE DEF r, held
    <3>1. held = <<r>>  BY <2>1 DEF r
    <3>2. DOMAIN <<r>> = 1 .. 1 /\ <<r>>[1] = r  OBVIOUS
    <3>3. DOMAIN held = 1 .. 1 /\ held[1] = r  BY <3>1, <3>2
    <3> QED  BY <3>3 DEF r
  <2>3. 1 .. one = {one}  OBVIOUS
  <2>4. <<[key |-> 0, text |-> t]>> = [i \in 1 .. one |-> [key |-> 0, text |-> t]]  OBVIOUS
  <2> HIDE DEF held, one
  <2>5. held[one].key = 0 /\ held[one].text = Text(q, c)  BY <2>2
  <2>6. Parts(held, 0) = {one}  BY <2>2, <2>3, <2>5 DEF Parts
  <2>7. (CHOOSE i \in {one} : TRUE) = one  OBVIOUS
  <2>8. TextAt(held, 0) = Text(q, c)  BY <2>5, <2>6, <2>7 DEF TextAt
  <2>9. SetText(held, 0, t) =
           [i \in {one} |-> IF held[i].key = 0 THEN [held[i] EXCEPT !.text = t] ELSE held[i]]
    BY <2>2, <2>3, <2>6 DEF SetText
  <2>10. [held[one] EXCEPT !.text = t] = [key |-> 0, text |-> t]  BY <2>2
  <2>11. SetText(held, 0, t) = [i \in {one} |-> [key |-> 0, text |-> t]]  BY <2>5, <2>9, <2>10
  <2> QED  BY <2>3, <2>4, <2>8, <2>11 DEF held
<1> QED  BY <1>1, <1>2

-----------------------------------------------------------------------------
(* The events of a stream. *)

\* What event k of a part does: it brings chunk k or all of the first d chunks,
\* and the last event has brought the whole part.
Brings(e, p, key, k, last) ==
    /\ k - 1 <= Chunks[p]
    /\ \/ e = Event("delta", key, <<<<p, k>>>>) /\ (k = last => k = Chunks[p])
       \/ \E d \in Nat \ {0} : /\ e = Snapshot(p, key, d) /\ k - 1 <= d
                               /\ (k < last => d = k) /\ (k = last => d = Chunks[p])

\* Every event of a part, in whichever way it comes, brings that.
LEMMA EventsOfPart ==
    ASSUME NEW p \in 1 .. Places, NEW key, NEW way \in Ways(FALSE)
    PROVE  /\ Len(PartEvents(p, key)[way]) \in Nat \ {0}
           /\ \A k \in 1 .. Len(PartEvents(p, key)[way]) :
                 /\ Brings(PartEvents(p, key)[way][k], p, key, k, Len(PartEvents(p, key)[way]))
                 /\ way = "deltas" => PartEvents(p, key)[way][k] = Event("delta", key, <<<<p, k>>>>)
                 /\ way = "full" => /\ k = 1 /\ Len(PartEvents(p, key)[way]) = 1
                                    /\ PartEvents(p, key)[way][k] = Snapshot(p, key, Chunks[p])
<1> DEFINE n == Chunks[p]  full == Snapshot(p, key, n)  first == Snapshot(p, key, 1)
           Delta(i) == Event("delta", key, <<<<p, i>>>>)
           deltas == [i \in 1 .. n |-> Delta(i)]
           all == PartEvents(p, key)  Some == {full} \cup {Delta(i) : i \in 1 .. n}
<1>1. n \in Nat /\ n > 0 /\ 1 <= n  BY ChunksOfParts
<1>2. all = [deltas |-> deltas, full |-> <<full>>, both |-> Append(deltas, full),
             grown |-> <<first, full>>]
  BY DEF PartEvents
<1> HIDE DEF all, full, first, Delta, n
<1>3. deltas \in Seq(Some) /\ Len(deltas) = n /\ \A i \in 1 .. n : deltas[i] = Delta(i)
  <2>1. deltas \in [1 .. n -> Some] /\ DOMAIN deltas = 1 .. n  OBVIOUS
  <2>2. \A i \in 1 .. n : deltas[i] = Delta(i)  OBVIOUS
  <2> HIDE DEF deltas, Some
  <2>3. deltas \in Seq(Some)  BY <1>1, <2>1, SeqDef
  <2>4. Len(deltas) \in Nat /\ DOMAIN deltas = 1 .. Len(deltas)  BY <2>3, LenProperties
  <2> QED  BY <1>1, <2>1, <2>2, <2>3, <2>4
<1>4. full \in Some  OBVIOUS
<1> HIDE DEF deltas, Some
<1>5. CASE way = "deltas"
  <2>1. all[way] = deltas  BY <1>2, <1>5
  <2>2. \A k \in 1 .. n : Brings(deltas[k], p, key, k, n)
    <3>1. \A k \in 1 .. n : k - 1 <= n  BY <1>1
    <3> QED  BY <1>3, <3>1 DEF Brings, Delta, n
  <2> QED  BY <1>1, <1>3, <1>5, <2>1, <2>2 DEF all, Delta
<1>6. CASE way = "full"
  <2> DEFINE es == <<full>>
  <2>1. all[way] = es  BY <1>2, <1>6
  <2>2. Len(es) = 1 /\ es[1] = full  OBVIOUS
  <2> HIDE DEF es
  <2>3. \A k \in 1 .. 1 : k = 1  OBVIOUS
  <2>4. Brings(full, p, key, 1, 1)
    <3>1. 1 - 1 <= n /\ ~(1 < 1) /\ n \in Nat \ {0}  BY <1>1
    <3> QED  BY <3>1 DEF Brings, full, n
  <2> QED  BY <1>1, <1>6, <2>1, <2>2, <2>3, <2>4 DEF all, full, n
<1>7. CASE way = "both"
  <2> DEFINE es == Append(deltas, full)  h == n + 1
  <2>1. all[way] = es  BY <1>2, <1>7
  <2>2. Len(es) = h /\ es[h] = full /\ \A i \in 1 .. n : es[i] = deltas[i]
    BY <1>3, <1>4, AppendProperties
  <2>3. h \in Nat \ {0} /\ h - 1 <= n /\ ~(h < h) /\ \A k \in 1 .. h : k = h \/ (k \in 1 .. n /\ k # h)
    BY <1>1
  <2> HIDE DEF es, h
  <2>4. Brings(full, p, key, h, h)
    <3>1. n \in Nat \ {0}  BY <1>1
    <3> QED  BY <2>3, <3>1 DEF Brings, full, n
  <2>5. \A k \in 1 .. n : k # h => Brings(deltas[k], p, key, k, h)
    <3>1. \A k \in 1 .. n : k - 1 <= n  BY <1>1
    <3> QED  BY <1>3, <3>1 DEF Brings, Delta, n
  <2>6. \A k \in 1 .. h : Brings(es[k], p, key, k, h)  BY <2>2, <2>3, <2>4, <2>5
  <2> QED  BY <1>7, <2>1, <2>2, <2>3, <2>6 DEF all
<1>8. CASE way = "grown"
  <2> DEFINE es == <<first, full>>
  <2>1. all[way] = es  BY <1>2, <1>8
  <2>2. Len(es) = 2 /\ es[1] = first /\ es[2] = full  OBVIOUS
  <2> HIDE DEF es
  <2>3. \A k \in 1 .. 2 : k = 1 \/ k = 2  OBVIOUS
  <2>4. Brings(first, p, key, 1, 2)
    <3>1. 1 - 1 <= n /\ 1 \in Nat \ {0} /\ 1 - 1 <= 1 /\ 1 < 2 /\ 1 # 2  BY <1>1
    <3> QED  BY <3>1 DEF Brings, first, n
  <2>5. Brings(full, p, key, 2, 2)
    <3>1. n \in Nat \ {0} /\ 2 - 1 <= n /\ ~(2 < 2)  BY <1>1
    <3> QED  BY <3>1 DEF Brings, full, n
  <2>6. \A k \in 1 .. 2 : Brings(es[k], p, key, k, 2)  BY <2>2, <2>3, <2>4, <2>5
  <2> QED  BY <1>8, <2>1, <2>2, <2>6 DEF all
<1> QED  BY <1>5, <1>6, <1>7, <1>8 DEF Ways

\* A stream of all parts; without indexes they come in deltas or as snapshots.
Shaped(s, ways, indexed, whole) ==
    /\ ways \in [1 .. Places -> Ways(FALSE)] /\ indexed \in BOOLEAN /\ whole \in BOOLEAN
    /\ ~indexed => \A p \in 1 .. Places : ways[p] \in {"deltas", "full"}
    /\ s = Stream(ways, indexed, whole)

\* A stream has the events of its parts, and then the last event.
LEMMA ShapeOfStream ==
    ASSUME NEW s, NEW ways, NEW indexed, NEW whole, Shaped(s, ways, indexed, whole)
    PROVE  /\ Len(s) = Places + 1 /\ s[Places + 1] = LastEvent(whole)
           /\ \A p \in 1 .. Places : s[p] = PartEvents(p, IF indexed THEN p ELSE 0)[ways[p]]
<1> DEFINE Of(p) == PartEvents(p, IF indexed THEN p ELSE 0)[ways[p]]
           parts == [p \in 1 .. Places |-> Of(p)]  last == LastEvent(whole)
           All == {Of(p) : p \in 1 .. Places} \cup {last}
<1>1. s = Append(parts, last)  BY ChunksOfParts DEF Shaped, Stream
<1> HIDE DEF Of
<1>2. Places \in Nat  BY ChunksOfParts
<1>3. parts \in [1 .. Places -> All] /\ DOMAIN parts = 1 .. Places /\ last \in All
      /\ \A p \in 1 .. Places : parts[p] = Of(p)
  OBVIOUS
<1> HIDE DEF parts, All, last
<1>4. parts \in Seq(All)  BY <1>2, <1>3, SeqDef
<1>5. Len(parts) \in Nat /\ DOMAIN parts = 1 .. Len(parts)  BY <1>4, LenProperties
<1>6. Len(parts) = Places  BY <1>2, <1>3, <1>5
<1>7. /\ Len(s) = Places + 1 /\ s[Places + 1] = last /\ \A i \in 1 .. Places : s[i] = parts[i]
  BY <1>1, <1>3, <1>4, <1>6, AppendProperties
<1> QED  BY <1>3, <1>7 DEF last, Of

\* A snapshot that has grown replaces what is held of its part.
LEMMA BeginningReconciled ==
    ASSUME NEW p \in Nat, NEW c \in Nat, NEW d \in Nat, c <= d
    PROVE  Reconciled(Beginning(p, c), Beginning(p, d)) = Beginning(p, d)
<1>1. PICK rest \in Seq(Signs) : Beginning(p, d) = Beginning(p, c) \o rest  BY BeginningGrows
<1>2. Beginning(p, c) \in Seq(Signs)  BY BeginningIsText
<1>3. IsPrefix(Beginning(p, c), Beginning(p, d))  BY <1>1, <1>2, PrefixOfConcat
<1> QED  BY <1>3 DEF Reconciled

\* What an event of a part adds to what is held
LEMMA EventIsHeld ==
    ASSUME NEW indexed \in BOOLEAN, NEW q \in 1 .. Places, NEW c \in Nat, NEW k, k = c + 1,
           NEW last \in Nat, k <= last, NEW e, Brings(e, q, IF indexed THEN q ELSE 0, k, last),
           ~indexed => \/ e = Event("delta", 0, <<<<q, k>>>>)
                       \/ k = 1 /\ last = 1 /\ e = Snapshot(q, 0, Chunks[q])
    PROVE  Applied(Gathered(indexed, q, c), e) = Gathered(indexed, q, IF k < last THEN k ELSE Chunks[q])
<1> DEFINE held == Gathered(indexed, q, c)
<1>1. /\ q \in Nat /\ q # 0 /\ q \in 1 .. Places + 1 /\ Chunks[q] \in Nat \ {0}
      /\ k \in Nat \ {0} /\ k - 1 = c /\ (~(k < last) => k = last)
  BY ChunksOfParts
<1>2. ASSUME NEW d \in Nat \ {0}
      PROVE  Beginning(q, d) # <<>>
  <2>1. Len(Beginning(q, d)) = d  BY <1>1, BeginningIsText
  <2> QED  BY <2>1, EmptySeq
<1>3. <<<<q, k>>>> # <<>>  OBVIOUS
<1>4. CASE indexed
  <2>1. TextAt(held, q) = Beginning(q, c)  BY <1>4, HeldPart
  <2>2. ASSUME NEW d \in Nat \ {0}  PROVE SetText(held, q, Beginning(q, d)) = Gathered(indexed, q, d)
    BY <1>4, HeldSet
  <2> HIDE DEF held
  <2>3. CASE e = Event("delta", q, <<<<q, k>>>>) /\ (k = last => k = Chunks[q])
    <3>1. e.kind = "delta" /\ e.key = q /\ e.text = <<<<q, k>>>>  BY <2>3 DEF Event
    <3>2. Applied(held, e) = SetText(held, q, TextAt(held, q) \o <<<<q, k>>>>)
      BY <1>3, <3>1 DEF Applied
    <3>3. Beginning(q, c) \o <<<<q, k>>>> = Beginning(q, k)  BY <1>1, TextGoesOn
    <3>4. Applied(held, e) = Gathered(indexed, q, k)  BY <1>1, <2>1, <2>2, <3>2, <3>3
    <3> QED  BY <1>1, <2>3, <3>4 DEF held
  <2>4. CASE \E d \in Nat \ {0} : /\ e = Snapshot(q, q, d) /\ k - 1 <= d
                                  /\ (k < last => d = k) /\ (k = last => d = Chunks[q])
    <3>1. PICK d \in Nat \ {0} : /\ e = Snapshot(q, q, d) /\ k - 1 <= d
                                 /\ (k < last => d = k) /\ (k = last => d = Chunks[q])
      BY <2>4
    <3>2. e.kind = "done" /\ e.key = q /\ e.text = Beginning(q, d)  BY <3>1 DEF Snapshot, Event
    <3>3. e.text # <<>>  BY <1>2, <3>2
    <3>4. Applied(held, e) = SetText(held, q, Reconciled(TextAt(held, q), Beginning(q, d)))
      BY <1>1, <3>2, <3>3 DEF Applied
    <3>5. Reconciled(Beginning(q, c), Beginning(q, d)) = Beginning(q, d)
      BY <1>1, <3>1, BeginningReconciled
    <3>6. Applied(held, e) = Gathered(indexed, q, d)  BY <2>1, <2>2, <3>4, <3>5
    <3> QED  BY <1>1, <3>1, <3>6 DEF held
  <2> QED  BY <1>4, <2>3, <2>4 DEF Brings
<1>5. CASE ~indexed
  <2>0. held = Gathered(FALSE, q, c)  BY <1>5
  <2>1. /\ TextAt(held, 0) = Text(q, c)
        /\ \A t : SetText(held, 0, t) = <<[key |-> 0, text |-> t]>>
    BY <1>1, <2>0, HeldPlain
  <2>2. ASSUME NEW d \in Nat \ {0}  PROVE Gathered(indexed, q, d) = <<[key |-> 0, text |-> Text(q, d)]>>
    <3>1. Text(q, d) # <<>>  BY <1>1, TextIsText
    <3> QED  BY <1>5, <3>1 DEF Gathered
  <2> HIDE DEF held
  <2>3. CASE e = Event("delta", 0, <<<<q, k>>>>)
    <3>1. e.kind = "delta" /\ e.key = 0 /\ e.text = <<<<q, k>>>>  BY <2>3 DEF Event
    <3>2. Applied(held, e) = SetText(held, 0, TextAt(held, 0) \o <<<<q, k>>>>)
      BY <1>3, <3>1 DEF Applied
    <3>3. Text(q, c) \o <<<<q, k>>>> = Text(q, k)  BY <1>1, TextGoesOn
    <3>4. Applied(held, e) = Gathered(indexed, q, k)  BY <1>1, <2>1, <2>2, <3>2, <3>3
    <3>5. k = last => k = Chunks[q]
      <4>1. e.kind = "done" \/ (k = last => k = Chunks[q])
        BY <1>5 DEF Brings, Snapshot, Event
      <4> QED  BY <3>1, <4>1
    <3> QED  BY <1>1, <3>4, <3>5 DEF held
  <2>4. CASE k = 1 /\ last = 1 /\ e = Snapshot(q, 0, Chunks[q])
    <3> DEFINE d == Chunks[q]
    <3>1. e.kind = "done" /\ e.key = 0 /\ e.text = PartText(q)
      BY <2>4 DEF Snapshot, Event, PartText
    <3>2. e.text # <<>>  BY <1>1, <1>2, <3>1 DEF PartText
    <3>3. Applied(held, e) = SetText(held, 0, TextAt(held, 0) \o PartText(q))
      BY <3>1, <3>2 DEF Applied
    <3>4. c = 0  BY <1>1, <2>4
    <3>5. Text(q, c) = Upto(q)  BY <1>1, <3>4, TextIsText
    <3>6. Upto(q) \o PartText(q) = Text(q, d)  BY TextGoesOn
    <3>7. Applied(held, e) = Gathered(indexed, q, d)  BY <1>1, <2>1, <2>2, <3>3, <3>5, <3>6
    <3>8. ~(k < last)  BY <2>4
    <3> QED  BY <3>7, <3>8 DEF held
  <2> QED  BY <1>5, <2>3, <2>4
<1> QED  BY <1>4, <1>5

\* a is what is held of the stream s when its event k of part q is the next one.
HeardOf(s, q, k, a) ==
    \/ \E ways, indexed, whole :
          /\ Shaped(s, ways, indexed, whole)
          /\ \/ q \in 1 .. Places /\ k \in 1 .. Len(s[q]) /\ a = Gathered(indexed, q, k - 1)
             \/ q = Places + 1 /\ k = 1 /\ a = Gathered(indexed, q, 0)
             \/ q = Places + 2 /\ k = 1 /\ TextOf(a) = WholeText
    \/ /\ s = <<LastEvent(TRUE)>> /\ k = 1
       /\ (q = 1 /\ a = <<>>) \/ (q = 2 /\ TextOf(a) = WholeText)

\* Nothing is held before the first part.
LEMMA HeldAtFirst == ASSUME NEW indexed \in BOOLEAN  PROVE Gathered(indexed, 1, 0) = <<>>
<1>1. CASE indexed
  <2>1. Gathered(indexed, 1, 0) = [p \in 1 .. 1 - 1 |->
           [key |-> p, text |-> IF p < 1 THEN PartText(p) ELSE Beginning(1, 0)]]
    BY <1>1 DEF Gathered
  <2>2. 1 .. 1 - 1 = {} /\ DOMAIN <<>> = {}  OBVIOUS
  <2> DEFINE h == Gathered(indexed, 1, 0)
  <2>3. DOMAIN h = {} /\ h = [p \in DOMAIN h |-> h[p]]  BY <2>1, <2>2
  <2> HIDE DEF h
  <2>4. <<>> = [p \in {} |-> <<>>[p]]  BY <2>2
  <2>5. h = [p \in {} |-> h[p]]  BY <2>3
  <2>6. [p \in {} |-> h[p]] = [p \in {} |-> <<>>[p]]  OBVIOUS
  <2>7. h = <<>>  BY <2>4, <2>5, <2>6
  <2> QED  BY <2>7 DEF h
<1>2. CASE ~indexed
  <2>1. 1 \in 1 .. Places + 1  BY ChunksOfParts
  <2>2. Text(1, 0) = Upto(1)
    <3> DEFINE one == 1
    <3>1. one \in 1 .. Places + 1  BY <2>1
    <3> HIDE DEF one
    <3>2. Text(one, 0) = Upto(one)  BY <3>1, TextIsText
    <3> QED  BY <3>2 DEF one
  <2>3. Text(1, 0) = <<>>  BY <2>2, UptoIsText
  <2> QED  BY <1>2, <2>3 DEF Gathered
<1> QED  BY <1>1, <1>2

\* Before a stream begins nothing is held of it.
LEMMA StreamBegins ==
    ASSUME NEW chat \in BOOLEAN, NEW s \in Streams(chat)
    PROVE  HeardOf(s, 1, 1, <<>>)
<1>1. CASE s = <<LastEvent(TRUE)>>
  BY <1>1 DEF HeardOf
<1>2. ASSUME NEW ways, NEW indexed, NEW whole, Shaped(s, ways, indexed, whole)
      PROVE  HeardOf(s, 1, 1, <<>>)
  <2>1. indexed \in BOOLEAN  BY <1>2 DEF Shaped
  <2>2. Gathered(indexed, 1, 0) = <<>>  BY <2>1, HeldAtFirst
  <2>3. Places \in Nat  BY ChunksOfParts
  <2>4. CASE Places = 0
    <3>1. Places + 1 = 1  BY <2>4
    <3> QED  BY <1>2, <2>2, <3>1 DEF HeardOf
  <2>5. CASE Places # 0
    <3> DEFINE one == 1
    <3>1. one \in 1 .. Places /\ one - 1 = 0 /\ one = 1  BY <2>3, <2>5
    <3> HIDE DEF one
    <3>2. s[one] = PartEvents(one, IF indexed THEN one ELSE 0)[ways[one]]
      BY <1>2, <3>1, ShapeOfStream
    <3>3. ways[one] \in Ways(FALSE)  BY <1>2, <3>1 DEF Shaped
    <3> DEFINE way == ways[one]  key == IF indexed THEN one ELSE 0
    <3>4. Len(s[one]) \in Nat \ {0}
      <4>1. s[one] = PartEvents(one, key)[way] /\ way \in Ways(FALSE)  BY <3>2, <3>3
      <4> HIDE DEF way, key
      <4>2. Len(PartEvents(one, key)[way]) \in Nat \ {0}  BY <3>1, <4>1, EventsOfPart
      <4> QED  BY <4>1, <4>2
    <3>5. one \in 1 .. Len(s[one])  BY <3>1, <3>4
    <3>6. <<>> = Gathered(indexed, one, one - 1)  BY <2>2, <3>1
    <3>7. HeardOf(s, one, one, <<>>)  BY <1>2, <3>1, <3>5, <3>6 DEF HeardOf
    <3> QED  BY <3>7 DEF one
  <2> QED  BY <2>4, <2>5
<1>3. Ways(chat) \subseteq Ways(FALSE) /\ DOMAIN Chunks = 1 .. Places  BY ChunksOfParts DEF Ways
<1>4. ASSUME NEW whole \in BOOLEAN,
             s \in {Stream(ways, TRUE, whole) : ways \in [DOMAIN Chunks -> Ways(chat)]}
      PROVE  HeardOf(s, 1, 1, <<>>)
  <2>1. PICK ways \in [DOMAIN Chunks -> Ways(chat)] : s = Stream(ways, TRUE, whole)
    BY <1>4
  <2>2. ways \in [1 .. Places -> Ways(FALSE)]  BY <1>3
  <2>3. Shaped(s, ways, TRUE, whole)  BY <2>1, <2>2 DEF Shaped
  <2> QED  BY <1>2, <2>3
<1>5. ASSUME NEW whole \in BOOLEAN,
             s \in {Stream([p \in DOMAIN Chunks |-> way], FALSE, whole) :
                       way \in Ways(chat) \cap {"deltas", "full"}}
      PROVE  HeardOf(s, 1, 1, <<>>)
  <2>1. PICK way \in Ways(chat) \cap {"deltas", "full"} :
            s = Stream([p \in DOMAIN Chunks |-> way], FALSE, whole)
    BY <1>5
  <2> DEFINE ways == [p \in DOMAIN Chunks |-> way]
  <2>2. ways \in [1 .. Places -> Ways(FALSE)] /\ \A p \in 1 .. Places : ways[p] \in {"deltas", "full"}
    BY <1>3
  <2>3. s = Stream(ways, FALSE, whole)  BY <2>1
  <2> HIDE DEF ways
  <2>4. Shaped(s, ways, FALSE, whole)  BY <2>2, <2>3 DEF Shaped
  <2> QED  BY <1>2, <2>4
<1>6. \/ s = <<LastEvent(TRUE)>>
      \/ \E whole \in BOOLEAN :
            \/ s \in {Stream(ways, TRUE, whole) : ways \in [DOMAIN Chunks -> Ways(chat)]}
            \/ s \in {Stream([p \in DOMAIN Chunks |-> way], FALSE, whole) :
                         way \in Ways(chat) \cap {"deltas", "full"}}
  BY DEF Streams
<1> QED  BY <1>1, <1>4, <1>5, <1>6

\* The last event has the whole text or none, and the whole text is held then.
LEMMA LastIsWhole ==
    ASSUME NEW a, NEW whole \in BOOLEAN,
           TextOf(a) = WholeText \/ (whole /\ a = <<>>)
    PROVE  /\ TextOf(Applied(a, LastEvent(whole)[1])) = WholeText
           /\ Len(LastEvent(whole)) = 1
<1> DEFINE text == IF whole THEN WholeText ELSE <<>>  e == Event("whole", 0, text)
<1>1. LastEvent(whole) = <<e>>  BY DEF LastEvent
<1>2. <<e>>[1] = e /\ Len(<<e>>) = 1  OBVIOUS
<1>3. e.kind = "whole" /\ e.key = 0 /\ e.text = text  BY DEF Event
<1>4. WholeText \in Seq(Signs)
  <2> DEFINE q == Places + 1
  <2>1. q \in 1 .. Places + 1  BY ChunksOfParts
  <2> HIDE DEF q
  <2>2. Upto(q) \in Seq(Signs)  BY <2>1, UptoIsText
  <2> QED  BY <2>2, UptoIsText DEF q
<1> HIDE DEF e
<1>5. CASE text = <<>>
  <2>1. Applied(a, e) = a  BY <1>3, <1>5 DEF Applied
  <2>2. whole => WholeText = <<>>  BY <1>5
  <2>3. TextOf(a) = WholeText  BY <2>2, NoText
  <2> QED  BY <1>1, <1>2, <2>1, <2>3
<1>6. CASE text # <<>>
  <2>1. whole /\ text = WholeText  BY <1>6
  <2>2. Applied(a, e) = <<[key |-> 0, text |-> Reconciled(TextOf(a), WholeText)]>>
    BY <1>3, <1>6, <2>1 DEF Applied
  <2>3. <<>> \in Seq(Signs) /\ WholeText \o <<>> = WholeText /\ <<>> \o WholeText = WholeText
    BY <1>4, EmptySeq, ConcatEmptySeq
  <2>4. IsPrefix(WholeText, WholeText \o <<>>) /\ IsPrefix(<<>>, <<>> \o WholeText)
    BY <1>4, <2>3, PrefixOfConcat
  <2>5. TextOf(a) = WholeText \/ TextOf(a) = <<>>  BY NoText
  <2>6. IsPrefix(TextOf(a), WholeText)  BY <2>3, <2>4, <2>5
  <2>7. Reconciled(TextOf(a), WholeText) = WholeText  BY <2>6 DEF Reconciled
  <2>8. TextOf(<<[key |-> 0, text |-> WholeText]>>) = WholeText  BY <1>4, OneText
  <2> QED  BY <1>1, <1>2, <2>2, <2>7, <2>8
<1> QED  BY <1>5, <1>6

\* The next event that is applied leaves what is held up to the one after it.
LEMMA StreamGoesOn ==
    ASSUME NEW s, NEW q, NEW k, NEW a, HeardOf(s, q, k, a), q <= Len(s)
    PROVE  /\ k < Len(s[q]) => HeardOf(s, q, k + 1, Applied(a, s[q][k]))
           /\ ~(k < Len(s[q])) => HeardOf(s, q + 1, 1, Applied(a, s[q][k]))
<1> DEFINE b == Applied(a, s[q][k])
<1>0. Places \in Nat  BY ChunksOfParts
<1>1. CASE s = <<LastEvent(TRUE)>> /\ k = 1 /\ ((q = 1 /\ a = <<>>) \/ (q = 2 /\ TextOf(a) = WholeText))
  <2> DEFINE x == LastEvent(TRUE)
  <2>1. Len(<<x>>) = 1 /\ <<x>>[1] = x  OBVIOUS
  <2> HIDE DEF x
  <2>2. Len(s) = 1 /\ s[1] = x  BY <1>1, <2>1 DEF x
  <2>3. q = 1 /\ a = <<>>  BY <1>1, <2>2
  <2>4. TextOf(Applied(a, x[1])) = WholeText /\ Len(x) = 1  BY <2>3, LastIsWhole DEF x
  <2>5. ~(k < Len(s[q])) /\ TextOf(b) = WholeText /\ q + 1 = 2
    <3>0. s[q] = s[1]  BY <2>3
    <3>1. s[q] = x /\ k = 1 /\ q + 1 = 2
      <4>1. s[q] = x  BY <2>2, <3>0
      <4>2. k = 1  BY <1>1
      <4>3. q + 1 = 2  BY <2>3
      <4> QED  BY <4>1, <4>2, <4>3
    <3>2. ~(k < Len(s[q]))  BY <2>4, <3>1
    <3>3. s[q][k] = x[1]  BY <3>1
    <3>4. b = Applied(a, x[1])  BY <3>3
    <3> QED  BY <2>4, <3>1, <3>2, <3>4
  <2>6. HeardOf(s, 2, 1, b)  BY <1>1, <2>5 DEF HeardOf
  <2> QED  BY <2>5, <2>6
<1>2. ASSUME NEW ways, NEW indexed, NEW whole, Shaped(s, ways, indexed, whole),
             q = Places + 1, k = 1, a = Gathered(indexed, q, 0)
      PROVE  ~(k < Len(s[q])) /\ HeardOf(s, q + 1, 1, b)
  <2>1. indexed \in BOOLEAN /\ whole \in BOOLEAN  BY <1>2 DEF Shaped
  <2>2. s[q] = LastEvent(whole)  BY <1>2, ShapeOfStream
  <2>3. TextOf(a) = WholeText
    <3>1. q \in 1 .. Places + 1  BY <1>0, <1>2
    <3>2. TextOf(a) = Text(q, 0) /\ Text(q, 0) = Upto(q)  BY <1>2, <2>1, <3>1, HeldText, TextIsText
    <3> QED  BY <1>2, <3>2, UptoIsText
  <2>4. TextOf(Applied(a, LastEvent(whole)[1])) = WholeText /\ Len(LastEvent(whole)) = 1
    BY <2>1, <2>3, LastIsWhole
  <2>5. ~(k < Len(s[q])) /\ TextOf(b) = WholeText  BY <1>2, <2>2, <2>4
  <2> HIDE DEF b
  <2>6. HeardOf(s, Places + 2, 1, b)  BY <1>2, <2>5 DEF HeardOf
  <2>7. q + 1 = Places + 2  BY <1>0, <1>2
  <2> QED  BY <2>5, <2>6, <2>7
<1>3. ASSUME NEW ways, NEW indexed, NEW whole, Shaped(s, ways, indexed, whole),
             q \in 1 .. Places, k \in 1 .. Len(s[q]), a = Gathered(indexed, q, k - 1)
      PROVE  /\ k < Len(s[q]) => HeardOf(s, q, k + 1, b)
             /\ ~(k < Len(s[q])) => HeardOf(s, q + 1, 1, b)
  <2> DEFINE key == IF indexed THEN q ELSE 0  way == ways[q]  es == PartEvents(q, key)[way]
             last == Len(es)  e == es[k]  c == k - 1
  <2>1. indexed \in BOOLEAN /\ way \in Ways(FALSE) /\ (~indexed => way \in {"deltas", "full"})
    BY <1>3 DEF Shaped
  <2>2. s[q] = es  BY <1>3, ShapeOfStream
  <2> HIDE DEF way
  <2>3. /\ last \in Nat \ {0}
        /\ \A j \in 1 .. last : /\ Brings(es[j], q, key, j, last)
                                /\ way = "deltas" => es[j] = Event("delta", key, <<<<q, j>>>>)
                                /\ way = "full" => j = 1 /\ last = 1 /\ es[j] = Snapshot(q, key, Chunks[q])
    <3> HIDE DEF key
    <3> QED  BY <1>3, <2>1, EventsOfPart
  <2>4. k \in 1 .. last /\ k \in Nat  BY <1>3, <2>2
  <2>5. /\ Brings(e, q, key, k, last) /\ c \in Nat /\ k = c + 1 /\ last \in Nat /\ k <= last
        /\ ~indexed => \/ e = Event("delta", 0, <<<<q, k>>>>)
                       \/ k = 1 /\ last = 1 /\ e = Snapshot(q, 0, Chunks[q])
    BY <2>1, <2>3, <2>4
  <2>6. b = Applied(a, e)  BY <2>2
  <2> HIDE DEF es, last, e, b, c
  <2>7. Applied(Gathered(indexed, q, c), e) = Gathered(indexed, q, IF k < last THEN k ELSE Chunks[q])
    BY <1>3, <2>1, <2>5, EventIsHeld
  <2>8. b = Gathered(indexed, q, IF k < last THEN k ELSE Chunks[q])  BY <1>3, <2>6, <2>7 DEF c
  <2>9. Len(s[q]) = last  BY <2>2 DEF last
  <2>10. ASSUME k < last  PROVE HeardOf(s, q, k + 1, b)
    <3>1. k + 1 \in 1 .. Len(s[q]) /\ (k + 1) - 1 = k  BY <2>5, <2>4, <2>9, <2>10
    <3>2. b = Gathered(indexed, q, (k + 1) - 1)  BY <2>8, <2>10, <3>1
    <3> QED  BY <1>3, <3>1, <3>2 DEF HeardOf
  <2>11. ASSUME ~(k < last)  PROVE HeardOf(s, q + 1, 1, b)
    <3> DEFINE h == q + 1
    <3>1. b = Gathered(indexed, h, 0)
      <4>1. b = Gathered(indexed, q, Chunks[q])  BY <2>8, <2>11
      <4> QED  BY <1>3, <2>1, <4>1, HeldGoesOn
    <3>2. CASE h = Places + 1
      <4> HIDE DEF h
      <4>1. HeardOf(s, h, 1, b)  BY <1>3, <3>1, <3>2 DEF HeardOf
      <4> QED  BY <4>1 DEF h
    <3>3. CASE h # Places + 1
      <4>1. h \in 1 .. Places  BY <1>0, <1>3, <3>3
      <4> HIDE DEF h
      <4>2. s[h] = PartEvents(h, IF indexed THEN h ELSE 0)[ways[h]] /\ ways[h] \in Ways(FALSE)
        <5>1. s[h] = PartEvents(h, IF indexed THEN h ELSE 0)[ways[h]]  BY <1>3, <4>1, ShapeOfStream
        <5>2. ways[h] \in Ways(FALSE)  BY <1>3, <4>1 DEF Shaped
        <5> QED  BY <5>1, <5>2
      <4>3. Len(s[h]) \in Nat \ {0}
        <5> DEFINE w == ways[h]  y == IF indexed THEN h ELSE 0
        <5>1. s[h] = PartEvents(h, y)[w] /\ w \in Ways(FALSE)  BY <4>2
        <5> HIDE DEF w, y
        <5>2. Len(PartEvents(h, y)[w]) \in Nat \ {0}  BY <4>1, <5>1, EventsOfPart
        <5> QED  BY <5>1, <5>2
      <4>4. 1 \in 1 .. Len(s[h]) /\ 1 - 1 = 0  BY <4>3
      <4>5. HeardOf(s, h, 1, b)  BY <1>3, <3>1, <4>1, <4>4 DEF HeardOf
      <4> QED  BY <4>5 DEF h
    <3> QED  BY <3>2, <3>3
  <2> QED  BY <2>9, <2>10, <2>11
<1>4. ASSUME NEW ways, NEW indexed, NEW whole, Shaped(s, ways, indexed, whole), q = Places + 2
      PROVE  FALSE
  <2>1. Len(s) = Places + 1  BY <1>4, ShapeOfStream
  <2> QED  BY <1>0, <1>4, <2>1
<1> QED  BY <1>1, <1>2, <1>3, <1>4 DEF HeardOf

\* What is held of a stream is the beginning of the text, and all of it when
\* the stream has ended.
LEMMA HeardIsText ==
    ASSUME NEW s, NEW q, NEW k, NEW a, HeardOf(s, q, k, a)
    PROVE  /\ IsPrefix(TextOf(a), WholeText)
           /\ ~(q <= Len(s)) => TextOf(a) = WholeText
<1>0. Places \in Nat  BY ChunksOfParts
<1>1. WholeText \in Seq(Signs)
  <2> DEFINE h == Places + 1
  <2>1. h \in 1 .. Places + 1  BY <1>0
  <2> HIDE DEF h
  <2>2. Upto(h) \in Seq(Signs)  BY <2>1, UptoIsText
  <2> QED  BY <2>2, UptoIsText DEF h
<1>2. IsPrefix(WholeText, WholeText) /\ IsPrefix(<<>>, WholeText)
  <2>1. <<>> \in Seq(Signs) /\ WholeText \o <<>> = WholeText /\ <<>> \o WholeText = WholeText
    BY <1>1, EmptySeq, ConcatEmptySeq
  <2>2. IsPrefix(WholeText, WholeText \o <<>>) /\ IsPrefix(<<>>, <<>> \o WholeText)
    BY <1>1, <2>1, PrefixOfConcat
  <2> QED  BY <2>1, <2>2
<1>3. CASE s = <<LastEvent(TRUE)>> /\ ((q = 1 /\ a = <<>>) \/ (q = 2 /\ TextOf(a) = WholeText))
  <2> DEFINE x == LastEvent(TRUE)
  <2>1. Len(<<x>>) = 1  OBVIOUS
  <2>2. Len(s) = 1  BY <1>3, <2>1
  <2> QED  BY <1>2, <1>3, <2>2, NoText
<1>4. ASSUME NEW ways, NEW indexed, NEW whole, Shaped(s, ways, indexed, whole),
             q \in 1 .. Places, k \in 1 .. Len(s[q]), a = Gathered(indexed, q, k - 1)
      PROVE  IsPrefix(TextOf(a), WholeText) /\ q <= Len(s)
  <2>1. indexed \in BOOLEAN /\ q \in 1 .. Places + 1 /\ k - 1 \in Nat
    BY <1>0, <1>4 DEF Shaped
  <2>2. Len(s) = Places + 1  BY <1>4, ShapeOfStream
  <2> DEFINE c == k - 1
  <2>3. c \in Nat /\ TextOf(a) = Text(q, c)
    <3>1. c \in Nat /\ a = Gathered(indexed, q, c)  BY <1>4, <2>1
    <3> HIDE DEF c
    <3> QED  BY <2>1, <3>1, HeldText
  <2>4. c <= Chunks[q]
    <3> DEFINE way == ways[q]  key == IF indexed THEN q ELSE 0  last == Len(s[q])
    <3>1. way \in Ways(FALSE)  BY <1>4 DEF Shaped
    <3>2. s[q] = PartEvents(q, key)[way]  BY <1>4, ShapeOfStream
    <3> HIDE DEF way, key
    <3>3. Brings(s[q][k], q, key, k, last)
      <4>1. k \in 1 .. Len(PartEvents(q, key)[way])  BY <1>4, <3>2
      <4>2. Brings(PartEvents(q, key)[way][k], q, key, k, Len(PartEvents(q, key)[way]))
        BY <1>4, <3>1, <4>1, EventsOfPart
      <4> QED  BY <3>2, <4>2
    <3> QED  BY <3>3 DEF Brings
  <2>5. IsPrefix(Text(q, c), WholeText)
    <3> HIDE DEF c
    <3>1. q # Places + 1  BY <1>0, <1>4
    <3> QED  BY <2>1, <2>3, <2>4, <3>1, TextBegins
  <2> QED  BY <1>0, <1>4, <2>2, <2>3, <2>5
<1>5. ASSUME NEW ways, NEW indexed, NEW whole, Shaped(s, ways, indexed, whole),
             q = Places + 1, a = Gathered(indexed, q, 0)
      PROVE  TextOf(a) = WholeText
  <2>1. indexed \in BOOLEAN /\ q \in 1 .. Places + 1  BY <1>0, <1>5 DEF Shaped
  <2>2. TextOf(a) = Text(q, 0) /\ Text(q, 0) = Upto(q)  BY <1>5, <2>1, HeldText, TextIsText
  <2> QED  BY <1>5, <2>2, UptoIsText
<1> QED  BY <1>2, <1>3, <1>4, <1>5 DEF HeardOf


-----------------------------------------------------------------------------
(* The client as it goes. *)

\* What the variables hold: a body is open only while the call waits for the
\* answer or reads it, and a call that has returned has ended its request.
ClientHolds ==
    /\ ClientTypeOK
    /\ DOMAIN call = {"at", "chat", "outcome", "text"} /\ call.chat \in BOOLEAN
    /\ DOMAIN stream = {"of", "part", "nth", "end"}
    /\ stream.end \in {"none", "complete", "broken", "cut"}
    /\ silence = [ticks |-> silence.ticks, broken |-> silence.broken]
    /\ silence.ticks \in Nat /\ silence.broken \in BOOLEAN
    /\ call.at # "returned" => call.outcome = "none"
    /\ body = "open" => call.at \in {"answered", "joining", "reading"} /\ stream.end # "none"
    /\ call.at \in {"new", "prepared", "waiting"} => stream.end = "none"
    /\ reader # "none" => call.at \in {"reading", "returned"}
    /\ NothingLeftOpen

\* What the reader holds once it has read what has come
Coming == IF wire = <<>> THEN acc ELSE Applied(acc, wire[1])

\* It is what was said until then, or the beginning of it when the stream has
\* broken off; and whoever takes a text takes it when no more comes.
StreamFollowed ==
    /\ stream.end = "none" => stream = NoStream /\ wire = <<>> /\ acc = <<>>
    /\ stream.end = "complete" => HeardOf(stream.of, stream.part, stream.nth, Coming)
    /\ stream.end \in {"broken", "cut"} => ~MoreToCome /\ IsPrefix(TextOf(Coming), WholeText)
    /\ reader = "text" => stream.end \in {"complete", "cut"} /\ wire = <<>> /\ ~MoreToCome
    /\ SaidOnce

\* The time the timer has run is time in which no byte came.
SilenceMeasured ==
    call.at = "reading" /\ call.chat =>
       /\ waited <= silence.ticks
       /\ silence.broken => waited = 0 \/ wire # <<>> \/ activity

\* The inductive invariant of the client.
ClientSound == ClientHolds /\ StreamFollowed /\ SilenceMeasured /\ TurnReachesModel

\* Types and phases of the call, the body and the reader.
LEMMA CallKept ==
    ASSUME NEW c, DOMAIN c = {"at", "chat", "outcome", "text"}
    PROVE  /\ \A x : LET d == [c EXCEPT !.at = x]
                     IN  /\ DOMAIN d = DOMAIN c /\ d.at = x
                         /\ d.chat = c.chat /\ d.outcome = c.outcome /\ d.text = c.text
           /\ \A x, o : LET d == [c EXCEPT !.at = x, !.outcome = o]
                        IN  /\ DOMAIN d = DOMAIN c /\ d.at = x /\ d.outcome = o
                            /\ d.chat = c.chat /\ d.text = c.text
           /\ \A x, o, t : LET d == [c EXCEPT !.at = x, !.outcome = o, !.text = t]
                           IN  /\ DOMAIN d = DOMAIN c /\ d.at = x /\ d.outcome = o /\ d.text = t
                               /\ d.chat = c.chat
OBVIOUS

\* The place in a stream moves on.
LEMMA StreamKept ==
    ASSUME NEW s, DOMAIN s = {"of", "part", "nth", "end"}
    PROVE  /\ LET d == [s EXCEPT !.nth = @ + 1]
              IN  /\ DOMAIN d = DOMAIN s /\ d.of = s.of /\ d.part = s.part /\ d.nth = s.nth + 1
                  /\ d.end = s.end
           /\ LET d == [s EXCEPT !.part = @ + 1, !.nth = 1]
              IN  /\ DOMAIN d = DOMAIN s /\ d.of = s.of /\ d.part = s.part + 1 /\ d.nth = 1
                  /\ d.end = s.end
OBVIOUS

\* A stream begins, or has broken off.
LEMMA StreamBegun ==
    /\ DOMAIN NoStream = {"of", "part", "nth", "end"} /\ NoStream.end = "none"
    /\ NoStream.of = <<>> /\ NoStream.part = 1 /\ NoStream.nth = 1
    /\ \A s, end : LET d == [NoStream EXCEPT !.of = s, !.end = end]
                   IN  /\ DOMAIN d = DOMAIN NoStream /\ d.of = s /\ d.part = 1 /\ d.nth = 1
                       /\ d.end = end
    /\ \A end : LET d == [NoStream EXCEPT !.end = end]
                IN  /\ DOMAIN d = DOMAIN NoStream /\ d.of = <<>> /\ d.part = 1 /\ d.nth = 1
                    /\ d.end = end
BY DEF NoStream

\* What the actions that return do to the call, and what they close.
LEMMA Returning ==
    ASSUME ClientHolds, NEW STATE outcome, NEW STATE text, Return(outcome, text), CloseAll
    PROVE  /\ DOMAIN call' = DOMAIN call /\ call'.at = "returned" /\ call'.outcome = outcome
           /\ call'.text = text /\ call'.chat = call.chat
           /\ aborted' = TRUE /\ body' # "open" /\ body' \in {"none", "closed"}
<1>1. DOMAIN call = {"at", "chat", "outcome", "text"} /\ body \in {"none", "open", "closed"}
  BY DEF ClientHolds, ClientTypeOK
<1>2. call' = [call EXCEPT !.at = "returned", !.outcome = outcome, !.text = text]  BY DEF Return
<1>3. aborted' = TRUE /\ body' \in {"none", "closed"}  BY <1>1 DEF CloseAll
<1> QED  BY <1>1, <1>2, <1>3, CallKept

\* All of it holds at first.
LEMMA ClientBegins == ClientInit => ClientSound
<1> SUFFICES ASSUME ClientInit PROVE ClientSound
  OBVIOUS
<1>1. /\ call.at = "new" /\ call.chat \in BOOLEAN /\ call.outcome = "none"
      /\ DOMAIN call = {"at", "chat", "outcome", "text"}
  BY DEF ClientInit
<1>2. ClientHolds
  <2>1. 0 \in 0 .. Timeout /\ Len(<<>>) <= 1  BY ClientConstants
  <2> QED  BY <1>1, <2>1, StreamBegun DEF ClientInit, ClientHolds, ClientTypeOK, NothingLeftOpen
<1>3. StreamFollowed  BY <1>1, StreamBegun DEF ClientInit, StreamFollowed, SaidOnce
<1>4. SilenceMeasured /\ TurnReachesModel  BY <1>1 DEF SilenceMeasured, TurnReachesModel
<1> QED  BY <1>2, <1>3, <1>4 DEF ClientSound

\* Types and phases, action by action
LEMMA ClientHoldsOn == ClientHolds /\ [ClientNext]_clientVars => ClientHolds'
<1> SUFFICES ASSUME ClientHolds, [ClientNext]_clientVars PROVE ClientHolds'
  OBVIOUS
<1> USE DEF ClientHolds, ClientTypeOK, NothingLeftOpen
<1>0. DOMAIN call = {"at", "chat", "outcome", "text"} /\ Timeout \in Nat \ {0} /\ waited \in 0 .. Timeout
  BY ClientConstants
<1>1. CASE UNCHANGED clientVars
  BY <1>1 DEF clientVars, timeVars, streamVars
<1>2. CASE PrepareCall
  <2>1. /\ \/ call' = [call EXCEPT !.at = "returned", !.outcome = "invalid"]
           \/ call' = [call EXCEPT !.at = "prepared"]
        /\ call.at = "new" /\ UNCHANGED <<timeVars, aborted, ended, body, streamVars, reader>>
    BY <1>2 DEF PrepareCall
  <2>2. /\ DOMAIN call' = DOMAIN call /\ call'.chat = call.chat
        /\ \/ call'.at = "returned" /\ call'.outcome = "invalid"
           \/ call'.at = "prepared" /\ call'.outcome = "none"
    <3>1. CASE call' = [call EXCEPT !.at = "returned", !.outcome = "invalid"]
      BY <1>0, <3>1, CallKept
    <3>2. CASE call' = [call EXCEPT !.at = "prepared"]
      BY <1>0, <2>1, <3>2, CallKept
    <3> QED  BY <2>1, <3>1, <3>2
  <2> QED  BY <2>1, <2>2 DEF timeVars, streamVars
<1>3. CASE Send
  BY <1>0, <1>3, CallKept DEF Send, timeVars, streamVars
<1>4. CASE TimerFires
  BY <1>4 DEF TimerFires, timeVars, streamVars
<1>5. CASE TimerDone
  BY <1>5 DEF TimerDone, timeVars, streamVars
<1>6. CASE CallerGivesUp
  BY <1>6 DEF CallerGivesUp, timeVars, streamVars
<1>7. CASE Answer
  <2>1. call' = [call EXCEPT !.at = "answered"] /\ call.at = "waiting"
        /\ UNCHANGED <<timeVars, wire, acc, activity, reader>>
    BY <1>7 DEF Answer
  <2>2. UNCHANGED <<body, stream>> \/ (body' = "open" /\ \E s : stream' = [NoStream EXCEPT !.of = s, !.end = "complete"])
    BY <1>7 DEF Answer
  <2>3. DOMAIN stream' = {"of", "part", "nth", "end"} /\ stream'.end \in {"none", "complete", "broken", "cut"}
        /\ (body' = "open" => stream'.end # "none")
    BY <2>1, <2>2, StreamBegun
  <2>4. body' \in {"none", "open", "closed"}  BY <2>2
  <2> QED  BY <1>0, <2>1, <2>3, <2>4, CallKept DEF timeVars
<1>8. CASE HeadersCame
  <2>1. CASE body = "none"
    <3>1. Return("error", <<>>) /\ CloseAll /\ timer' = "stopped" /\ UNCHANGED <<waited, silence, reader, streamVars>>
      BY <1>8, <2>1 DEF HeadersCame
    <3> QED  BY <3>1, Returning DEF streamVars
  <2>2. CASE body # "none"
    <3>1. /\ call' = [call EXCEPT !.at = "reading"] /\ reader' = "reading" /\ call.at = "answered"
          /\ timer' \in {"stopped", timer} /\ waited' \in {0, waited}
          /\ silence' = [ticks |-> 0, broken |-> FALSE] /\ UNCHANGED <<aborted, body, streamVars>>
      BY <1>8, <2>2 DEF HeadersCame
    <3>2. waited' \in 0 .. Timeout /\ timer' \in {"off", "set", "fired", "done", "stopped"}
      BY <1>0, <3>1
    <3> QED  BY <1>0, <3>1, <3>2, CallKept DEF streamVars
  <2> QED  BY <2>1, <2>2
<1>9. CASE HeadersLate
  BY <1>0, <1>9, CallKept DEF HeadersLate, timeVars, streamVars
<1>10. CASE JoinTimer
  <2>1. PICK o \in {"cancelled", "timeout"} : Return(o, <<>>)
    BY <1>10 DEF JoinTimer
  <2>2. CloseAll /\ UNCHANGED <<timeVars, streamVars, reader>>  BY <1>10 DEF JoinTimer
  <2>3. call.at = "joining"  BY <1>10 DEF JoinTimer
  <2> QED  BY <2>1, <2>2, <2>3, Returning DEF timeVars, streamVars
<1>11. CASE Arrives
  <2>1. /\ stream' = [stream EXCEPT !.nth = @ + 1] \/ stream' = [stream EXCEPT !.part = @ + 1, !.nth = 1]
        /\ body = "open" /\ silence' = [silence EXCEPT !.broken = TRUE]
        /\ \E x : wire' = <<x>>
        /\ UNCHANGED <<call, timer, waited, aborted, ended, body, reader>>
    BY <1>11 DEF Arrives
  <2>2. DOMAIN stream' = {"of", "part", "nth", "end"} /\ stream'.end = stream.end
    BY <2>1, StreamKept
  <2>3. Len(wire') <= 1  BY <2>1
  <2>4. silence' = [ticks |-> silence.ticks, broken |-> TRUE]  BY <2>1
  <2> QED  BY <2>1, <2>2, <2>3, <2>4
<1>12. CASE BreaksOff
  <2>1. PICK end \in {"broken", "cut"} : stream' = [NoStream EXCEPT !.end = end]
    BY <1>12 DEF BreaksOff
  <2>2. UNCHANGED <<call, timeVars, aborted, ended, body, wire, acc, activity, reader>> /\ body = "open"
    BY <1>12 DEF BreaksOff
  <2>3. DOMAIN stream' = {"of", "part", "nth", "end"} /\ stream'.end = end  BY <2>1, StreamBegun
  <2> QED  BY <2>2, <2>3 DEF timeVars
<1>13. CASE Read
  <2>1. UNCHANGED <<call, timeVars, aborted, ended, body, stream, reader>> /\ wire' = <<>>
    BY <1>13 DEF Read
  <2>2. Len(wire') <= 1  BY <2>1
  <2> QED  BY <2>1, <2>2 DEF timeVars
<1>14. CASE ReaderEnds
  <2>1. /\ UNCHANGED <<call, timeVars, aborted, ended, body, streamVars>>
        /\ reader = "reading" /\ reader' \in {"failed", "text"}
    BY <1>14 DEF ReaderEnds, ReaderFails, ReaderIsThrough
  <2> QED  BY <2>1 DEF timeVars, streamVars
<1>15. CASE Collect
  <2>1. \/ Return("error", <<>>) \/ Return("empty", TextOf(acc)) \/ Return("text", TextOf(acc))
    BY <1>15 DEF Collect
  <2>2. CloseAll /\ UNCHANGED <<timeVars, streamVars, reader>>  BY <1>15 DEF Collect
  <2>3. call.at = "reading"  BY <1>15 DEF Collect
  <2>4. /\ DOMAIN call' = DOMAIN call /\ call'.at = "returned" /\ call'.outcome \in {"error", "empty", "text"}
        /\ call'.chat = call.chat
        /\ aborted' = TRUE /\ body' # "open" /\ body' \in {"none", "closed"}
    BY <2>1, <2>2, Returning
  <2> QED  BY <2>2, <2>3, <2>4 DEF timeVars, streamVars
<1>16. CASE Heard
  BY <1>0, <1>16 DEF Heard
<1>17. CASE IdleTooLong
  <2>1. Return("timeout", <<>>) /\ CloseAll /\ UNCHANGED <<timeVars, streamVars, reader>> /\ call.at = "reading"
    BY <1>17 DEF IdleTooLong
  <2> QED  BY <2>1, Returning DEF timeVars, streamVars
<1>18. CASE SeesCancel
  <2>1. Return("cancelled", <<>>) /\ CloseAll /\ UNCHANGED <<timeVars, streamVars, reader>> /\ call.at = "reading"
    BY <1>18 DEF SeesCancel
  <2> QED  BY <2>1, Returning DEF timeVars, streamVars
<1>19. CASE TickCall
  <2>1. /\ waited' = waited + 1 /\ waited < Timeout
        /\ silence' = [ticks |-> IF silence.broken THEN 1 ELSE silence.ticks + 1, broken |-> FALSE]
        /\ UNCHANGED <<call, timer, aborted, ended, body, streamVars, reader>>
    BY <1>19 DEF TickCall
  <2>2. waited' \in 0 .. Timeout  BY <1>0, <2>1
  <2>3. silence'.ticks \in Nat /\ silence'.broken = FALSE
        /\ silence' = [ticks |-> silence'.ticks, broken |-> silence'.broken]
    BY <2>1
  <2> QED  BY <2>1, <2>2, <2>3 DEF streamVars
<1>20. CASE Returned
  BY <1>1, <1>20 DEF Returned
<1> QED
  BY <1>1, <1>2, <1>3, <1>4, <1>5, <1>6, <1>7, <1>8, <1>9, <1>10, <1>11, <1>12, <1>13, <1>14,
     <1>15, <1>16, <1>17, <1>18, <1>19, <1>20 DEF ClientNext

\* The step of each action that the following of the stream sees.
LEMMA FollowedOn == ClientHolds /\ StreamFollowed /\ [ClientNext]_clientVars => StreamFollowed'
<1> SUFFICES ASSUME ClientHolds, StreamFollowed, [ClientNext]_clientVars PROVE StreamFollowed'
  OBVIOUS
<1>0. /\ DOMAIN call = {"at", "chat", "outcome", "text"} /\ call.chat \in BOOLEAN
      /\ DOMAIN stream = {"of", "part", "nth", "end"}
      /\ stream.end \in {"none", "complete", "broken", "cut"}
      /\ call.at # "returned" => call.outcome = "none"
      /\ body = "open" => call.at \in {"answered", "joining", "reading"} /\ stream.end # "none"
      /\ call.at \in {"new", "prepared", "waiting"} => stream.end = "none"
      /\ reader # "none" => call.at \in {"reading", "returned"}
  BY DEF ClientHolds
<1>1. ASSUME UNCHANGED streamVars, UNCHANGED reader,
             call'.outcome = "text" => UNCHANGED call
      PROVE  StreamFollowed'
  <2>1. Coming' = Coming /\ MoreToCome' = MoreToCome  BY <1>1 DEF Coming, MoreToCome, streamVars
  <2> QED  BY <1>1, <2>1 DEF StreamFollowed, SaidOnce, streamVars
\* A call that has not returned, and does not return a text.
<1>2. ASSUME NEW STATE o, NEW STATE text, Return(o, text), o # "text", UNCHANGED streamVars, UNCHANGED reader
      PROVE  StreamFollowed'
  <2>1. call'.outcome = o  BY <1>0, <1>2, CallKept DEF Return
  <2> QED  BY <1>1, <1>2, <2>1
<1>3. CASE UNCHANGED clientVars
  BY <1>1, <1>3 DEF clientVars
<1>4. CASE PrepareCall
  <2>1. /\ \/ call' = [call EXCEPT !.at = "returned", !.outcome = "invalid"]
           \/ call' = [call EXCEPT !.at = "prepared"]
        /\ call.at = "new" /\ UNCHANGED <<streamVars, reader>>
    BY <1>4 DEF PrepareCall
  <2>2. call'.outcome # "text"
    <3>1. CASE call' = [call EXCEPT !.at = "returned", !.outcome = "invalid"]
      BY <1>0, <3>1, CallKept
    <3>2. CASE call' = [call EXCEPT !.at = "prepared"]
      BY <1>0, <2>1, <3>2, CallKept
    <3> QED  BY <2>1, <3>1, <3>2
  <2> QED  BY <1>1, <2>1, <2>2
<1>5. CASE Send \/ HeadersLate
  <2>1. \E x : call' = [call EXCEPT !.at = x] /\ call.at \in {"prepared", "answered"} /\ UNCHANGED <<streamVars, reader>>
    BY <1>5 DEF Send, HeadersLate
  <2>2. call'.outcome # "text"  BY <1>0, <2>1, CallKept
  <2> QED  BY <1>1, <2>1, <2>2
<1>6. CASE TimerFires \/ TimerDone \/ CallerGivesUp \/ TickCall \/ Returned
  BY <1>1, <1>6 DEF TimerFires, TimerDone, CallerGivesUp, TickCall, Returned, clientVars
<1>7. CASE Answer
  <2>1. /\ call' = [call EXCEPT !.at = "answered"] /\ call.at = "waiting"
        /\ UNCHANGED <<wire, acc, activity, reader>>
    BY <1>7 DEF Answer
  <2>2. call'.outcome = "none"  BY <1>0, <2>1, CallKept
  <2>3. CASE UNCHANGED stream
    BY <1>1, <2>1, <2>2, <2>3 DEF streamVars
  <2>4. CASE ~UNCHANGED stream
    <3>1. PICK s \in Streams(call.chat) : stream' = [NoStream EXCEPT !.of = s, !.end = "complete"]
      BY <1>7, <2>4 DEF Answer
    <3>2. stream'.of = s /\ stream'.part = 1 /\ stream'.nth = 1 /\ stream'.end = "complete"
      BY <3>1, StreamBegun
    <3>3. wire = <<>> /\ acc = <<>> /\ reader = "none"
      BY <1>0, <2>1 DEF StreamFollowed
    <3>4. Coming' = <<>>  BY <2>1, <3>3 DEF Coming
    <3>5. HeardOf(s, 1, 1, <<>>)  BY <1>0, StreamBegins
    <3>6. HeardOf(stream.of, stream.part, stream.nth, Coming)'
      BY <3>2, <3>4, <3>5
    <3> QED  BY <2>1, <2>2, <3>2, <3>3, <3>6 DEF StreamFollowed, SaidOnce
  <2> QED  BY <2>3, <2>4
<1>8. CASE HeadersCame
  <2>1. UNCHANGED streamVars /\ call.at = "answered"  BY <1>8 DEF HeadersCame
  <2>2. CASE body = "none"
    <3>1. Return("error", <<>>) /\ UNCHANGED reader  BY <1>8, <2>2 DEF HeadersCame
    <3> QED  BY <1>2, <2>1, <3>1
  <2>3. CASE body # "none"
    <3>1. call' = [call EXCEPT !.at = "reading"] /\ reader' = "reading"
      BY <1>8, <2>3 DEF HeadersCame
    <3>2. call'.outcome = "none"  BY <1>0, <2>1, <3>1, CallKept
    <3>3. Coming' = Coming /\ MoreToCome' = MoreToCome  BY <2>1 DEF Coming, MoreToCome, streamVars
    <3> QED  BY <2>1, <3>1, <3>2, <3>3 DEF StreamFollowed, SaidOnce, streamVars
  <2> QED  BY <2>2, <2>3
<1>9. CASE JoinTimer \/ IdleTooLong \/ SeesCancel
  <2>1. UNCHANGED <<streamVars, reader>> /\ (Return("cancelled", <<>>) \/ Return("timeout", <<>>))
    BY <1>9 DEF JoinTimer, IdleTooLong, SeesCancel
  <2> QED  BY <1>2, <2>1
<1>10. CASE Arrives
  <2> DEFINE s == stream.of  q == stream.part  k == stream.nth
  <2>1. /\ body = "open" /\ q <= Len(s) /\ wire = <<>> /\ wire' = <<s[q][k]>>
        /\ stream' = IF k < Len(s[q]) THEN [stream EXCEPT !.nth = @ + 1]
                     ELSE [stream EXCEPT !.part = @ + 1, !.nth = 1]
        /\ UNCHANGED <<call, acc, activity, reader>>
    BY <1>10 DEF Arrives, MoreToCome
  <2>2. stream'.end = stream.end /\ stream'.of = s
        /\ (k < Len(s[q]) => stream'.part = q /\ stream'.nth = k + 1)
        /\ (~(k < Len(s[q])) => stream'.part = q + 1 /\ stream'.nth = 1)
    BY <1>0, <2>1, StreamKept
  <2>3. Coming = acc  BY <2>1 DEF Coming
  <2>4. Coming' = Applied(acc, s[q][k])
    <3>1. wire' # <<>> /\ wire'[1] = s[q][k]  BY <2>1
    <3> QED  BY <2>1, <3>1 DEF Coming
  <2>5. stream.end = "complete" /\ reader # "text"
    <3>1. stream.end # "none" /\ MoreToCome  BY <1>0, <2>1 DEF MoreToCome
    <3> QED  BY <1>0, <3>1 DEF StreamFollowed
  <2>6. HeardOf(s, q, k, acc)  BY <2>3, <2>5 DEF StreamFollowed
  <2>7. /\ k < Len(s[q]) => HeardOf(s, q, k + 1, Applied(acc, s[q][k]))
        /\ ~(k < Len(s[q])) => HeardOf(s, q + 1, 1, Applied(acc, s[q][k]))
    <3> HIDE DEF s, q, k
    <3> QED  BY <2>1, <2>6, StreamGoesOn
  <2>8. HeardOf(stream.of, stream.part, stream.nth, Coming)'
    BY <2>2, <2>4, <2>7
  <2>9. call.outcome = "none"  BY <1>0, <2>1
  <2> QED  BY <2>1, <2>2, <2>5, <2>8, <2>9 DEF StreamFollowed, SaidOnce
<1>11. CASE BreaksOff
  <2>1. PICK end \in {"broken", "cut"} : stream' = [NoStream EXCEPT !.end = end]
    BY <1>11 DEF BreaksOff
  <2>2. UNCHANGED <<call, wire, acc, reader>> /\ body = "open" /\ MoreToCome
    BY <1>11 DEF BreaksOff
  <2>3. stream'.of = <<>> /\ stream'.part = 1 /\ stream'.end = end  BY <2>1, StreamBegun
  <2>4. ~MoreToCome'
    <3>1. Len(<<>>) = 0 /\ ~(1 <= 0)  OBVIOUS
    <3> QED  BY <2>3, <3>1 DEF MoreToCome
  <2>5. stream.end = "complete" /\ reader # "text"  BY <1>0, <2>2 DEF StreamFollowed
  <2>6. HeardOf(stream.of, stream.part, stream.nth, Coming)  BY <2>5 DEF StreamFollowed
  <2>7. IsPrefix(TextOf(Coming), WholeText)  BY <2>6, HeardIsText
  <2>8. Coming' = Coming  BY <2>2 DEF Coming
  <2>9. IsPrefix(TextOf(Coming), WholeText)'  BY <2>7, <2>8
  <2>10. call.outcome = "none"  BY <1>0, <2>2
  <2> QED  BY <2>2, <2>3, <2>4, <2>5, <2>9, <2>10 DEF StreamFollowed, SaidOnce
<1>12. CASE Read
  <2>1. /\ UNCHANGED <<call, stream, reader>> /\ wire # <<>> /\ wire' = <<>>
        /\ acc' = Applied(acc, wire[1]) /\ reader = "reading" /\ body = "open"
    BY <1>12 DEF Read
  <2>2. Coming' = Coming /\ MoreToCome' = MoreToCome  BY <2>1 DEF Coming, MoreToCome
  <2>3. stream.end # "none"  BY <1>0, <2>1
  <2> QED  BY <2>1, <2>2, <2>3 DEF StreamFollowed, SaidOnce
<1>13. CASE ReaderEnds
  <2>1. UNCHANGED <<call, body, streamVars>> /\ (reader' = "failed" \/ ReaderIsThrough)
    BY <1>13 DEF ReaderEnds, ReaderFails
  <2>2. Coming' = Coming /\ MoreToCome' = MoreToCome  BY <2>1 DEF Coming, MoreToCome, streamVars
  <2>3. reader' = "text" => stream.end \in {"complete", "cut"} /\ wire = <<>> /\ ~MoreToCome
    BY <1>0, <2>1 DEF ReaderIsThrough
  <2> QED  BY <2>1, <2>2, <2>3 DEF StreamFollowed, SaidOnce, streamVars
<1>14. CASE Collect
  <2>1. UNCHANGED <<streamVars, reader>> /\ call.at = "reading" /\ reader \in {"text", "failed"}
    BY <1>14 DEF Collect
  <2>2. CASE reader = "failed" \/ TextOf(acc) = <<>>
    <3>1. Return("error", <<>>) \/ Return("empty", TextOf(acc))
      BY <1>14, <2>2 DEF Collect
    <3> QED  BY <1>2, <2>1, <3>1
  <2>3. CASE reader = "text" /\ TextOf(acc) # <<>>
    <3>1. Return("text", TextOf(acc))  BY <1>14, <2>3 DEF Collect
    <3>2. call'.outcome = "text" /\ call'.text = TextOf(acc)
      BY <1>0, <3>1, CallKept DEF Return
    <3>3. stream.end \in {"complete", "cut"} /\ wire = <<>> /\ ~MoreToCome
      BY <2>3 DEF StreamFollowed
    <3>4. Coming = acc  BY <3>3 DEF Coming
    <3>5. IF stream.end = "cut" THEN IsPrefix(TextOf(acc), WholeText) ELSE TextOf(acc) = WholeText
      <4>1. CASE stream.end = "cut"
        BY <3>4, <4>1 DEF StreamFollowed
      <4>2. CASE stream.end = "complete"
        <5>1. HeardOf(stream.of, stream.part, stream.nth, acc)  BY <3>4, <4>2 DEF StreamFollowed
        <5>2. ~(stream.part <= Len(stream.of))  BY <3>3 DEF MoreToCome
        <5> QED  BY <4>2, <5>1, <5>2, HeardIsText
      <4> QED  BY <3>3, <4>1, <4>2
    <3>6. SaidOnce'  BY <2>1, <3>2, <3>5 DEF SaidOnce, streamVars
    <3>7. Coming' = Coming /\ MoreToCome' = MoreToCome  BY <2>1 DEF Coming, MoreToCome, streamVars
    <3> QED  BY <2>1, <3>6, <3>7 DEF StreamFollowed, streamVars
  <2> QED  BY <2>1, <2>2, <2>3
<1>15. CASE Heard
  <2>1. UNCHANGED <<call, stream, wire, acc, reader>>  BY <1>15 DEF Heard
  <2>2. Coming' = Coming /\ MoreToCome' = MoreToCome  BY <2>1 DEF Coming, MoreToCome
  <2> QED  BY <2>1, <2>2 DEF StreamFollowed, SaidOnce
<1> QED
  BY <1>3, <1>4, <1>5, <1>6, <1>7, <1>8, <1>9, <1>10, <1>11, <1>12, <1>13, <1>14, <1>15
     DEF ClientNext

\* The step of each action that the timer of the silences sees.
LEMMA MeasuredOn ==
    ClientHolds /\ SilenceMeasured /\ [ClientNext]_clientVars => SilenceMeasured'
<1> SUFFICES ASSUME ClientHolds, SilenceMeasured, [ClientNext]_clientVars PROVE SilenceMeasured'
  OBVIOUS
<1>0. /\ DOMAIN call = {"at", "chat", "outcome", "text"} /\ call.chat \in BOOLEAN
      /\ silence = [ticks |-> silence.ticks, broken |-> silence.broken]
      /\ silence.ticks \in Nat /\ silence.broken \in BOOLEAN /\ waited \in 0 .. Timeout
      /\ Timeout \in Nat
  BY ClientConstants DEF ClientHolds, ClientTypeOK
<1>1. ASSUME call'.at # "reading"  PROVE SilenceMeasured'
  BY <1>1 DEF SilenceMeasured
<1>2. ASSUME UNCHANGED <<call, waited, silence, wire, activity>>  PROVE SilenceMeasured'
  BY <1>2 DEF SilenceMeasured
<1>3. CASE UNCHANGED clientVars
  BY <1>2, <1>3 DEF clientVars, timeVars, streamVars
<1>4. CASE PrepareCall
  <2>1. \/ call' = [call EXCEPT !.at = "returned", !.outcome = "invalid"]
        \/ call' = [call EXCEPT !.at = "prepared"]
    BY <1>4 DEF PrepareCall
  <2>2. call'.at # "reading"
    <3>1. CASE call' = [call EXCEPT !.at = "returned", !.outcome = "invalid"]
      BY <1>0, <3>1, CallKept
    <3>2. CASE call' = [call EXCEPT !.at = "prepared"]
      BY <1>0, <3>2, CallKept
    <3> QED  BY <2>1, <3>1, <3>2
  <2> QED  BY <1>1, <2>2
<1>5. CASE Send \/ Answer \/ HeadersLate
  <2>1. \E x \in {"waiting", "answered", "joining"} : call' = [call EXCEPT !.at = x]
    BY <1>5 DEF Send, Answer, HeadersLate
  <2>2. call'.at # "reading"  BY <1>0, <2>1, CallKept
  <2> QED  BY <1>1, <2>2
<1>6. CASE TimerFires \/ TimerDone \/ CallerGivesUp \/ BreaksOff \/ ReaderEnds \/ Returned
  BY <1>2, <1>6 DEF TimerFires, TimerDone, CallerGivesUp, BreaksOff, ReaderEnds, Returned,
                    clientVars, timeVars, streamVars
<1>7. CASE JoinTimer \/ Collect \/ IdleTooLong \/ SeesCancel
  <2>1. CloseAll /\ \/ Return("cancelled", <<>>) \/ Return("timeout", <<>>) \/ Return("error", <<>>)
                    \/ Return("empty", TextOf(acc)) \/ Return("text", TextOf(acc))
    BY <1>7 DEF JoinTimer, Collect, IdleTooLong, SeesCancel
  <2>2. call'.at # "reading"  BY <2>1, Returning
  <2> QED  BY <1>1, <2>2
<1>8. CASE HeadersCame
  <2>1. CASE body = "none"
    <3>1. Return("error", <<>>) /\ CloseAll  BY <1>8, <2>1 DEF HeadersCame
    <3>2. call'.at # "reading"  BY <3>1, Returning
    <3> QED  BY <1>1, <3>2
  <2>2. CASE body # "none"
    <3>1. /\ call' = [call EXCEPT !.at = "reading"]
          /\ waited' = IF call.chat THEN 0 ELSE waited
          /\ silence' = [ticks |-> 0, broken |-> FALSE]
      BY <1>8, <2>2 DEF HeadersCame
    <3>2. call'.chat = call.chat  BY <1>0, <3>1, CallKept
    <3>3. silence'.ticks = 0 /\ silence'.broken = FALSE  BY <3>1
    <3>4. call'.chat => waited' = 0  BY <3>1, <3>2
    <3> QED  BY <3>3, <3>4 DEF SilenceMeasured
  <2> QED  BY <2>1, <2>2
<1>9. CASE Arrives
  <2>1. /\ UNCHANGED <<call, waited>> /\ silence' = [silence EXCEPT !.broken = TRUE]
        /\ \E x : wire' = <<x>>
    BY <1>9 DEF Arrives
  <2>2. wire' # <<>> /\ silence'.ticks = silence.ticks  BY <1>0, <2>1
  <2> QED  BY <2>1, <2>2 DEF SilenceMeasured
<1>10. CASE Read
  BY <1>10 DEF Read, SilenceMeasured, timeVars
<1>11. CASE Heard
  <2>1. UNCHANGED <<call, silence>> /\ waited' = 0  BY <1>11 DEF Heard
  <2> QED  BY <1>0, <2>1 DEF SilenceMeasured
<1>12. CASE TickCall
  <2>1. /\ waited' = waited + 1 /\ UNCHANGED call /\ wire = <<>> /\ ~activity
        /\ silence' = [ticks |-> IF silence.broken THEN 1 ELSE silence.ticks + 1, broken |-> FALSE]
    BY <1>12 DEF TickCall
  <2>2. /\ silence'.broken = FALSE
        /\ silence'.ticks = IF silence.broken THEN 1 ELSE silence.ticks + 1
    BY <2>1
  <2>3. ASSUME call.at = "reading", call.chat  PROVE waited' <= silence'.ticks
    <3>1. waited <= silence.ticks /\ (silence.broken => waited = 0)
      BY <2>1, <2>3 DEF SilenceMeasured
    <3> QED  BY <1>0, <2>1, <2>2, <3>1
  <2> QED  BY <2>1, <2>2, <2>3 DEF SilenceMeasured
<1> QED
  BY <1>3, <1>4, <1>5, <1>6, <1>7, <1>8, <1>9, <1>10, <1>11, <1>12 DEF ClientNext

\* What is prepared is what Fit has selected, until it is sent.
LEMMA TurnGoesOn ==
    ClientHolds /\ TurnReachesModel /\ [ClientNext]_clientVars => TurnReachesModel'
<1> SUFFICES ASSUME ClientHolds, TurnReachesModel, [ClientNext]_clientVars PROVE TurnReachesModel'
  OBVIOUS
<1>0. DOMAIN call = {"at", "chat", "outcome", "text"}  BY DEF ClientHolds
<1>1. ASSUME call'.at # "prepared"  PROVE TurnReachesModel'
  BY <1>1 DEF TurnReachesModel
<1>2. ASSUME UNCHANGED <<call, request>>  PROVE TurnReachesModel'
  BY <1>2 DEF TurnReachesModel
<1>3. CASE PrepareCall
  <2>1. PICK ms \in Conversations, limit \in Limits :
           request' = [said |-> ms, budget |-> InputBudget(limit, Output),
                       sent |-> Fit(ms, InputBudget(limit, Output))]
    BY <1>3 DEF PrepareCall
  <2> DEFINE b == InputBudget(limit, Output)  sent == Fit(ms, b)  n == Len(ms)
  <2>2. request'.said = ms /\ request'.budget = b /\ request'.sent = sent  BY <2>1
  <2>3. b \in Nat
    <3>1. limit \in Nat /\ Output \in Nat /\ Reserve \in Nat
      BY ClientConstants, BudgetConstants
    <3> QED  BY <3>1 DEF InputBudget, Greatest
  <2>4. ms \in Seq(Prompts) /\ Last(ms).priority = Current  BY ClientConstants
  <2>5. n \in Nat /\ Conversation(ms, n)  BY <2>4, LenProperties DEF Conversation
  <2> HIDE DEF b, sent, n
  <2>6. /\ CostOf(sent, DOMAIN sent, n) <= b + Markup
        /\ ProtectedFit(ms, b) => \A i \in Protected(ms) : i \in DOMAIN sent /\ sent[i] = ms[i]
        /\ Cardinality(Required(ms)) * Minimum <= b => Required(ms) \subseteq DOMAIN sent
    BY <2>3, <2>5, FitSends DEF sent
  <2>7. n = Len(ms)  BY DEF n
  <2> QED  BY <2>2, <2>6, <2>7 DEF TurnReachesModel
<1>4. CASE Send \/ Answer \/ HeadersLate
  <2>1. \E x \in {"waiting", "answered", "joining"} : call' = [call EXCEPT !.at = x]
    BY <1>4 DEF Send, Answer, HeadersLate
  <2>2. call'.at # "prepared"  BY <1>0, <2>1, CallKept
  <2> QED  BY <1>1, <2>2
<1>5. CASE JoinTimer \/ Collect \/ IdleTooLong \/ SeesCancel
  <2>1. CloseAll /\ \/ Return("cancelled", <<>>) \/ Return("timeout", <<>>) \/ Return("error", <<>>)
                    \/ Return("empty", TextOf(acc)) \/ Return("text", TextOf(acc))
    BY <1>5 DEF JoinTimer, Collect, IdleTooLong, SeesCancel
  <2>2. call'.at # "prepared"  BY <2>1, Returning
  <2> QED  BY <1>1, <2>2
<1>6. CASE HeadersCame
  <2>1. CASE body = "none"
    <3>1. Return("error", <<>>) /\ CloseAll  BY <1>6, <2>1 DEF HeadersCame
    <3>2. call'.at # "prepared"  BY <3>1, Returning
    <3> QED  BY <1>1, <3>2
  <2>2. CASE body # "none"
    <3>1. call' = [call EXCEPT !.at = "reading"]  BY <1>6, <2>2 DEF HeadersCame
    <3>2. call'.at # "prepared"  BY <1>0, <3>1, CallKept
    <3> QED  BY <1>1, <3>2
  <2> QED  BY <2>1, <2>2
<1>7. CASE \/ TimerFires \/ TimerDone \/ CallerGivesUp \/ Arrives \/ BreaksOff \/ Read
           \/ ReaderEnds \/ Heard \/ TickCall \/ Returned \/ UNCHANGED clientVars
  BY <1>2, <1>7 DEF TimerFires, TimerDone, CallerGivesUp, Arrives, BreaksOff, Read, ReaderEnds,
                    Heard, TickCall, Returned, clientVars
<1> QED  BY <1>3, <1>4, <1>5, <1>6, <1>7 DEF ClientNext

\* What holds of one call at all times.
THEOREM ClientIsSound == ClientSpec => []ClientSound
<1>1. ClientInit => ClientSound  BY ClientBegins
<1>2. ClientSound /\ [ClientNext]_clientVars => ClientSound'
  BY ClientHoldsOn, FollowedOn, MeasuredOn, TurnGoesOn DEF ClientSound
<1> QED  BY <1>1, <1>2, PTL DEF ClientSpec

\* A call sends what matters within its budget, returns what was said, once,
\* and leaves no body open, for all conversations, limits, texts and streams.
THEOREM ClientIsSafe == ClientSpec => []ClientSafe
<1>1. ClientSound => ClientSafe  BY DEF ClientSound, ClientHolds, StreamFollowed, ClientSafe
<1> QED  BY <1>1, ClientIsSound, PTL

\* The timer of the silences ends no stream that has not been silent for the
\* whole time-out.
THEOREM StreamsAreNotCut == ClientSpec => StreamIsNotCut
<1>1. ASSUME ClientSound, ClientNext, call.at = "reading", call'.outcome = "timeout"
      PROVE  silence.ticks >= Timeout
  <2>0. /\ DOMAIN call = {"at", "chat", "outcome", "text"} /\ call.outcome = "none"
        /\ silence.ticks \in Nat /\ waited \in 0 .. Timeout /\ Timeout \in Nat
    BY <1>1, ClientConstants DEF ClientSound, ClientHolds, ClientTypeOK
  <2>1. ~UNCHANGED call  BY <1>1, <2>0
  <2>2. ~(\/ PrepareCall \/ Send \/ TimerFires \/ TimerDone \/ CallerGivesUp \/ Answer
          \/ HeadersCame \/ HeadersLate \/ JoinTimer \/ Arrives \/ BreaksOff \/ Read
          \/ ReaderEnds \/ Heard \/ TickCall \/ Returned)
    BY <1>1, <2>1 DEF PrepareCall, Send, TimerFires, TimerDone, CallerGivesUp, Answer, HeadersCame,
          HeadersLate, JoinTimer, Arrives, BreaksOff, Read, ReaderEnds, Heard, TickCall, Returned,
          clientVars
  <2>3. ASSUME NEW STATE o, NEW STATE text, Return(o, text)  PROVE o = "timeout"
    <3>1. call'.outcome = o  BY <2>0, <2>3, CallKept DEF Return
    <3> QED  BY <1>1, <3>1
  <2>4. ~Collect
    <3>1. ASSUME Collect  PROVE FALSE
      <4>1. Return("error", <<>>) \/ Return("empty", TextOf(acc)) \/ Return("text", TextOf(acc))
        BY <3>1 DEF Collect
      <4> QED  BY <2>3, <4>1
    <3> QED  BY <3>1
  <2>5. ~SeesCancel
    <3>1. ASSUME SeesCancel  PROVE FALSE
      <4>1. Return("cancelled", <<>>)  BY <3>1 DEF SeesCancel
      <4> QED  BY <2>3, <4>1
    <3> QED  BY <3>1
  <2>6. IdleTooLong  BY <1>1, <2>2, <2>4, <2>5 DEF ClientNext
  <2>7. call.chat /\ waited >= Timeout  BY <2>6 DEF IdleTooLong
  <2>8. waited <= silence.ticks  BY <1>1, <2>7 DEF ClientSound, SilenceMeasured
  <2> QED  BY <2>0, <2>7, <2>8
<1>2. ClientSound /\ [ClientNext]_clientVars =>
         [call.at = "reading" /\ call'.outcome = "timeout" => silence.ticks >= Timeout]_clientVars
  BY <1>1
<1> QED  BY <1>2, ClientIsSound, PTL DEF ClientSpec, StreamIsNotCut
=============================================================================
