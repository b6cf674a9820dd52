----------------------------- MODULE Reminders -----------------------------
(***************************************************************************)
(* One-time reminders and scheduled queries (model/qqbot/runtime.go, the   *)
(* reminder loop; reminder_retry.go; reminder_tool.go; schedule_tool.go;   *)
(* webui/reminder_store.go).                                               *)
(*                                                                         *)
(* A poll claims what is due under reminderMu and starts a goroutine for   *)
(* each item with a copy of it.  The goroutine asks the model, sends, and  *)
(* at the end writes its result into the list as it is then: users may     *)
(* have changed, cancelled or deleted the item meanwhile.                  *)
(*                                                                         *)
(* Time: the list keeps how long it is until an item is due, a goroutine   *)
(* how long ago it started.                                                *)
(***************************************************************************)
EXTENDS Integers, FiniteSets

CONSTANTS
    Items,         \* reminders of one owner, by ID
    Query,         \* those that are scheduled queries
    NoItem,
    Jobs,          \* goroutines; a bound on those at work
    Interval,      \* of a scheduled query, in ticks
    Retry,         \* durableReminderRetryDelay per number of failures
    MaxWait,       \* bound: ticks until an item is due
    MaxFailures,   \* bound: failures are counted up to here
    MaxEdits,      \* bound: changes a user makes
    MaxRuns,       \* bound: starts of the runtime
    MaxSends,      \* bound: sends are counted up to here
    Limit,         \* personalScheduleLimit, for each of the two kinds
    Faults         \* subset of {"crash", "ack_lost", "save", "send", "llm"}

Delays == INSTANCE Backoff

ASSUME ReminderConstants ==
    /\ IsFiniteSet(Items) /\ Query \subseteq Items /\ NoItem \notin Items
    /\ Interval \in 1 .. MaxWait /\ MaxWait \in Nat
    /\ MaxFailures \in Nat \ {0} /\ MaxEdits \in Nat
    /\ Retry \in [1 .. MaxFailures -> 1 .. MaxWait]
    /\ MaxRuns \in Nat \ {0} /\ MaxSends \in Nat /\ Limit \in Nat

VARIABLES
    list,       \* the reminders, in memory and in SQLite
    active,     \* activeReminders
    job,        \* the goroutines of executeClaimedReminder
    run, running,
    edits,
    sends       \* times QQ accepted an item's message, up to MaxSends

life == <<run, running>>
vars == <<list, active, job, life, edits, sends>>

\* text counts the versions of the message or query; pending is the version
\* of the query whose result waits to be sent, or 0.
Absent == [kept |-> FALSE, cancelled |-> FALSE, ran |-> FALSE, wait |-> 0,
           text |-> 0, pending |-> 0, failures |-> 0]
Idle == [pc |-> "idle", item |-> NoItem, copy |-> Absent, run |-> 0,
         elapsed |-> 0]

AtMost(n, cap) == IF n > cap THEN cap ELSE n
Cancelled(j) == job[j].run # run \/ ~running
Goto(j, pc) == job' = [job EXCEPT ![j].pc = pc]
Open(i) == list[i].kept /\ ~list[i].cancelled /\ (i \in Query \/ ~list[i].ran)

\* SaveReminders of the list with one item changed, under reminderMu; it may
\* fail, which leaves the list as it was.
Save(i, item) ==
    \/ list' = [list EXCEPT ![i] = item]
    \/ "save" \in Faults /\ UNCHANGED list

-----------------------------------------------------------------------------
(* What users do, through the agent's tools; what fails changes nothing. *)

Init ==
    /\ list = [i \in Items |-> Absent]
    /\ active = {} /\ job = [j \in Jobs |-> Idle]
    /\ run = 1 /\ running = TRUE
    /\ edits = 0 /\ sends = [i \in Items |-> 0]

\* the items that count against the owner's quota for the kind of i
SameKind(i) == {k \in Items : (k \in Query <=> i \in Query) /\ Open(k)}

\* addOneTimeReminders, addScheduledQueries
Add(i) ==
    /\ list[i] = Absent /\ Cardinality(SameKind(i)) < Limit
    /\ \E wait \in 0 .. MaxWait :
          /\ i \in Query => wait = Interval
          /\ list' = [list EXCEPT ![i] = [Absent EXCEPT !.kept = TRUE,
                                            !.wait = wait, !.text = 1]]
    /\ UNCHANGED <<active, job, life, edits, sends>>

Edit(i) == Open(i) /\ edits < MaxEdits /\ edits' = edits + 1

\* cancelOneTimeReminder, cancelScheduledQuery
Cancel(i) ==
    /\ Edit(i)
    /\ list' = [list EXCEPT ![i].cancelled = TRUE,
                  ![i].pending = IF i \in Query THEN 0 ELSE @]
    /\ UNCHANGED <<active, job, life, sends>>

\* deleteOneTimeReminder, deleteScheduledQuery: the ID is not used again
Delete(i) ==
    /\ list[i].kept /\ edits < MaxEdits /\ edits' = edits + 1
    /\ list' = [list EXCEPT ![i].kept = FALSE]
    /\ UNCHANGED <<active, job, life, sends>>

\* updateOneTimeReminder, with a new message, a new delay or both
UpdateReminder(i) ==
    /\ i \notin Query /\ Edit(i)
    /\ \E wait \in {list[i].wait} \cup 1 .. MaxWait, text \in list[i].text .. list[i].text + 1 :
          list' = [list EXCEPT ![i].text = text, ![i].wait = wait]
    /\ UNCHANGED <<active, job, life, sends>>

\* updateScheduledQuery: with a new interval only the next time changes, with
\* a new query a result that waits is discarded too.
UpdateQuery(i) ==
    /\ i \in Query /\ Edit(i)
    /\ \/ list' = [list EXCEPT ![i].wait = Interval]
       \/ list' = [list EXCEPT ![i].text = @ + 1, ![i].pending = 0,
                     ![i].failures = 0, ![i].wait = Interval]
    /\ UNCHANGED <<active, job, life, sends>>

-----------------------------------------------------------------------------
(* The poll and the goroutines. *)

\* Variant with a defect: an item that is at work is claimed once more.
DueAnyway(i) == Open(i) /\ list[i].wait = 0

Due(i) == Open(i) /\ list[i].wait = 0 /\ i \notin active

\* claimDueReminders, and where executeClaimedReminder begins
Claim(i, j) ==
    /\ running /\ Due(i) /\ job[j] = Idle
    /\ active' = active \cup {i}
    /\ job' = [job EXCEPT ![j] =
                 [pc |-> IF i \in Query /\ list[i].pending = 0 THEN "generate"
                         ELSE "send",
                  item |-> i, copy |-> list[i], run |-> run, elapsed |-> 0]]
    /\ UNCHANGED <<list, life, edits, sends>>

\* the version that a goroutine sends
Version(j) == IF job[j].item \in Query /\ job[j].copy.pending > 0
              THEN job[j].copy.pending ELSE job[j].copy.text

\* generateScheduledQueryMessage, after a slot was free
Generate(j) ==
    /\ job[j].pc = "generate"
    /\ \/ ~Cancelled(j) /\ Goto(j, "store")
       \/ /\ Cancelled(j) \/ "llm" \in Faults
          /\ Goto(j, "failed")
    /\ UNCHANGED <<list, active, life, edits, sends>>

Storable(i) == list[i].kept /\ ~list[i].cancelled

\* storeScheduledQueryPending
StorePending(j) ==
    LET i == job[j].item IN
    /\ job[j].pc = "store"
    /\ \/ /\ Storable(i)
          /\ list' = [list EXCEPT ![i].pending = Version(j)]
          /\ Goto(j, "send")
       \/ /\ ~Storable(i) \/ "save" \in Faults
          /\ Goto(j, "failed") /\ UNCHANGED list
    /\ UNCHANGED <<active, life, edits, sends>>

Accepted(j) == sends' = [sends EXCEPT ![job[j].item] = AtMost(@ + 1, MaxSends)]

SendSucceeds(j) ==
    /\ job[j].pc = "send" /\ ~Cancelled(j)
    /\ Accepted(j) /\ Goto(j, "delivered")
    /\ UNCHANGED <<list, active, life, edits>>

\* The send fails, or its answer is lost when the run is cancelled or late.
SendFails(j) ==
    /\ job[j].pc = "send"
    /\ Cancelled(j) \/ Faults \cap {"send", "ack_lost"} # {}
    /\ \/ UNCHANGED sends
       \/ "ack_lost" \in Faults /\ Accepted(j)
    /\ Goto(j, "failed")
    /\ UNCHANGED <<list, active, life, edits>>

\* Variant with a defect: the copy is written back.
DeliveredCopy(i, j) ==
    IF i \in Query
    THEN [list[i] EXCEPT !.ran = TRUE, !.failures = 0, !.pending = 0,
            !.wait = Interval]
    ELSE [job[j].copy EXCEPT !.ran = TRUE, !.failures = 0]

\* nextScheduledTrigger, counted from the start of the run
NextRun(elapsed) ==
    Delays!NextScheduledTrigger(1, Interval, 1 + elapsed) - (1 + elapsed)

\* finishScheduledQuery and markDeliveredReminder: the item as it is by now
Delivered(i, j) ==
    IF i \in Query
    THEN [list[i] EXCEPT !.ran = TRUE, !.failures = 0, !.pending = 0,
            !.wait = NextRun(job[j].elapsed)]
    ELSE [list[i] EXCEPT !.ran = TRUE, !.failures = 0]

\* finishScheduledQuery and rescheduleOneTimeReminder after an error
Failed(i) ==
    LET n == AtMost(list[i].failures + 1, MaxFailures) IN
    [list[i] EXCEPT !.failures = n, !.wait = Retry[n],
                    !.ran = @ \/ i \in Query]

Finish(j) ==
    LET i == job[j].item IN
    /\ job[j].pc \in {"delivered", "failed"}
    /\ IF list[i].kept
       THEN Save(i, IF job[j].pc = "delivered" THEN Delivered(i, j) ELSE Failed(i))
       ELSE UNCHANGED list
    /\ Goto(j, "release")
    /\ UNCHANGED <<active, life, edits, sends>>

\* Variant with a defect: after an error the item stays claimed.
KeepActive(j) == IF list[job[j].item].failures > 0 THEN active
                 ELSE active \ {job[j].item}

Unclaimed(j) == active \ {job[j].item}

\* releaseClaimedReminder, after the failure notice was sent or not
Release(j) ==
    /\ job[j].pc = "release"
    /\ active' = Unclaimed(j)
    /\ job' = [job EXCEPT ![j] = Idle]
    /\ UNCHANGED <<list, life, edits, sends>>

JobStep(j) ==
    Generate(j) \/ StorePending(j) \/ SendSucceeds(j) \/ SendFails(j)
    \/ Finish(j) \/ Release(j)

-----------------------------------------------------------------------------
Stop ==
    /\ running /\ run < MaxRuns
    /\ running' = FALSE
    /\ UNCHANGED <<list, active, job, run, edits, sends>>

Start ==
    /\ ~running
    /\ running' = TRUE /\ run' = run + 1
    /\ UNCHANGED <<list, active, job, edits, sends>>

\* The process ends; a new one has the list of SQLite only.
Crash ==
    /\ "crash" \in Faults /\ run < MaxRuns
    /\ running' = FALSE /\ active' = {} /\ job' = [j \in Jobs |-> Idle]
    /\ UNCHANGED <<list, run, edits, sends>>

Tick ==
    /\ list' = [i \in Items |-> [list[i] EXCEPT !.wait = IF @ > 0 THEN @ - 1 ELSE 0]]
    /\ job' = [j \in Jobs |-> IF job[j] = Idle THEN Idle ELSE
                 [job[j] EXCEPT !.elapsed = AtMost(@ + 1, MaxWait)]]
    /\ UNCHANGED <<active, life, edits, sends>>

Next ==
    \/ \E i \in Items :
          \/ Add(i) \/ Cancel(i) \/ Delete(i) \/ UpdateReminder(i) \/ UpdateQuery(i)
          \/ \E j \in Jobs : Claim(i, j)
    \/ \E j \in Jobs : JobStep(j)
    \/ Stop \/ Start \/ Crash \/ Tick

Spec == Init /\ [][Next]_vars

\* The loop polls, delays pass, calls end and the bot is started again.  The
\* model, the database and QQ may fail any number of times, but not for ever.
Fairness ==
    /\ WF_vars(Start) /\ WF_vars(Tick)
    /\ \A j \in Jobs : WF_vars(JobStep(j))
    /\ \A i \in Items :
          /\ SF_vars(\E j \in Jobs : Claim(i, j))
          /\ SF_vars(\E j \in Jobs : job[j].item = i /\ SendSucceeds(j))
          /\ SF_vars(\E j \in Jobs : /\ job[j].item = i
                                     /\ job[j].pc = "delivered"
                                     /\ Finish(j) /\ list'[i].ran)
    /\ \A i \in Query :
          /\ SF_vars(\E j \in Jobs : /\ job[j].item = i
                                     /\ Generate(j) /\ job'[j].pc = "store")
          /\ SF_vars(\E j \in Jobs : /\ job[j].item = i
                                     /\ StorePending(j) /\ job'[j].pc = "send")

FairSpec == Spec /\ Fairness

-----------------------------------------------------------------------------
(* Properties. *)

Entries == [kept : BOOLEAN, cancelled : BOOLEAN, ran : BOOLEAN,
            wait : 0 .. MaxWait, text : 0 .. MaxEdits + 1,
            pending : 0 .. MaxEdits + 1, failures : 0 .. MaxFailures]

\* Type invariant; a claimed item has exactly one goroutine, and the other
\* way round.
TypeOK ==
    /\ list \in [Items -> Entries]
    /\ active = {job[j].item : j \in {k \in Jobs : job[k].pc # "idle"}}
    /\ sends \in [Items -> 0 .. MaxSends]
    /\ run \in 1 .. MaxRuns /\ edits \in 0 .. MaxEdits

\* No item is worked on twice at a time, also when goroutines of a stopped
\* run are still at work and the next run polls.
OneJobPerItem ==
    \A j, k \in Jobs : job[j].item = job[k].item /\ j # k => job[j].item = NoItem

\* A one-time reminder reaches its user once, although stops interrupt it,
\* unless QQ's answer is lost, a save fails or the process crashes.
RemindsOnce ==
    Faults \cap {"crash", "ack_lost", "save"} = {} =>
       \A i \in Items \ Query : sends[i] <= 1

\* What a user did to an item while a goroutine was at work with a copy of it
\* is not undone when the goroutine writes its result.
UserChangesStick ==
    [][edits' = edits =>
         \A i \in Items : list[i].kept =>
            /\ list'[i].kept
            /\ list'[i].cancelled = list[i].cancelled
            /\ list'[i].text = list[i].text]_vars

\* No path leads past the owner's quota for reminders or for queries: what is
\* done, cancelled or deleted makes room, and no late result takes it back.
QuotaKept ==
    /\ Cardinality({i \in Query : Open(i)}) <= Limit
    /\ Cardinality({i \in Items \ Query : Open(i)}) <= Limit

\* A reminder reaches its user and a query reports again and again, unless it
\* is cancelled or deleted, whatever number of calls, saves and runs fail.
EveryItemRuns ==
    \A i \in Items :
       Open(i) ~> \/ ~Open(i)
                  \/ \E j \in Jobs : job[j].item = i /\ job[j].pc = "delivered"

\* The tool's manual: "cancel 只停止并保留记录", it stops the reminder and keeps
\* its record.  What is cancelled is not sent any more.
CancelStops ==
    [][\A i \in Items : list[i].cancelled => sends'[i] = sends[i]]_vars

\* The list stays sound under polls, users, stops and restarts: one job for an
\* item, one delivery of a reminder, and nobody beyond the quota.
RemindersSafe == TypeOK /\ OneJobPerItem /\ RemindsOnce /\ QuotaKept
=============================================================================
