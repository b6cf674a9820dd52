--------------------------- MODULE SubagentTasks ---------------------------
(***************************************************************************)
(* Background tasks (subagent_task.go) that outlive the message which      *)
(* asked for them: a task is reserved under its key, the user is told of   *)
(* it, and a goroutine waits for a slot, does the work and sends what came *)
(* of it.  Tasks of the document plugin work as in OcrPool; those of the   *)
(* image tool (image_agent_tool.go) make one call, and their start needs   *)
(* no message of its own.                                                  *)
(*                                                                         *)
(* A task belongs to the run of the bot in which it was started; one that  *)
(* is started while the bot is stopped belongs to none.  Progress messages,*)
(* which decide nothing, are left out.                                     *)
(***************************************************************************)
EXTENDS OcrPool

CONSTANTS
    Keys,           \* task keys: the question and the documents
    DocumentOf,     \* the document of a key, NoDocument for an image task
    NoDocument,
    TaskSlots,      \* cap(subagentSem)
    MaxStops        \* bound: stops of the bot, and ends of the process

ASSUME TaskConstants ==
    /\ DocumentOf \in [Keys -> Documents \cup {NoDocument}]
    /\ NoDocument \notin Documents
    /\ TaskSlots \in Nat \ {0} /\ MaxStops \in Nat

VARIABLES
    task,       \* each reservation: its goroutine and its entry in subagentTasks
    on,         \* the bot runs
    stops

vars == <<poolVars, task, on, stops>>

NoTask == [pc |-> "none", key |-> "none", bound |-> FALSE, root |-> FALSE,
           told |-> FALSE, how |-> "none"]

Working == {"begin", "pages", "chunks", "answer", "asking", "image", "failed",
            "reply"}
Active == {t \in Tasks : task[t].pc \notin {"none", "ended"}}
AtWork == {t \in Tasks : task[t].pc \in Working}

Is(t, pc) == task[t].pc = pc
Goto(t, pc) == task' = [task EXCEPT ![t].pc = pc]

TaskOnly == UNCHANGED <<poolVars, on, stops>>

\* The goroutine is gone: removeSubagentTask, and the slot is given back.
End(t, how) ==
    /\ task' = [task EXCEPT ![t].pc = "ended", ![t].how = how]
    /\ pool' = [pool EXCEPT ![t] = NoPool]
    /\ over' = [over EXCEPT ![t] = FALSE]
    /\ UNCHANGED <<calling, cache, on, stops>>

Init ==
    /\ pool = [t \in Tasks |-> NoPool]
    /\ over = [t \in Tasks |-> FALSE]
    /\ calling = {}
    /\ cache = [d \in Documents |-> {}]
    /\ task = [t \in Tasks |-> NoTask]
    /\ on = TRUE /\ stops = 0

-----------------------------------------------------------------------------
(* Reservation. *)

\* reservePluginTasks for a key: one that is reserved is not reserved again
\* (the user is told of the one there is).
Reserve(t, k) ==
    /\ Is(t, "none") /\ \A u \in Active : task[u].key # k
    /\ task' = [task EXCEPT ![t] =
          [NoTask EXCEPT !.key = k,
               !.pc = IF DocumentOf[k] = NoDocument THEN "queued" ELSE "ack",
               !.bound = on]]
    /\ TaskOnly

\* launchPluginTasks: a task of which the user cannot be told is withdrawn,
\* and the message is handled again.
Ack(t) ==
    /\ Is(t, "ack")
    /\ \/ /\ task' = [task EXCEPT ![t].pc = "queued", ![t].told = TRUE,
                                  ![t].bound = on]
          /\ TaskOnly
       \/ End(t, "withdrawn")

-----------------------------------------------------------------------------
(* runPluginTask. *)

Begin(t) ==
    /\ Is(t, "queued") /\ Cardinality(AtWork) < TaskSlots
    /\ Goto(t, IF DocumentOf[task[t].key] = NoDocument THEN "image" ELSE "begin")
    /\ TaskOnly

\* The run ended while the task waited for its slot.
Dismiss(t) == Is(t, "queued") /\ task[t].root /\ End(t, "stopped")

Document(t) == DocumentOf[task[t].key]

\* The head of runDocumentOCRTask: the cache, or the pages, if the document
\* can be opened.
Open(t) ==
    /\ Is(t, "begin")
    /\ \/ /\ cache[Document(t)] # {}
          /\ pool' = [pool EXCEPT ![t].done = cache[Document(t)]]
          /\ Goto(t, "answer") \/ Goto(t, "chunks")
       \/ /\ cache[Document(t)] = {}
          /\ pool' = [pool EXCEPT ![t] = NewPool("pages")] /\ Goto(t, "pages")
       \/ cache[Document(t)] = {} /\ Goto(t, "failed") /\ UNCHANGED pool
    /\ UNCHANGED <<over, calling, cache, on, stops>>

\* The end of the pages, which cancels what is left of the feeder; the error
\* of saveDocumentOCRCache is dropped; the text may be too long.
Recognised(t) ==
    /\ Is(t, "pages") /\ Joined(t)
    /\ pool' = [pool EXCEPT ![t] = [NoPool EXCEPT !.done = pool[t].done]]
    /\ IF PagesComplete(t)
       THEN /\ \/ cache' = [cache EXCEPT ![Document(t)] = pool[t].done]
               \/ UNCHANGED cache
            /\ Goto(t, "answer") \/ Goto(t, "chunks")
       ELSE Goto(t, "failed") /\ UNCHANGED cache
    /\ UNCHANGED <<over, calling, on, stops>>

Condense(t) ==
    /\ Is(t, "chunks") /\ pool[t].kind # "chunks"
    /\ pool' = [pool EXCEPT ![t] = NewPool("chunks")]
    /\ UNCHANGED <<over, calling, cache, task, on, stops>>

Condensed(t) ==
    /\ Is(t, "chunks") /\ pool[t].kind = "chunks" /\ Joined(t)
    /\ pool' = [pool EXCEPT ![t] = [NoPool EXCEPT !.done = pool[t].done]]
    /\ Goto(t, IF over[t] THEN "failed" ELSE "answer")
    /\ UNCHANGED <<over, calling, cache, on, stops>>

\* The last call waits for a slot of its own, or gives up.
Ask(t) ==
    /\ Is(t, "answer")
    /\ \/ /\ SlotFree
          /\ calling' = calling \cup {t} /\ Goto(t, "asking")
       \/ Goto(t, "failed") /\ UNCHANGED calling
    /\ UNCHANGED <<pool, over, cache, on, stops>>

Answered(t) ==
    /\ Is(t, "asking") /\ calling' = calling \ {t}
    /\ Goto(t, "reply") \/ Goto(t, "failed")
    /\ UNCHANGED <<pool, over, cache, on, stops>>

\* dianaImageTool.execute
Draw(t) == Is(t, "image") /\ (Goto(t, "reply") \/ Goto(t, "failed")) /\ TaskOnly

\* A result that cannot be sent is not sent again.
Reply(t) ==
    Is(t, "reply") /\ (End(t, "answered") \/ End(t, "unsent"))

\* An error is reported, a timeout too, but not the end of the run.
Report(t) ==
    /\ Is(t, "failed")
    /\ IF task[t].root THEN End(t, "silent")
       ELSE End(t, "told") \/ End(t, "unsent")

\* The task's own time is up.
TimeOut(t) ==
    /\ task[t].pc \in Working /\ ~over[t]
    /\ over' = [over EXCEPT ![t] = TRUE]
    /\ UNCHANGED <<pool, calling, cache, task, on, stops>>

-----------------------------------------------------------------------------
(* The bot. *)

\* Stop ends the context of the run; tasks of no run are not concerned.
Stop ==
    /\ on /\ on' = FALSE /\ stops < MaxStops /\ stops' = stops + 1
    /\ LET gone == {t \in Active : task[t].bound /\ ~Is(t, "ack")}
       IN  /\ task' = [t \in Tasks |-> IF t \in gone
                          THEN [task[t] EXCEPT !.root = TRUE] ELSE task[t]]
           /\ over' = [t \in Tasks |-> over[t] \/ t \in gone]
    /\ UNCHANGED <<pool, calling, cache>>

Start ==
    /\ ~on /\ on' = TRUE /\ UNCHANGED <<poolVars, task, stops>>

\* The process ends and is started again: only the cache is kept.
Restart ==
    /\ stops < MaxStops /\ stops' = stops + 1 /\ on' = TRUE
    /\ pool' = [t \in Tasks |-> NoPool] /\ calling' = {}
    /\ task' = [t \in Tasks |-> IF t \in Active
                   THEN [task[t] EXCEPT !.pc = "ended", !.how = "crashed"]
                   ELSE task[t]]
    /\ over' = [t \in Tasks |-> FALSE] /\ UNCHANGED cache

TaskStep(t) ==
    \/ Ack(t) \/ Begin(t) \/ Dismiss(t) \/ Open(t) \/ Recognised(t)
    \/ Condense(t) \/ Condensed(t) \/ Ask(t) \/ Answered(t) \/ Draw(t)
    \/ Reply(t) \/ Report(t)
    \/ /\ FeederStep(t) \/ \E w \in Workers : WorkerStep(t, w)
       /\ UNCHANGED <<task, on, stops>>

Next ==
    \/ \E t \in Tasks :
          (\E k \in Keys : Reserve(t, k)) \/ TaskStep(t) \/ TimeOut(t)
    \/ Stop \/ Start \/ Restart

\* Goroutines run, every call and every rendering of a page ends, and one
\* that waits for subagentSem is served in its turn.
TaskFairness == \A t \in Tasks : SF_vars(TaskStep(t))

Spec == Init /\ [][Next]_vars /\ TaskFairness

-----------------------------------------------------------------------------
(* Properties. *)

\* Type invariant: the tasks, their pools and the cache.
TypeOK ==
    /\ \A t \in Tasks : /\ task[t].pc \in Working \cup {"none", "ack", "queued", "ended"}
                        /\ pool[t].done \subseteq Pages
                        /\ pool[t].next \in 1 .. PageCount + 1
    /\ cache \in [Documents -> SUBSET Pages]
    /\ calling \subseteq Tasks

\* The same work is never done twice at a time: whatever is withdrawn, fails
\* or is stopped, a key has at most one goroutine.
OneTaskPerKey ==
    \A t, u \in Active : t # u => task[t].key # task[u].key

\* What the cache holds and what an answer is based on has every page: a
\* pool that ended early, whichever worker failed and whenever the time was up,
\* is not taken for one that is done.
NothingLeftOut ==
    /\ \A d \in Documents : cache[d] \in {{}, Pages}
    /\ \A t \in Tasks : task[t].pc \in {"answer", "asking"} => pool[t].done = Pages

\* A user who was told of a task hears how it ended, unless the bot was
\* stopped or the message could not be sent; that the time is up is no reason to
\* fall silent.
EndsAreAnnounced ==
    \A t \in Tasks :
        Is(t, "ended") /\ task[t].told /\ ~task[t].root
        => task[t].how \in {"answered", "told", "unsent", "crashed"}

\* Every task comes to an end and frees its key: the pools, the two
\* semaphores and the contexts never leave goroutines waiting for one another.
EveryTaskEnds ==
    \A t \in Tasks : t \in Active ~> Is(t, "ended")

\* Tasks do not double one another, take no half result for a whole one, and
\* their users hear how they ended.
TasksSafe == TypeOK /\ OneTaskPerKey /\ NothingLeftOut /\ EndsAreAnnounced
=============================================================================
