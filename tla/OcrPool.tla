------------------------------ MODULE OcrPool ------------------------------
(***************************************************************************)
(* The work of a document task (document_ocr.go): the pages of a scanned   *)
(* document are recognised by a pool of workers, a text that is too long   *)
(* is condensed by another one, chunk by chunk, and a last call gives the  *)
(* answer.  Every call of a model, in whichever task, takes one of a few   *)
(* slots (subagentLLMSem).                                                 *)
(*                                                                         *)
(* In both pools one goroutine hands out the numbers over an unbuffered    *)
(* channel and closes it; a worker leaves when it is closed.  A failed page*)
(* ends its pool, a failed chunk is kept as it was.  What a page says is   *)
(* left out, and a text has as many chunks as its document has pages.      *)
(***************************************************************************)
EXTENDS Integers, FiniteSets

CONSTANTS
    Tasks,
    Documents,
    PageCount,      \* of a document, at most the limit
    Workers,        \* of a pool
    LLMSlots        \* cap(subagentLLMSem)

ASSUME PoolConstants ==
    /\ PageCount \in Nat \ {0} /\ LLMSlots \in Nat \ {0}
    /\ IsFiniteSet(Workers) /\ Cardinality(Workers) \in 1 .. PageCount

VARIABLES
    pool,       \* of each task
    over,       \* the context of the task's work has ended
    calling,    \* tasks that make a call of their own, outside the pools
    cache       \* the pages of each document in the OCR cache

poolVars == <<pool, over, calling, cache>>

Pages == 1 .. PageCount
NoPool == [kind |-> "none", next |-> 1, open |-> FALSE, failed |-> FALSE,
           done |-> {}, at |-> [w \in Workers |-> [pc |-> "out", page |-> 0]]]

At(t, w, pc) == pool[t].at[w].pc = pc
Move(t, w, pc) == pool' = [pool EXCEPT ![t].at[w].pc = pc]

\* The pool is made: sessions for all workers, and the feeder.
NewPool(kind) ==
    [NoPool EXCEPT !.kind = kind, !.open = TRUE,
                   !.at = [w \in Workers |-> [pc |-> "take", page |-> 0]]]

\* workCtx of the pages; the chunks have the context of the task.
WorkOver(t) == over[t] \/ (pool[t].kind = "pages" /\ pool[t].failed)

\* generateForPluginTask may go on
SlotFree ==
    Cardinality({x \in Tasks \X Workers : At(x[1], x[2], "call")})
        + Cardinality(calling) < LLMSlots

-----------------------------------------------------------------------------
(* ocrPDFDocument and reduceOCRContext. *)

\* jobs <- pageIndex, which the select may choose although the work is over.
Feed(t, w) ==
    /\ pool[t].open /\ pool[t].next <= PageCount /\ At(t, w, "take")
    /\ pool' = [pool EXCEPT ![t].next = @ + 1,
                            ![t].at[w] = [pc |-> "got", page |-> pool[t].next]]

\* Variant with a defect: a feeder that stops early does not close it.
CloseJobsWhenFed(t) ==
    /\ pool[t].open
    /\ \/ /\ pool[t].next = PageCount + 1
          /\ pool' = [pool EXCEPT ![t].open = FALSE]
       \/ /\ pool[t].next <= PageCount /\ WorkOver(t)
          /\ pool' = [pool EXCEPT ![t].next = PageCount + 2]

\* close(jobs)
CloseJobs(t) ==
    /\ pool[t].open /\ (pool[t].next > PageCount \/ WorkOver(t))
    /\ pool' = [pool EXCEPT ![t].open = FALSE]

Leave(t, w) == At(t, w, "take") /\ ~pool[t].open /\ Move(t, w, "out")

Kept(t, w) ==
    pool' = [pool EXCEPT ![t].done = @ \cup {pool[t].at[w].page},
                         ![t].at[w].pc = "take"]

\* errOnce and cancel for a page; fallbackOCRReductionChunk for a chunk.
Fails(t, w) ==
    IF pool[t].kind = "pages"
    THEN pool' = [pool EXCEPT ![t].failed = TRUE, ![t].at[w].pc = "out"]
    ELSE IF over[t] THEN Move(t, w, "out") ELSE Kept(t, w)

\* Before the call: a page is rendered, unless the work is over.
Prepare(t, w) ==
    /\ At(t, w, "got")
    /\ IF pool[t].kind = "pages" /\ WorkOver(t) THEN Move(t, w, "out")
       ELSE Move(t, w, "wait") \/ (pool[t].kind = "pages" /\ Fails(t, w))

TakeSlot(t, w) ==
    At(t, w, "wait") /\ SlotFree /\ Move(t, w, "call")

\* The call's context, which has a deadline of its own, ends while it waits.
GiveUp(t, w) == At(t, w, "wait") /\ Fails(t, w)

Recognise(t, w) == At(t, w, "call") /\ (Kept(t, w) \/ Fails(t, w))

\* wg.Wait returns.
Joined(t) == \A w \in Workers : At(t, w, "out")

WorkerStep(t, w) ==
    /\ \/ Feed(t, w) \/ Leave(t, w) \/ Prepare(t, w) \/ TakeSlot(t, w)
       \/ GiveUp(t, w) \/ Recognise(t, w)
    /\ UNCHANGED <<over, calling, cache>>

FeederStep(t) == CloseJobs(t) /\ UNCHANGED <<over, calling, cache>>

\* Variant with a defect: that the time was up is not looked at once more.
PagesCompleteUnlessFailed(t) == ~pool[t].failed

\* The end of ocrPDFDocument: no page failed, and the context has not ended
\* while every worker was between two pages.
PagesComplete(t) == ~pool[t].failed /\ ~over[t]

=============================================================================
