---------------------------- MODULE PassiveBatch ----------------------------
(***************************************************************************)
(* The passive batch of one group (model/qqbot/passive_batch.go): chatter  *)
(* that mentions nobody is collected for some seconds, shown to a router   *)
(* model as a whole, and answered once or not at all.  Inbound workers     *)
(* append, a timer starts a flush, and the flush works without the lock    *)
(* while it waits for the models: it only notices what happened meanwhile  *)
(* by comparing generations.                                               *)
(*                                                                         *)
(* Time is left out: a timer that is armed may fire at any moment.         *)
(***************************************************************************)
EXTENDS Integers, Sequences, FiniteSets

CONSTANTS
    Candidates,    \* messages of the group, each offered once
    Flushes,       \* goroutines that timers start; a bound on those at work
    MaxItems,      \* passiveReplyBatchMaxItems
    DecisionItems, \* passiveReplyDecisionMaxItems
    MaxReroutes,   \* passiveReplyMaxReroutes
    MaxRuns,       \* bound: runs of the runtime
    MaxCancels     \* bound: explicit requests in the group

ASSUME BatchConstants ==
    /\ IsFiniteSet(Candidates) /\ MaxItems \in Nat \ {0}
    /\ DecisionItems \in Nat \ {0} /\ MaxReroutes \in Nat
    /\ MaxRuns \in Nat \ {0} /\ MaxCancels \in Nat

VARIABLES
    batch,      \* r.passiveBatches[key]
    flush,      \* the goroutines of flushPassiveReplyBatch
    inHand,     \* run whose context a worker read before it appends, or 0
    run,        \* runGeneration
    running,    \* Runtime.running
    cancels,    \* explicit requests so far
    answers,    \* replies sent to a candidate: 0, 1, 2 (or more)
    batches,    \* batches made so far, which numbers the present one
    givenWay    \* candidates cancelled before any flush looked at them

life == <<run, running, cancels>>
history == <<answers, batches, givenWay>>
vars == <<batch, flush, inHand, life, history>>

NoTimer == [run |-> 0, gen |-> 0]
NoBatch == [items |-> <<>>, generation |-> 0, processing |-> FALSE,
            timer |-> NoTimer]
Idle == [pc |-> "idle", run |-> 0, gen |-> 0, reroutes |-> 0,
         turn |-> {}, target |-> {}, batch |-> 0, saw |-> {}]

Exists == batch.generation > 0
Cancelled(r) == r # run \/ ~running
Msgs(items) == {items[i].msg : i \in 1 .. Len(items)}
Newest(items, n) ==
    IF Len(items) <= n THEN items
    ELSE SubSeq(items, Len(items) - n + 1, Len(items))

\* schedulePassiveReplyBatchLocked: the timer that was armed is stopped
Scheduled(b, r) == [b EXCEPT !.timer = [run |-> r, gen |-> b.generation]]

At(f, pc) == flush[f].pc = pc
Become(f, state) == flush' = [flush EXCEPT ![f] = state]
Goto(f, pc) == Become(f, [flush[f] EXCEPT !.pc = pc])

-----------------------------------------------------------------------------
(* The workers' side. *)

Init ==
    /\ batch = NoBatch
    /\ flush = [f \in Flushes |-> Idle]
    /\ inHand = [m \in Candidates |-> 0]
    /\ run = 1 /\ running = TRUE
    /\ answers = [m \in Candidates |-> 0]
    /\ cancels = 0 /\ batches = 0 /\ givenWay = {}

\* enqueuePassiveReply reads the run's context under the runtime's lock ...
Offer(m) ==
    /\ running /\ inHand[m] = 0
    /\ inHand' = [inHand EXCEPT ![m] = run]
    /\ UNCHANGED <<batch, flush, life, history>>

\* ... and appends under the batch's lock; only a batch that no flush works
\* on gets a timer.
GrownBy(b, m, r) ==
    LET gen == b.generation + 1
        items == Append(b.items, [msg |-> m, gen |-> gen])
        grown == [b EXCEPT !.generation = gen, !.items = Newest(items, MaxItems)]
    IN  IF b.processing THEN grown ELSE Scheduled(grown, r)

EnqueuePassiveReply(m) ==
    /\ inHand[m] > 0
    /\ inHand' = [inHand EXCEPT ![m] = -1]
    /\ batch' = GrownBy(batch, m, inHand[m])
    /\ batches' = IF Exists THEN batches ELSE batches + 1
    /\ UNCHANGED <<flush, life, answers, givenWay>>

\* candidates that no flush has looked at yet
Untouched == {m \in Msgs(batch.items) :
                answers[m] = 0 /\ \A f \in Flushes : m \notin flush[f].saw}

\* Variant with a defect: the timer is stopped but the batch stays.
CancelStopsTimerOnly ==
    /\ cancels < MaxCancels /\ Exists
    /\ cancels' = cancels + 1
    /\ batch' = [batch EXCEPT !.timer = NoTimer]
    /\ givenWay' = givenWay \cup Untouched
    /\ UNCHANGED <<flush, inHand, run, running, answers, batches>>

\* cancelPassiveReplyBatch: an explicit request takes precedence.
CancelPassiveReplyBatch ==
    /\ cancels < MaxCancels /\ Exists
    /\ cancels' = cancels + 1
    /\ batch' = NoBatch
    /\ givenWay' = givenWay \cup Untouched
    /\ UNCHANGED <<flush, inHand, run, running, answers, batches>>

\* Runtime.Stop cancels the run's context and clears the batches.
Stop ==
    /\ running /\ run < MaxRuns
    /\ running' = FALSE
    /\ batch' = NoBatch
    /\ UNCHANGED <<flush, inHand, run, cancels, history>>

Start ==
    /\ ~running
    /\ running' = TRUE /\ run' = run + 1
    /\ UNCHANGED <<batch, flush, inHand, cancels, history>>

-----------------------------------------------------------------------------
(* A flush. *)

\* The timer fires; its goroutine has yet to get the lock.
Fire(f) ==
    /\ At(f, "idle") /\ batch.timer # NoTimer
    /\ Become(f, [Idle EXCEPT !.pc = "fired", !.run = batch.timer.run,
                              !.gen = batch.timer.gen])
    /\ batch' = [batch EXCEPT !.timer = NoTimer]
    /\ UNCHANGED <<inHand, life, history>>

MayBegin(f) ==
    Exists /\ batch.generation = flush[f].gen /\ ~batch.processing

Begin(f) ==
    /\ At(f, "fired")
    /\ IF MayBegin(f)
       THEN /\ Become(f, [flush[f] EXCEPT !.pc = "snapshot", !.batch = batches])
            /\ batch' = [batch EXCEPT !.processing = TRUE, !.timer = NoTimer]
       ELSE Become(f, Idle) /\ UNCHANGED batch
    /\ UNCHANGED <<inHand, life, history>>

\* passiveReplyBatchChanged: the batch is gone, or it has grown.
Gone == ~Exists \/ ~batch.processing
Grown(f) == ~Gone /\ batch.generation > flush[f].gen
MayReroute(f) == flush[f].reroutes < MaxReroutes
Reroute(f) ==
    Become(f, [flush[f] EXCEPT !.pc = "snapshot", !.reroutes = @ + 1])

\* passiveReplyBatchSnapshot: the newest few are put to the router, unless
\* all of them are suppressed.
Snapshot(f) ==
    /\ At(f, "snapshot")
    /\ IF Gone \/ Cancelled(flush[f].run)
       THEN Become(f, Idle)
       ELSE \E pc \in {"route", "finish"} :
              Become(f, [flush[f] EXCEPT !.pc = pc, !.gen = batch.generation,
                           !.turn = Msgs(Newest(batch.items, DecisionItems)),
                           !.saw = Msgs(batch.items)])
    /\ UNCHANGED <<batch, inHand, life, history>>

\* routePassiveReplyBatch returns: the batch is gone, or must be routed again,
\* or is not to be answered, or has a candidate to answer.
Routed(f) ==
    /\ At(f, "route")
    /\ IF Gone THEN Become(f, Idle)
       ELSE IF Grown(f) /\ MayReroute(f) THEN Reroute(f)
       ELSE \/ Goto(f, "finish")
            \/ /\ ~Cancelled(flush[f].run)
               /\ \E m \in flush[f].turn :
                     Become(f, [flush[f] EXCEPT !.pc = "reply", !.target = {m}])
    /\ UNCHANGED <<batch, inHand, life, history>>

\* The reply is written.  Before it is sent the batch is looked at once more,
\* but only while a reroute is left; writing it may also fail.
Reply(f) ==
    /\ At(f, "reply")
    /\ \/ Goto(f, "finish")
       \/ IF MayReroute(f) /\ (Gone \/ Grown(f)) THEN Reroute(f)
          ELSE Goto(f, "send")
    /\ UNCHANGED <<batch, inHand, life, history>>

\* The channel's answer: sent, or not.
Send(f) ==
    /\ At(f, "send")
    /\ Goto(f, "finish")
    /\ \/ answers' = [m \in Candidates |->
                        IF m \in flush[f].target /\ answers[m] < 2
                        THEN answers[m] + 1 ELSE answers[m]]
       \/ UNCHANGED answers
    /\ UNCHANGED <<batch, inHand, life, batches, givenWay>>

\* Variant with a defect: the batch is deleted with what arrived meanwhile.
DeleteAll(f) == NoBatch

\* Variant with a defect: what the flush has dealt with stays as well.
KeepAll(f) == Scheduled([batch EXCEPT !.processing = FALSE], flush[f].run)

\* The items later than a generation: generations rise along the items, so
\* these are the last ones.
Later(items, gen) ==
    LET first == CHOOSE k \in 1 .. Len(items) + 1 :
                   \A i \in 1 .. Len(items) : items[i].gen > gen <=> i >= k
    IN  SubSeq(items, first, Len(items))

\* finishPassiveReplyBatch: what arrived after the snapshot stays and is
\* scheduled anew, with the context of this flush.
Remaining(f) ==
    LET pending == Later(batch.items, flush[f].gen) IN
    IF pending = <<>> THEN NoBatch
    ELSE Scheduled([batch EXCEPT !.items = pending, !.processing = FALSE],
                   flush[f].run)

Finish(f) ==
    /\ At(f, "finish")
    /\ batch' = Remaining(f)
    /\ Become(f, Idle)
    /\ UNCHANGED <<inHand, life, history>>

FlushStep(f) ==
    Begin(f) \/ Snapshot(f) \/ Routed(f) \/ Reply(f) \/ Send(f) \/ Finish(f)

Next ==
    \/ \E m \in Candidates : Offer(m) \/ EnqueuePassiveReply(m)
    \/ CancelPassiveReplyBatch \/ Stop \/ Start
    \/ \E f \in Flushes : Fire(f) \/ FlushStep(f)

Spec == Init /\ [][Next]_vars

\* Timers fire, the models answer or time out, and a stopped bot is started.
Fairness ==
    /\ WF_vars(Start)
    /\ WF_vars(\E f \in Flushes : Fire(f))
    /\ \A f \in Flushes : WF_vars(FlushStep(f))

FairSpec == Spec /\ Fairness

-----------------------------------------------------------------------------
(* Properties. *)

Working == {f \in Flushes : flush[f].pc \notin {"idle", "fired"}}

\* Type invariant: generations rise along the items, none is ahead of the
\* batch's own, and the batch never holds more than MaxItems.
TypeOK ==
    /\ Len(batch.items) <= MaxItems
    /\ \A i, j \in 1 .. Len(batch.items) :
          i < j => batch.items[i].gen < batch.items[j].gen
    /\ \A i \in 1 .. Len(batch.items) : batch.items[i].gen <= batch.generation
    /\ batch.timer.gen \in {0, batch.generation}
    /\ inHand \in [Candidates -> -1 .. MaxRuns]
    /\ answers \in [Candidates -> 0 .. 2]
    /\ run \in 1 .. MaxRuns
    /\ \A f \in Flushes : flush[f].reroutes <= MaxReroutes

\* The batch is cleared by Stop and by explicit requests; after that an old
\* flush may take a later batch for its own (see ExplicitRequestWins).
Undisturbed == cancels = 0 /\ run = 1 /\ running

\* The lock is released while the models work, yet at most one flush works
\* on the group: the timer, the generation and the processing flag must
\* together keep others out, while nothing clears the batch.
OneFlushAtWork == Undisturbed => Cardinality(Working) <= 1

\* No candidate is answered twice, although a batch that grows while it is
\* routed is routed again, while nothing clears the batch.
OneAnswerEach == Undisturbed => \A m \in Candidates : answers[m] <= 1

\* A candidate leaves the batch only when a flush that had it before its eyes
\* is through, or when newer ones push it out: what arrives while the router
\* or the reply model works is not lost, while nothing clears the batch.
SeenBeforeLeaving ==
    [][Undisturbed' =>
       \A m \in Msgs(batch.items) \ Msgs(batch'.items) :
          \/ \E f \in Flushes : At(f, "finish") /\ m \in flush[f].saw
          \/ Len(batch.items) = MaxItems /\ Len(batch'.items) = MaxItems]_vars

\* Candidates that gave way to an explicit request before any flush looked at
\* them are never answered, by no flush of an earlier or a later batch.
WaitingGivesWay == \A m \in givenWay : answers[m] = 0

\* Every candidate leaves the batch: it is never kept for ever by a flush
\* that has gone.
CandidatesAreConsidered ==
    \A m \in Candidates :
       m \in Msgs(batch.items) ~> m \notin Msgs(batch.items)

\* What holds of that: as long as the bot is not stopped, also when explicit
\* requests clear the batch under a flush that is at work.
ConsideredUnlessStopped == [](run = 1 /\ running) => CandidatesAreConsidered

\* The comment in prepareMessageEvent: an explicit request takes precedence
\* over passive chatter.  A routing decision is acted on only if the batch it
\* is about is still there.
ExplicitRequestWins ==
    [][\A f \in Flushes : At(f, "route") /\ flush'[f].pc = "reply" =>
          Exists /\ flush[f].batch = batches]_vars

\* One flush at a time works on a group, and no candidate is answered twice or
\* after it gave way, however timers, flushes and arrivals interleave.
BatchSafe == TypeOK /\ OneFlushAtWork /\ OneAnswerEach /\ WaitingGivesWay
=============================================================================
