-------------------------- MODULE HistoryBackfill --------------------------
(***************************************************************************)
(* The history backfill of one conversation (model/qqbot/inbound_queue.go: *)
(* the coordinator's loop, backfillInboundHistory, fetchHistorySince).     *)
(*                                                                         *)
(* Messages that QQ holds are numbered as they were sent; live ones arrive *)
(* over the link while it is up.  Some time after the coordinator has seen *)
(* a reconnect, a goroutine reads the conversation's watermark, asks QQ    *)
(* for pages of history back to that watermark, and stores what it got.    *)
(* Env says which of the things that go wrong may happen: messages while   *)
(* the link is up, reconnects between two polls, pages that fail after the *)
(* first, and writes that fail.                                            *)
(*                                                                         *)
(* The other conversations matter only to the watermark of one that has no *)
(* stored message; here there is always one.                               *)
(***************************************************************************)
EXTENDS Integers, Sequences, FiniteSets, FiniteSetsExt

CONSTANTS
    PageSize,     \* historyPageSize
    MaxSent,      \* bound: messages of the conversation
    MaxDrops,     \* bound: times the link goes down
    MaxFaults,    \* bound: calls and writes that fail
    Env           \* what may happen: subset of {"live", "flap", "partial", "db"}

ASSUME BackfillConstants ==
    /\ PageSize \in Nat \ {0, 1} /\ MaxSent \in Nat \ {0}
    /\ MaxDrops \in Nat /\ MaxFaults \in Nat
    /\ Env \subseteq {"live", "flap", "partial", "db"}

VARIABLES
    sent,      \* time of every message QQ holds, by number
    wire,      \* live messages on their way
    stored,    \* messages in message_events
    up,        \* ChannelStatus.Connected
    drops, faults,
    seen,      \* the coordinator's connected
    due,       \* nextBackfillAt is set
    requested, \* backfillRequested
    fetch      \* the backfill's goroutine

net == <<sent, wire, up, drops>>
coordinator == <<seen, due, requested>>
backfillVars == <<net, stored, faults, coordinator, fetch>>

NoFetch == [pc |-> "idle", watermark |-> 0, cursor |-> 0, first |-> 0, got |-> {},
         cut |-> FALSE]
Running == fetch.pc # "idle"
Numbers == 1 .. Len(sent)
Fault == faults < MaxFaults /\ faults' = faults + 1

-----------------------------------------------------------------------------
(* QQ and the link. *)

BackfillInit ==
    /\ sent = <<0>> /\ stored = {1} /\ wire = {}
    /\ up = TRUE /\ drops = 0 /\ faults = 0
    /\ seen = TRUE /\ due = FALSE /\ requested = FALSE
    /\ fetch = NoFetch

\* Two messages may carry the same second.
Say ==
    /\ Len(sent) < MaxSent
    /\ up => "live" \in Env
    /\ \E d \in {0, 1} : sent' = Append(sent, sent[Len(sent)] + d)
    /\ wire' = IF up THEN wire \cup {Len(sent) + 1} ELSE wire
    /\ UNCHANGED <<up, drops, stored, faults, coordinator, fetch>>

\* HandleEvent stores a live message.
Receive ==
    /\ wire # {}
    /\ wire' = wire \ {Min(wire)}
    /\ stored' = stored \cup {Min(wire)}
    /\ UNCHANGED <<sent, up, drops, faults, coordinator, fetch>>

\* What was on its way is lost.  Unless links flap, the coordinator's poll
\* sees every change.
Drop ==
    /\ up /\ drops < MaxDrops
    /\ "flap" \in Env \/ seen
    /\ up' = FALSE /\ drops' = drops + 1 /\ wire' = {}
    /\ UNCHANGED <<sent, stored, faults, coordinator, fetch>>

Connect ==
    /\ ~up
    /\ "flap" \in Env \/ ~seen
    /\ up' = TRUE
    /\ UNCHANGED <<sent, wire, drops, stored, faults, coordinator, fetch>>

-----------------------------------------------------------------------------
(* The coordinator. *)

\* Variant with a defect: a reconnect schedules no backfill.
PollForgets ==
    /\ seen # up
    /\ seen' = up
    /\ UNCHANGED <<net, stored, faults, due, requested, fetch>>

\* The poll notices that the link went down, or came up: a backfill is due
\* after historyInitialDelay, unless one is due already.
Poll ==
    /\ seen # up
    /\ seen' = up
    /\ due' = (due \/ up)
    /\ UNCHANGED <<net, stored, faults, requested, fetch>>

\* launchBackfill when nextBackfillAt has come, by a poll that finds the link
\* up as before.
Launch ==
    /\ up /\ seen /\ due
    /\ due' = FALSE
    /\ IF Running THEN requested' = TRUE /\ UNCHANGED fetch
       ELSE fetch' = [NoFetch EXCEPT !.pc = "list"] /\ UNCHANGED requested
    /\ UNCHANGED <<net, stored, faults, seen>>

\* The result comes in: an error sets the next attempt, success clears it,
\* and a backfill asked for meanwhile starts at once.
Result ==
    /\ fetch.pc \in {"ok", "error"}
    /\ due' = (fetch.pc = "error")
    /\ IF requested /\ up
       THEN requested' = FALSE /\ fetch' = [NoFetch EXCEPT !.pc = "list"]
       ELSE fetch' = NoFetch /\ UNCHANGED requested
    /\ UNCHANGED <<net, stored, faults, seen>>

-----------------------------------------------------------------------------
(* The backfill's goroutine. *)

\* ListHistorySessions: the watermark is the newest stored message's time.
List ==
    /\ fetch.pc = "list"
    /\ fetch' = [fetch EXCEPT !.pc = "page",
                   !.watermark = Max({sent[n] : n \in stored})]
    /\ UNCHANGED <<net, stored, faults, coordinator>>

\* QQ's page: the newest messages, or those up to the cursor.
Page(cursor) ==
    LET last == IF cursor = 0 THEN Len(sent) ELSE cursor IN
    {n \in Numbers : n <= last /\ n > last - PageSize}

\* Variant with a defect: paging stops after one page.
LastPageAlways(page) == TRUE


Wanted(n) == sent[n] >= fetch.watermark

LastPage(page) ==
    \/ \E n \in page : ~Wanted(n)
    \/ Cardinality(page) < PageSize
    \/ Min(page) = fetch.cursor

FetchPage ==
    /\ fetch.pc = "page" /\ up
    /\ LET page == Page(fetch.cursor) IN
       fetch' = [fetch EXCEPT !.pc = IF LastPage(page) THEN "store" ELSE "page",
                   !.cursor = Min(page),
                   !.first = IF fetch.cursor = 0 THEN Len(sent) ELSE @,
                   !.got = @ \cup {n \in page : Wanted(n)}]
    /\ UNCHANGED <<net, stored, faults, coordinator>>

\* A call fails: before the first message was got that is an error, later
\* the backfill makes do with what it has.
FetchFails ==
    /\ fetch.pc = "page"
    /\ IF fetch.got = {}
       THEN /\ (~up /\ UNCHANGED faults) \/ Fault
            /\ fetch' = [fetch EXCEPT !.pc = "error"]
       ELSE /\ "partial" \in Env \/ ~up
            /\ fetch' = [fetch EXCEPT !.pc = "store", !.cut = TRUE]
            /\ UNCHANGED faults
    /\ UNCHANGED <<net, stored, coordinator>>

\* EnqueueInboundEvent for each message got; a write that fails is an error
\* of the whole backfill, but the others are stored.
Store ==
    /\ fetch.pc = "store"
    /\ \/ /\ stored' = stored \cup fetch.got
          /\ fetch' = [fetch EXCEPT !.pc = "ok"]
          /\ UNCHANGED faults
       \/ /\ "db" \in Env /\ Fault
          /\ \E n \in fetch.got : stored' = stored \cup (fetch.got \ {n})
          /\ fetch' = [fetch EXCEPT !.pc = "error"]
    /\ UNCHANGED <<net, coordinator>>

Fetching == List \/ FetchPage \/ FetchFails \/ Store

BackfillNext ==
    \/ Say \/ Receive \/ Drop \/ Connect
    \/ Poll \/ Launch \/ Result \/ Fetching

BackfillSpec == BackfillInit /\ [][BackfillNext]_backfillVars

\* The link comes back, the poll and the calls take place, and delays pass.
BackfillFairness ==
    /\ WF_backfillVars(Receive) /\ WF_backfillVars(Connect) /\ WF_backfillVars(Poll)
    /\ WF_backfillVars(Launch) /\ WF_backfillVars(Result) /\ WF_backfillVars(Fetching)

FairBackfill == BackfillSpec /\ BackfillFairness

-----------------------------------------------------------------------------
(* Properties. *)

\* Type invariant; live messages are on their way only while the link is up,
\* and the first page brings at least the message of the watermark.
BackfillTypeOK ==
    /\ wire # {} => up
    /\ stored \subseteq Numbers /\ wire \subseteq Numbers
    /\ fetch.got \subseteq Numbers /\ fetch.cursor \in {0} \cup Numbers
    /\ fetch.cursor # 0 => fetch.got # {}
    /\ \A n \in Numbers \ {1} : sent[n] >= sent[n - 1]
    /\ fetch.pc \in {"idle", "list", "page", "store", "ok", "error"}

\* Paging back from the newest message to the watermark misses none that QQ
\* held when the first page was asked for, ties at the watermark's second
\* included, although the conversation grows and the pages overlap; unless a
\* call failed on the way.
PagesAreComplete ==
    fetch.pc = "store" /\ ~fetch.cut =>
       \A n \in 1 .. fetch.first : sent[n] >= fetch.watermark => n \in fetch.got

\* A backfill that reports success leaves no gap below the watermark it was
\* started with: what was missing then, and is not older, is stored.
SuccessMeansStored ==
    fetch.pc = "ok" /\ ~fetch.cut =>
       \A n \in 1 .. fetch.first : sent[n] >= fetch.watermark => n \in stored

\* No message is stored that was sent after one that is neither stored nor on
\* its way, so that the watermark still leads back to whatever is missing.
NoneOvertaken ==
    \A n \in stored, k \in Numbers \ (stored \cup wire) : n < k

\* README: after OneBot reconnects, Diana backfills the history.  Every
\* message of the conversation is stored in the end, also one that was sent
\* while the link was down.
EveryMessageStored ==
    \A n \in 1 .. MaxSent : n \in Numbers ~> n \in stored

\* A backfill succeeds while another is due, which Result then forgets.
Forgets == fetch.pc = "ok" /\ due

\* What holds of that: a gap is filled in the end, after calls and writes that
\* failed and further losses of the link, in every behaviour in which nothing
\* newer is stored before it and no backfill that is due is forgotten.
GapsAreFilled == [](NoneOvertaken /\ ~Forgets) => EveryMessageStored

\* What a backfill fetches has no hole, and when it reports success it has
\* stored all of that.
BackfillSafe == BackfillTypeOK /\ PagesAreComplete /\ SuccessMeansStored
=============================================================================
