---------------------------- MODULE ReplyControl ----------------------------
(***************************************************************************)
(* The temporary restriction of one QQ user (reply_suppression.go), who is *)
(* neither the owner nor the bot, seen from the messages the user sends:   *)
(* prepareMessageEvent (runtime.go) reads the restriction and counts       *)
(* messages that look like an AI's; replyTo generates an answer, which may *)
(* carry a request to restrict the user or to count a refusal; the answer  *)
(* is sent, and the request carried out, while the user's outbound gate is *)
(* held.                                                                   *)
(*                                                                         *)
(* Each session (group or private chat) handles one message at a time, and *)
(* sessions work side by side.  What an LLM says is a choice.  Whether a   *)
(* restriction is in force is a comparison with the clock, so expired ones *)
(* need not be deleted.                                                    *)
(***************************************************************************)
EXTENDS Integers, FiniteSets

CONSTANTS
    Sessions,
    Duration,       \* replySuppressionDuration
    Window,         \* replyRefusalWindow and botReplyLoopWindow
    Refusals,       \* replyRefusalThreshold
    Loops,          \* botReplyLoopThreshold
    MaxMessages,    \* bound: messages that arrive
    MaxTime,        \* bound: ticks
    MaxRetries,     \* bound: messages handled again
    MaxFaults,      \* bound: writes of the restrictions that fail
    MaxRestarts,    \* bound: restarts
    MaxReleases     \* bound: restrictions the owner lifts

ASSUME ControlConstants ==
    /\ {Duration, Refusals, Loops, MaxTime} \subseteq Nat \ {0}
    /\ {Window, MaxMessages, MaxRetries, MaxFaults, MaxRestarts,
        MaxReleases} \subseteq Nat
    /\ "no session" \notin Sessions

VARIABLES
    until,     \* replySuppressByUser: the end of the restriction, 0 if none
    stored,    \* the same in the store
    loopHits,  \* botReplyLoopByKey: hits of each session
    refusals,  \* replyRefusalByUser: hits
    gate,      \* replyOutboundGates: the session that holds it
    work,      \* the message each session handles
    now,
    arrived, retries, faults, restarts, releases,
    releasing, \* clearReplySuppression is between its two locks
    told       \* the end of the restriction the user was told of

counts == <<arrived, retries, restarts, releases>>
vars == <<until, stored, loopHits, refusals, gate, work, now, counts, faults,
          releasing, told>>

NoOne == "no session"
Idle == [pc |-> "idle", msg |-> 0, at |-> 0, from |-> 0, intent |-> "none"]

Restricted == now < until
At(s, pc) == work[s].pc = pc
Goto(s, pc) == work' = [work EXCEPT ![s].pc = pc]
Done(s) == work' = [work EXCEPT ![s] = Idle]
Leave == gate' = NoOne

\* persistReplySuppressionsLocked; an error is only logged.
Persist(end) ==
    \/ stored' = end /\ UNCHANGED faults
    \/ faults < MaxFaults /\ faults' = faults + 1 /\ UNCHANGED stored

NoHits == loopHits' = [x \in Sessions |-> {}] /\ refusals' = {}

\* The hits of the window that ends at this time; later ones are dropped too.
Recent(hits, time) == {h \in hits : time - h.at \in 0 .. Window}

-----------------------------------------------------------------------------
(* The gate, the restriction, and what ends it. *)

Init ==
    /\ until = 0 /\ stored = 0
    /\ loopHits = [s \in Sessions |-> {}] /\ refusals = {}
    /\ gate = NoOne /\ work = [s \in Sessions |-> Idle]
    /\ now = 1 /\ arrived = 0 /\ retries = 0 /\ faults = 0
    /\ restarts = 0 /\ releases = 0 /\ releasing = FALSE /\ told = 0

\* Variant with a defect: a restriction for a loop does not wait for the gate.
TakeGateToSend(s) ==
    /\ \/ At(s, "loop") /\ Goto(s, "restrict") /\ UNCHANGED gate
       \/ At(s, "reply") /\ gate = NoOne /\ gate' = s /\ Goto(s, "check")
    /\ UNCHANGED <<until, stored, loopHits, refusals, now, counts, faults,
                   releasing, told>>

\* withReplySuppressionOutboundGate
TakeGate(s) ==
    /\ gate = NoOne /\ gate' = s
    /\ \/ At(s, "loop") /\ Goto(s, "restrict")
       \/ At(s, "reply") /\ Goto(s, "check")
    /\ UNCHANGED <<until, stored, loopHits, refusals, now, counts, faults,
                   releasing, told>>

\* activateReplySuppressionWithinOutboundGate up to the reset of the hits:
\* a restriction that is in force is left as it is.
Restrict(s) ==
    /\ At(s, "restrict")
    /\ IF until > work[s].from
       THEN Done(s) /\ Leave /\ UNCHANGED <<until, stored, faults>>
       ELSE /\ until' = work[s].from + Duration
            /\ Persist(work[s].from + Duration)
            /\ Goto(s, "reset") /\ UNCHANGED gate
    /\ UNCHANGED <<loopHits, refusals, now, counts, releasing, told>>

\* resetBotReplyLoopUser, resetReplyRefusalUser, and the gate is let go.
Reset(s) ==
    /\ At(s, "reset") /\ NoHits /\ Leave
    /\ IF work[s].intent = "loop" THEN Goto(s, "notice") ELSE Done(s)
    /\ UNCHANGED <<until, stored, now, counts, faults, releasing, told>>

\* clearReplySuppression, for the owner: the restriction goes, without the
\* gate, ...
Release ==
    /\ releases < MaxReleases /\ releases' = releases + 1 /\ ~releasing
    /\ until' = 0 /\ Persist(0) /\ releasing' = TRUE /\ told' = 0
    /\ UNCHANGED <<loopHits, refusals, gate, work, now, arrived, retries,
                   restarts>>

\* ... and then the hits.
Released ==
    /\ releasing /\ releasing' = FALSE /\ NoHits
    /\ UNCHANGED <<until, stored, gate, work, now, counts, faults, told>>

Tick ==
    /\ now < MaxTime /\ now' = now + 1
    /\ UNCHANGED <<until, stored, loopHits, refusals, gate, work, counts,
                   faults, releasing, told>>

\* The process ends and starts again: SetReplySuppressionStore loads what is
\* in force, and the inbox hands out again what was under way.
Restart ==
    /\ restarts < MaxRestarts /\ restarts' = restarts + 1
    /\ until' = IF stored > now THEN stored ELSE 0
    /\ told' = IF told = until' THEN told ELSE 0
    /\ loopHits' = [s \in Sessions |-> {}] /\ refusals' = {} /\ Leave
    /\ releasing' = FALSE
    /\ work' = [s \in Sessions |->
                  IF work[s].msg = 0 THEN Idle
                  ELSE [Idle EXCEPT !.pc = "retry", !.msg = work[s].msg,
                                    !.at = work[s].at]]
    /\ UNCHANGED <<stored, now, arrived, retries, releases, faults>>

-----------------------------------------------------------------------------
(* Routing a message. *)

\* prepareMessageEvent up to the classifier: a restricted user is ignored;
\* a message that addresses the bot is classified; others are routed.
Look(s, msg, at) ==
    \/ Restricted /\ Done(s)
    \/ ~Restricted /\ \E pc \in {"classify", "route"} :
          work' = [work EXCEPT ![s] = [pc |-> pc, msg |-> msg, at |-> at,
                                       from |-> now, intent |-> "none"]]

Receive(s) ==
    /\ At(s, "idle") /\ arrived < MaxMessages /\ arrived' = arrived + 1
    /\ Look(s, arrived + 1, now)
    /\ UNCHANGED <<until, stored, loopHits, refusals, gate, now, retries,
                   faults, restarts, releases, releasing, told>>

\* The message is handed out again; its time is still that of its arrival.
Retry(s) ==
    /\ At(s, "retry") /\ Look(s, work[s].msg, work[s].at)
    /\ UNCHANGED <<until, stored, loopHits, refusals, gate, now, counts,
                   faults, releasing, told>>

\* classifyBotReplyLoopMessage and registerBotReplyLoopDecision: the answer
\* is an error, "no", or counts as a hit, once per message.  Unless that is
\* one hit too many the restriction is read again.
Classify(s) ==
    LET m == [msg |-> work[s].msg, at |-> work[s].at]
        recent == Recent(loopHits[s], m.at)
        counted == recent \cup {m}
        Routed == IF Restricted THEN Done(s) ELSE Goto(s, "route")
    IN
    /\ At(s, "classify")
    /\ \/ Routed /\ UNCHANGED loopHits
       \/ Routed /\ loopHits' = [loopHits EXCEPT ![s] = recent]
       \/ /\ m \in recent \/ Cardinality(counted) < Loops
          /\ Routed /\ loopHits' = [loopHits EXCEPT ![s] = counted]
       \/ /\ m \notin recent /\ Cardinality(counted) >= Loops
          /\ loopHits' = [loopHits EXCEPT ![s] = {}]
          /\ work' = [work EXCEPT ![s].pc = "loop", ![s].intent = "loop"]
    /\ UNCHANGED <<until, stored, refusals, gate, now, counts, faults,
                   releasing, told>>

\* sendReplySuppressionActivationNotice: whether or not it can be sent, the
\* message has been dealt with.
NoticeLoop(s) ==
    /\ At(s, "notice") /\ Done(s)
    /\ UNCHANGED <<until, stored, loopHits, refusals, gate, now, counts,
                   faults, releasing, told>>

\* shouldHandle and replyTo up to the gate: nothing to answer, or an answer
\* (an error message, too) with or without a request to restrict.
Generate(s) ==
    /\ At(s, "route")
    /\ \/ Done(s)
       \/ \E i \in {"none", "refuse", "suppress"} :
             work' = [work EXCEPT ![s].pc = "reply", ![s].intent = i]
    /\ UNCHANGED <<until, stored, loopHits, refusals, gate, now, counts,
                   faults, releasing, told>>

-----------------------------------------------------------------------------
(* Sending an answer, with the gate held. *)

\* sendOutgoingWithResult: the guard, before each part of the answer.
Check(s) ==
    /\ At(s, "check")
    /\ IF Restricted THEN Done(s) /\ Leave ELSE Goto(s, "send") /\ UNCHANGED gate
    /\ UNCHANGED <<until, stored, loopHits, refusals, now, counts, faults,
                   releasing, told>>

\* A part is sent and there is another one; a generated answer keeps the
\* gate, any other one takes it again.
SendPart(s) ==
    /\ At(s, "send")
    /\ \/ Goto(s, "check") /\ UNCHANGED gate
       \/ work[s].intent = "none" /\ Goto(s, "reply") /\ Leave
    /\ UNCHANGED <<until, stored, loopHits, refusals, now, counts, faults,
                   releasing, told>>

\* The last part is sent and the request is next.  Or a part cannot be sent:
\* the message is given up, or tried again.
Send(s) ==
    /\ At(s, "send")
    /\ \/ work[s].intent = "none" /\ Done(s) /\ Leave /\ UNCHANGED retries
       \/ /\ work[s].intent # "none" /\ UNCHANGED <<gate, retries>>
          /\ work' = [work EXCEPT ![s].pc = "control", ![s].from = now]
       \/ Done(s) /\ Leave /\ UNCHANGED retries
       \/ /\ retries < MaxRetries /\ retries' = retries + 1
          /\ Goto(s, "retry") /\ Leave
    /\ UNCHANGED <<until, stored, loopHits, refusals, now, arrived, faults,
                   restarts, releases, releasing, told>>

\* applyReplyControlAfterSend and registerReplyRefusal: a refusal counts
\* once per message, and one too many restricts the user after a notice.
Control(s) ==
    LET m == [msg |-> work[s].msg, at |-> work[s].from]
        recent == Recent(refusals, m.at)
        known == \E h \in recent : h.msg = m.msg
        counted == IF known THEN recent ELSE recent \cup {m}
    IN
    /\ At(s, "control")
    /\ \/ work[s].intent = "suppress" /\ Goto(s, "restrict")
          /\ UNCHANGED <<refusals, gate>>
       \/ /\ work[s].intent = "refuse" /\ work[s].from < until
          /\ Done(s) /\ Leave /\ UNCHANGED refusals
       \/ /\ work[s].intent = "refuse" /\ ~(work[s].from < until)
          /\ refusals' = counted
          /\ IF ~known /\ Cardinality(counted) >= Refusals
             THEN Goto(s, "warn") /\ UNCHANGED gate
             ELSE Done(s) /\ Leave
    /\ UNCHANGED <<until, stored, loopHits, now, counts, faults, releasing,
                   told>>

\* Variant with a defect: the gate is let go before the notice.
WarnWithoutGate(s) ==
    /\ At(s, "warn") /\ Leave
    /\ told' = work[s].from + Duration /\ Goto(s, "loop")
    /\ UNCHANGED <<until, stored, loopHits, refusals, now, counts, faults,
                   releasing>>

\* sendReplyRefusalCooldownNotice: without it the user is not restricted.
Warn(s) ==
    /\ At(s, "warn")
    /\ \/ told' = work[s].from + Duration /\ Goto(s, "restrict")
          /\ UNCHANGED gate
       \/ Done(s) /\ Leave /\ UNCHANGED told
    /\ UNCHANGED <<until, stored, loopHits, refusals, now, counts, faults,
                   releasing>>

Step(s) ==
    \/ Receive(s) \/ Retry(s) \/ Classify(s) \/ NoticeLoop(s) \/ Generate(s)
    \/ TakeGate(s) \/ Check(s) \/ SendPart(s) \/ Send(s) \/ Control(s)
    \/ Warn(s) \/ Restrict(s) \/ Reset(s)

Next == (\E s \in Sessions : Step(s)) \/ Release \/ Released \/ Tick \/ Restart

Spec == Init /\ [][Next]_vars

-----------------------------------------------------------------------------
(* Properties. *)

Hits == [msg : 1 .. MaxMessages, at : 1 .. MaxTime]
BehindGate == {"check", "send", "control", "warn", "restrict", "reset"}
Works ==
    [pc : {"idle", "retry", "classify", "route", "loop", "reply", "notice"}
             \cup BehindGate,
     msg : 0 .. MaxMessages, at : 0 .. MaxTime, from : 0 .. MaxTime,
     intent : {"none", "refuse", "suppress", "loop"}]

\* Type invariant: the restriction, the hits, the gate and the sessions.
TypeOK ==
    /\ {until, stored, told} \subseteq 0 .. MaxTime + Duration
    /\ now \in 1 .. MaxTime
    /\ loopHits \in [Sessions -> SUBSET Hits] /\ refusals \subseteq Hits
    /\ gate \in Sessions \cup {NoOne}
    /\ work \in [Sessions -> Works]
    /\ {arrived, retries, faults, restarts, releases} \subseteq Nat

\* Nothing is sent to a user who is restricted: no restriction begins
\* between the guard's reading and the sending of a part, whichever session
\* it begins in.
NothingSentToRestricted ==
    \A s \in Sessions : At(s, "send") => ~Restricted

\* The restriction survives a restart, and one that was lifted does not come
\* back, unless a write failed.
StoredAgrees ==
    faults = 0 => IF Restricted THEN stored = until ELSE stored <= now

\* A user who was told of a pause after too many refusals is restricted until the
\* end that was told, or is about to be; only the owner ends it earlier.
ToldTruth ==
    now < told =>
        \/ until = told
        \/ \E s \in Sessions : /\ At(s, "restrict") /\ gate = s
                              /\ work[s].from + Duration = told

\* The gate is held by a session that is at work behind it: every way out
\* lets it go, and nobody who holds it waits for it.
GateHasHolder ==
    \A s \in Sessions :
        gate = s <=> work[s].pc \in BehindGate
=============================================================================
