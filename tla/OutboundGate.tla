---------------------------- MODULE OutboundGate ----------------------------
(***************************************************************************)
(* The outbound gate of one group (model/qqbot/group_send_guard.go).  Every *)
(* message to a group passes executeOutboundCall, which keeps the group's  *)
(* mutex while it waits for the next attempt and while QQ is called.  A    *)
(* send that fails is repeated with growing delays; when the group has     *)
(* failed for FailureWindow, what waits is dropped and nothing is tried    *)
(* for DropCooldown.  A group that QQ no longer lists is marked            *)
(* unavailable until a newer event of it arrives.                          *)
(*                                                                         *)
(* Time: the gate keeps how long ago the first failure was and what is     *)
(* left of a delay or a cooldown; none of them is negative, so -1 stands   *)
(* for the zero time.  The jitter of a delay is less than a tick.          *)
(***************************************************************************)
EXTENDS Integers, FiniteSets

CONSTANTS
    Sends,          \* calls of executeOutboundCall for the group
    Alternatives,   \* those with withAlternativeOutboundDelivery
    FailureWindow, DropCooldown, MaximumDelay,   \* in ticks
    Delay,          \* outboundBackoffDelay per number of failures
    MaxRuns,        \* bound: runs of the runtime
    MaxMoves,       \* bound: times the bot leaves the group
    Env             \* subset of {"deadline", "signal", "leave"}

ASSUME GateConstants ==
    /\ IsFiniteSet(Sends) /\ Alternatives \subseteq Sends
    /\ FailureWindow \in Nat \ {0} /\ DropCooldown \in Nat \ {0}
    /\ MaximumDelay \in Nat \ {0}
    /\ Delay \in [1 .. FailureWindow + 1 -> 1 .. MaximumDelay]
    /\ MaxRuns \in Nat \ {0} /\ MaxMoves \in Nat

VARIABLES
    gate,       \* groupOutboundDelivery
    pc,         \* where a send is; in the end what became of it
    under,      \* the run whose context a send has
    late,       \* sends whose own deadline has passed
    tried,      \* sends for which QQ was called
    blocked,    \* the group is in unavailableGroups
    member,     \* the bot is in the group
    moves,
    run, running,
    signalled   \* the process was told to end: the context of Start is done

life == <<run, running, signalled>>
group == <<member, moves>>
vars == <<gate, pc, under, late, tried, blocked, group, life>>

Fresh == [failures |-> 0, age |-> -1, wait |-> 0, drop |-> -1]
Gates == [failures : 0 .. FailureWindow + 2, age : -1 .. FailureWindow,
          wait : 0 .. MaximumDelay, drop : -1 .. DropCooldown]
Inside == {"loop", "wait", "call"}
Over == {"sent", "dropped", "unavailable", "failed", "cancelled"}

Elapse(n) == IF n > 0 THEN n - 1 ELSE n
AtMost(n, cap) == IF n > cap THEN cap ELSE n

\* failures are counted up to one more than there should ever be
OneMore(n) == AtMost(n + 1, FailureWindow + 2)
DelayAfter(n) == Delay[AtMost(n + 1, FailureWindow + 1)]
Ended(s) == s \in late \/ under[s] # run \/ ~running \/ signalled
Holders == {s \in Sends : pc[s] \in Inside}

\* runtimeContextStopped: Stop forgets the context before it cancels it, so
\* only the end of the process is seen.
RuntimeContextStopped == signalled

\* enterOutboundDropCooldown
Cooled(g) == [g EXCEPT !.wait = 0, !.drop = DropCooldown]

Goto(s, there) == pc' = [pc EXCEPT ![s] = there]

-----------------------------------------------------------------------------
Init ==
    /\ gate = Fresh
    /\ pc = [s \in Sends |-> "new"] /\ under = [s \in Sends |-> 0]
    /\ late = {} /\ tried = {}
    /\ blocked = FALSE /\ member = TRUE /\ moves = 0
    /\ run = 1 /\ running = TRUE /\ signalled = FALSE

\* blockedGroupSendError, before the lock is asked for
Enter(s) ==
    /\ pc[s] = "new" /\ running
    /\ Goto(s, IF blocked THEN "unavailable" ELSE "queued")
    /\ under' = [under EXCEPT ![s] = run]
    /\ UNCHANGED <<gate, late, tried, blocked, group, life>>

Lock(s) ==
    /\ pc[s] = "queued" /\ Holders = {}
    /\ Goto(s, "loop")
    /\ UNCHANGED <<gate, under, late, tried, blocked, group, life>>

\* The send's context has ended: what failed before is dropped, unless the
\* runtime is known to stop.
GiveUp(s) ==
    IF RuntimeContextStopped THEN Goto(s, "cancelled") /\ UNCHANGED gate
    ELSE Goto(s, "dropped") /\ gate' = Cooled(gate)

Attempt(s) == Goto(s, "call") /\ tried' = tried \cup {s}

\* The head of the loop: a cooldown that has passed clears the gate, a window
\* that has passed starts one.
Check(s) ==
    LET g == IF gate.drop = 0 THEN Fresh ELSE gate IN
    /\ pc[s] = "loop"
    /\ IF Ended(s)
       THEN /\ IF gate.failures = 0
               THEN Goto(s, "cancelled") /\ UNCHANGED gate
               ELSE GiveUp(s)
            /\ UNCHANGED tried
       ELSE IF g.drop > 0 \/ g.age >= FailureWindow
       THEN /\ Goto(s, "dropped")
            /\ gate' = IF g.drop > 0 THEN gate ELSE Cooled(g)
            /\ UNCHANGED tried
       ELSE /\ gate' = g
            /\ IF g.wait > 0 THEN Goto(s, "wait") /\ UNCHANGED tried
               ELSE Attempt(s)
    /\ UNCHANGED <<under, late, blocked, group, life>>

\* waitForOutboundRetry, still under the lock
Wait(s) ==
    /\ pc[s] = "wait"
    /\ \/ gate.wait = 0 /\ Attempt(s) /\ UNCHANGED gate
       \/ Ended(s) /\ GiveUp(s) /\ UNCHANGED tried
    /\ UNCHANGED <<under, late, blocked, group, life>>

CallSucceeds(s) ==
    /\ pc[s] = "call" /\ member
    /\ Goto(s, "sent")
    /\ gate' = Fresh
    /\ UNCHANGED <<under, late, tried, blocked, group, life>>

\* Variant with a defect: each failure begins the window anew.
FailedAfresh(g) ==
    [g EXCEPT !.failures = OneMore(@), !.age = 0, !.wait = DelayAfter(g.failures)]

\* Variant with a defect: the next attempt follows at once.
FailedAtOnce(g) ==
    [g EXCEPT !.failures = OneMore(@), !.age = IF @ = -1 THEN 0 ELSE @]

\* One more failure and the delay it brings.
Failed(g) ==
    [g EXCEPT !.failures = OneMore(@), !.age = IF @ = -1 THEN 0 ELSE @,
              !.wait = DelayAfter(g.failures)]

\* QQ refuses, the link is down or the context ends, and the group list says
\* whether the group is still there, if it can be had.
CallFails(s) ==
    /\ pc[s] = "call"
    /\ \/ /\ ~member
          /\ blocked' = TRUE
          /\ Goto(s, "unavailable") /\ UNCHANGED gate
       \/ /\ UNCHANGED blocked
          /\ IF Failed(gate).age >= FailureWindow
             THEN Goto(s, "dropped") /\ gate' = Cooled(Failed(gate))
             ELSE /\ Goto(s, IF s \in Alternatives THEN "failed" ELSE "loop")
                  /\ gate' = Failed(gate)
    /\ UNCHANGED <<under, late, tried, group, life>>

SendStep(s) ==
    Lock(s) \/ Check(s) \/ Wait(s) \/ CallSucceeds(s) \/ CallFails(s)

-----------------------------------------------------------------------------
(* What happens around the gate. *)

Expire(s) ==
    /\ "deadline" \in Env /\ pc[s] \in Inside \cup {"queued"} /\ s \notin late
    /\ late' = late \cup {s}
    /\ UNCHANGED <<gate, pc, under, tried, blocked, group, life>>

Leave ==
    /\ "leave" \in Env /\ member /\ moves < MaxMoves
    /\ member' = FALSE /\ moves' = moves + 1
    /\ UNCHANGED <<gate, pc, under, late, tried, blocked, life>>

Rejoin ==
    /\ ~member
    /\ member' = TRUE
    /\ UNCHANGED <<gate, pc, under, late, tried, blocked, moves, life>>

\* ignoreUnavailableGroupEvent for an event newer than the block
NewerEvent ==
    /\ blocked /\ member
    /\ blocked' = FALSE
    /\ UNCHANGED <<gate, pc, under, late, tried, group, life>>

Stop ==
    /\ running /\ ~signalled /\ run < MaxRuns
    /\ running' = FALSE
    /\ UNCHANGED <<gate, pc, under, late, tried, blocked, group, run, signalled>>

Start ==
    /\ ~running
    /\ running' = TRUE /\ run' = run + 1
    /\ UNCHANGED <<gate, pc, under, late, tried, blocked, group, signalled>>

Signal ==
    /\ "signal" \in Env /\ running /\ ~signalled
    /\ signalled' = TRUE
    /\ UNCHANGED <<gate, pc, under, late, tried, blocked, group, run, running>>

Tick ==
    /\ gate' = [gate EXCEPT
                  !.age = IF @ \in {-1, FailureWindow} THEN @ ELSE @ + 1,
                  !.wait = Elapse(@), !.drop = Elapse(@)]
    /\ UNCHANGED <<pc, under, late, tried, blocked, group, life>>

Next ==
    \/ \E s \in Sends : Enter(s) \/ SendStep(s) \/ Expire(s)
    \/ Leave \/ Rejoin \/ NewerEvent \/ Stop \/ Start \/ Signal \/ Tick

Spec == Init /\ [][Next]_vars

\* Calls have timeouts, delays pass, and the mutex is handed on.
Fairness == WF_vars(Tick) /\ \A s \in Sends : WF_vars(SendStep(s))

FairSpec == Spec /\ Fairness

-----------------------------------------------------------------------------
(* Properties. *)

\* Type invariant: the gate, the sends, the runtime's counters and flags.
ShapesOK ==
    /\ gate \in Gates
    /\ pc \in [Sends -> {"new", "queued"} \cup Inside \cup Over]
    /\ under \in [Sends -> 0 .. MaxRuns] /\ run \in 1 .. MaxRuns
    /\ ~running => run < MaxRuns
    /\ late \subseteq Sends /\ tried \subseteq Sends
    /\ moves \in 0 .. MaxMoves

FlagsOK == {blocked, member, running, signalled} \subseteq BOOLEAN

TypeOK == ShapesOK /\ FlagsOK

\* The fields of the gate agree: a window is open exactly while there are
\* failures, and only a gate with failures waits or cools down, one or the
\* other.  A trace of an old failure that survives a success, or a delay that
\* survives a cooldown, would drop or hold up a later message.
GateCoherent ==
    /\ gate.failures = 0 <=> gate.age = -1
    /\ gate.wait > 0 \/ gate.drop >= 0 => gate.failures > 0
    /\ gate.wait > 0 => gate.drop = -1

\* The delays bound what a group that fails costs: whatever the number of
\* sends that queue up, QQ is tried at most once per delay in the window.
AttemptsBounded == gate.failures <= FailureWindow + 1

\* At most one send is between the lock and its return, so a send that waits
\* minutes for its next attempt finds the gate as it left it: QQ is never
\* called while the group cools down, nor twice at a time.
OneAtATime == \A s, t \in Holders : s = t

CooldownIsSilent ==
    [][\A s \in Sends : pc[s] # "call" /\ pc'[s] = "call" => gate'.drop = -1]_vars

\* What makes these inductive: who calls or waits has found no cooldown, a
\* call finds no delay left, only a failure makes wait, and the failures so
\* far fit into the time since the first one.
Budgeted ==
    /\ \A s \in Sends : pc[s] \in {"wait", "call"} => gate.drop = -1
    /\ \A s \in Sends : pc[s] = "call" => gate.wait = 0
    /\ \A s \in Sends : pc[s] = "wait" => gate.failures > 0
    /\ gate.failures > 0 /\ gate.drop = -1
         => /\ gate.failures <= gate.age + gate.wait
            /\ gate.failures <= FailureWindow

GateInductive == GateCoherent /\ AttemptsBounded /\ OneAtATime /\ Budgeted

\* Every send comes to an end, also when QQ refuses for ever and when many
\* queue up behind one that waits.
EverySendEnds == \A s \in Sends : pc[s] = "queued" ~> pc[s] \in Over

\* README: normal restarts do not lose messages.  A send interrupted by Stop
\* is reported as cancelled, which the inbox tries again, not as dropped.
StopDropsNothing ==
    [][\A s \in Sends : pc[s] \in Inside /\ pc'[s] = "dropped" =>
         s \in late \/ ~Ended(s)]_vars

\* The log entry of a drop: "group messages failed to be sent continuously".
\* A cooldown starts only with a send that was tried and failed.
UntriedIsNotDropped ==
    [][\A s \in Sends :
         pc[s] \in Inside /\ pc'[s] = "dropped" /\ gate.drop = -1
         /\ ~Ended(s) => s \in tried]_vars

\* The log entry of an unavailable group: "no further message is sent to this
\* group".  QQ is not called for a group that is marked.
SilentWhenUnavailable ==
    [][\A s \in Sends : pc[s] # "call" /\ pc'[s] = "call" => ~blocked]_vars

\* The gate lets no more attempts at an unavailable group through than its
\* delays allow, in whichever order sends fail and succeed.
GateSafe == TypeOK /\ AttemptsBounded
=============================================================================
