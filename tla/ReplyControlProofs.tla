------------------------- MODULE ReplyControlProofs -------------------------
(***************************************************************************)
(* Proofs about ReplyControl, for any number of sessions, any thresholds   *)
(* and any number of messages, failed writes, restarts and releases: who   *)
(* holds the gate, that nothing is sent to a restricted user, and what the *)
(* store and the user know of a restriction.  And about BotConsole, for    *)
(* any plugins, profiles and overlapping changes: what the runtime and     *)
(* the table have of the owner's settings once changes are through.        *)
(***************************************************************************)
EXTENDS ReplyControl, BotConsole, TLAPS

\* The steps of a session outside the gate, and those that take it or happen
\* behind it.
Free(s) ==
    Receive(s) \/ Retry(s) \/ Classify(s) \/ NoticeLoop(s) \/ Generate(s)
Gated(s) ==
    TakeGate(s) \/ Check(s) \/ SendPart(s) \/ Send(s) \/ Control(s)
    \/ Warn(s) \/ Restrict(s) \/ Reset(s)

\* A session that has a message has one that arrived, and read the clock.
Timely ==
    \A s \in Sessions :
        /\ work[s].from <= now
        /\ IF At(s, "idle") THEN work[s].msg = 0
           ELSE work[s].msg >= 1 /\ work[s].at >= 1
        /\ ~At(s, "idle") /\ ~At(s, "retry") => work[s].from >= 1

\* Who warns of a restriction will find none in force, and who restricts for
\* a loop does not warn.
Warning(s) == At(s, "warn") \/ (At(s, "restrict") /\ work[s].intent = "refuse")
WarnedIsFree ==
    \A s \in Sessions :
        /\ At(s, "loop") => work[s].intent = "loop"
        /\ At(s, "warn") => work[s].intent = "refuse"
        /\ Warning(s) => until <= work[s].from

\* What the user was told is in force, or the one who told is about to make
\* it so.
ToldBy ==
    now < told =>
        \/ until = told
        \/ \E s \in Sessions : /\ At(s, "restrict") /\ gate = s
                              /\ work[s].intent = "refuse"
                              /\ work[s].from + Duration = told

Shapes == TypeOK /\ Timely

-----------------------------------------------------------------------------
(* Types. *)

\* The constants as numbers.
LEMMA Numbers ==
    /\ Duration \in Nat /\ Duration >= 1 /\ MaxTime \in Nat /\ MaxTime >= 1
    /\ Window \in Nat /\ MaxMessages \in Nat
    /\ NoOne \notin Sessions
<1>1. {Duration, MaxTime} \subseteq Nat \ {0}  BY ControlConstants
<1>2. {Window, MaxMessages} \subseteq Nat  BY ControlConstants
<1>3. NoOne \notin Sessions  BY ControlConstants DEF NoOne
<1> QED  BY <1>1, <1>2, <1>3

\* Two pieces of work that a step may leave behind.
LEMMA Rested ==
    Idle \in Works /\ Idle.pc = "idle" /\ Idle.from = 0 /\ Idle.msg = 0
BY Numbers DEF Idle, Works, BehindGate

\* Recent hits are hits.
LEMMA RecentHits ==
    ASSUME NEW hits \in SUBSET Hits, NEW time
    PROVE  Recent(hits, time) \in SUBSET Hits
BY DEF Recent

\* The shapes hold at the start.
LEMMA ShapesInit == Init => Shapes
BY Numbers, Rested DEF Init, Shapes, TypeOK, Timely, At, Idle, Works, BehindGate

\* The steps outside the gate keep them.
LEMMA ShapesFree ==
    ASSUME Shapes, NEW s \in Sessions, Free(s)
    PROVE  Shapes'
<1> USE Numbers, Rested DEF Shapes, TypeOK, Timely, At, counts
<1>1. CASE Receive(s)
  BY <1>1 DEF Receive, Look, Done, Works, BehindGate
<1>2. CASE Retry(s)
  BY <1>2 DEF Retry, Look, Done, Works, BehindGate
<1>3. CASE NoticeLoop(s)
  BY <1>3 DEF NoticeLoop, Done, Works, BehindGate
<1>4. CASE Generate(s)
  BY <1>4 DEF Generate, Done, Works, BehindGate
<1>5. CASE Classify(s)
  <2> DEFINE m == [msg |-> work[s].msg, at |-> work[s].at]
             recent == Recent(loopHits[s], m.at)
  <2>1. work[s] \in Works /\ m \in Hits
    BY <1>5 DEF Classify, Works, Hits
  <2>2. recent \in SUBSET Hits /\ recent \cup {m} \in SUBSET Hits
    BY <2>1, RecentHits
  <2>3. loopHits' \in [Sessions -> SUBSET Hits]
    BY <1>5, <2>2 DEF Classify
  <2>4. \E w \in Works : /\ work' = [work EXCEPT ![s] = w]
                         /\ w = Idle \/ (/\ w.msg = work[s].msg
                              /\ w.at = work[s].at /\ w.from = work[s].from
                              /\ w.pc \notin {"idle", "retry"})
    <3>1. CASE work' = [work EXCEPT ![s] = Idle]  BY <3>1
    <3>2. CASE work' = [work EXCEPT ![s].pc = "route"]
      <4>1. [work[s] EXCEPT !.pc = "route"] \in Works
        BY <2>1 DEF Works, BehindGate
      <4> QED  BY <2>1, <3>2, <4>1 DEF Works
    <3>3. CASE work' = [work EXCEPT ![s].pc = "loop", ![s].intent = "loop"]
      <4>1. [work[s] EXCEPT !.pc = "loop", !.intent = "loop"] \in Works
        BY <2>1 DEF Works, BehindGate
      <4> QED  BY <2>1, <3>3, <4>1 DEF Works
    <3> QED  BY <1>5, <3>1, <3>2, <3>3 DEF Classify, Done, Goto
  <2>5. Timely' /\ work' \in [Sessions -> Works]
    BY <1>5, <2>4 DEF Classify, Works, Idle
  <2> QED  BY <1>5, <2>3, <2>5 DEF Classify
<1> QED  BY <1>1, <1>2, <1>3, <1>4, <1>5 DEF Free

\* So do those behind it.
LEMMA ShapesGated ==
    ASSUME Shapes, NEW s \in Sessions, Gated(s)
    PROVE  Shapes'
<1> USE Numbers, Rested DEF Shapes, TypeOK, Timely, At, counts
<1>1. CASE TakeGate(s)
  BY <1>1 DEF TakeGate, Goto, Works, BehindGate
<1>2. CASE Check(s)
  BY <1>2 DEF Check, Goto, Done, Leave, Works, BehindGate
<1>3. CASE SendPart(s)
  BY <1>3 DEF SendPart, Goto, Leave, Works, BehindGate
<1>4. CASE Send(s)
  BY <1>4 DEF Send, Goto, Done, Leave, Works, BehindGate
<1>5. CASE Control(s)
  <2> DEFINE m == [msg |-> work[s].msg, at |-> work[s].from]
             recent == Recent(refusals, m.at)
  <2>1. work[s] \in Works /\ m \in Hits
    BY <1>5 DEF Control, Works, Hits
  <2>2. recent \in SUBSET Hits /\ recent \cup {m} \in SUBSET Hits
    BY <2>1, RecentHits
  <2>3. refusals' \subseteq Hits
    BY <1>5, <2>2 DEF Control
  <2>4. Timely' /\ work' \in [Sessions -> Works]
    BY <1>5, <2>1 DEF Control, Goto, Done, Works, BehindGate, Idle
  <2> QED  BY <1>5, <2>3, <2>4 DEF Control, Leave
<1>6. CASE Warn(s)
  <2>1. work[s].from \in 0 .. MaxTime  BY DEF Works
  <2>2. told' \in 0 .. MaxTime + Duration  BY <1>6, <2>1 DEF Warn
  <2>3. Timely' /\ work' \in [Sessions -> Works]
    BY <1>6, <2>1 DEF Warn, Goto, Done, Works, BehindGate, Idle
  <2> QED  BY <1>6, <2>2, <2>3 DEF Warn, Leave
<1>7. CASE Restrict(s)
  BY <1>7 DEF Restrict, Persist, Goto, Done, Leave, Works, BehindGate
<1>8. CASE Reset(s)
  BY <1>8 DEF Reset, NoHits, Goto, Done, Leave, Works, BehindGate
<1> QED
  BY <1>1, <1>2, <1>3, <1>4, <1>5, <1>6, <1>7, <1>8 DEF Gated

\* And so does what ends a restriction.
LEMMA ShapesAround ==
    ASSUME Shapes, Release \/ Released \/ Tick \/ Restart
    PROVE  Shapes'
<1> USE Numbers, Rested DEF Shapes, TypeOK, Timely, At, counts
<1>1. CASE Release  BY <1>1 DEF Release, Persist
<1>2. CASE Released  BY <1>2 DEF Released, NoHits
<1>3. CASE Tick  BY <1>3 DEF Tick, Works
<1>4. CASE Restart
  <2>1. until' \in {stored, 0} /\ told' \in {told, 0}
    BY <1>4 DEF Restart
  <2>2. {stored, told, 0} \subseteq 0 .. MaxTime + Duration
    OBVIOUS
  <2>3. \A u \in Sessions :
           LET next == [Idle EXCEPT !.pc = "retry", !.msg = work[u].msg,
                                    !.at = work[u].at]
           IN  work[u].msg # 0 =>
                  next \in Works /\ next.msg >= 1 /\ next.at >= 1
                  /\ next.pc = "retry" /\ next.from = 0
    BY DEF Idle, Works
  <2>4. \A u \in Sessions :
           work'[u] = IF work[u].msg = 0 THEN Idle
                      ELSE [Idle EXCEPT !.pc = "retry", !.msg = work[u].msg,
                                        !.at = work[u].at]
    BY <1>4 DEF Restart
  <2>5. work' \in [Sessions -> Works]
    <3>1. DOMAIN work' = Sessions /\ work' = [u \in Sessions |-> work'[u]]
      BY <1>4 DEF Restart
    <3>2. \A u \in Sessions : work'[u] \in Works
      BY <2>3, <2>4
    <3> QED  BY <3>1, <3>2
  <2>6. Timely'
    <3>a. now' = now  BY <1>4 DEF Restart
    <3>b. now \in Nat  OBVIOUS
    <3>0. now' = now /\ now \in Nat  BY <3>a, <3>b
    <3> SUFFICES ASSUME NEW u \in Sessions
                 PROVE  /\ work'[u].from = 0
                        /\ IF work'[u].pc = "idle" THEN work'[u].msg = 0
                           ELSE /\ work'[u].pc = "retry"
                                /\ work'[u].msg >= 1 /\ work'[u].at >= 1
      BY <3>0
    <3>1. CASE work[u].msg = 0  BY <2>4, <3>1
    <3>2. CASE work[u].msg # 0  BY <2>3, <2>4, <3>2
    <3> QED  BY <3>1, <3>2
  <2>7. /\ until' \in 0 .. MaxTime + Duration
        /\ told' \in 0 .. MaxTime + Duration
    BY <2>1, <2>2
  <2>8. /\ loopHits' \in [Sessions -> SUBSET Hits]
        /\ refusals' \subseteq Hits
        /\ gate' \in Sessions \cup {NoOne}
    <3>1. loopHits' = [x \in Sessions |-> {}]  BY <1>4 DEF Restart
    <3>a. refusals' = {}  BY <1>4 DEF Restart
    <3>b. gate' = NoOne  BY <1>4 DEF Restart, Leave
    <3>2. refusals' = {} /\ gate' = NoOne  BY <3>a, <3>b
    <3>3. [x \in Sessions |-> {}] \in [Sessions -> SUBSET Hits]  OBVIOUS
    <3>4. loopHits' \in [Sessions -> SUBSET Hits]  BY ONLY <3>1, <3>3
    <3> QED  BY <3>2, <3>4
  <2>9. {arrived, retries, faults, restarts, releases}' \subseteq Nat
    <3>1. restarts' = restarts + 1  BY <1>4 DEF Restart
    <3>2. /\ arrived' = arrived /\ retries' = retries
          /\ faults' = faults /\ releases' = releases
      BY <1>4 DEF Restart
    <3>3. restarts + 1 \in Nat  OBVIOUS
    <3> QED  BY <3>1, <3>2, <3>3
  <2> QED  BY <1>4, <2>5, <2>6, <2>7, <2>8, <2>9 DEF Restart
<1> QED  BY <1>1, <1>2, <1>3, <1>4

LEMMA ShapesStep == Shapes /\ [Next]_vars => Shapes'
<1>1. ASSUME Shapes, UNCHANGED vars  PROVE Shapes'
  BY <1>1 DEF Shapes, TypeOK, Timely, At, vars, counts
<1> QED
  BY <1>1, ShapesFree, ShapesGated, ShapesAround
  DEF Next, Step, Free, Gated

\* Every reachable state has its type.
THEOREM TypeCorrect == Spec => []TypeOK
<1> QED  BY ShapesInit, ShapesStep, PTL DEF Spec, Shapes

-----------------------------------------------------------------------------
(* The gate. *)

\* What a step of a session does to the work and the gate: it stays where it
\* was in front of the gate, takes it, keeps it or lets it go.
LEMMA GateMoves ==
    ASSUME Shapes, NEW s \in Sessions, Step(s)
    PROVE  /\ \A u \in Sessions : u # s => work'[u] = work[u]
           /\ \/ /\ work[s].pc \notin BehindGate /\ work'[s].pc \notin BehindGate
                 /\ gate' = gate
              \/ /\ work[s].pc \notin BehindGate /\ work'[s].pc \in BehindGate
                 /\ gate = NoOne /\ gate' = s
              \/ /\ work[s].pc \in BehindGate /\ work'[s].pc \in BehindGate
                 /\ gate' = gate
              \/ /\ work[s].pc \in BehindGate /\ work'[s].pc \notin BehindGate
                 /\ gate' = NoOne
<1>0. work \in [Sessions -> Works]  BY DEF Shapes, TypeOK
<1> USE <1>0, Rested DEF At, BehindGate
<1>1. CASE Receive(s)  BY <1>1 DEF Receive, Look, Done, Works
<1>2. CASE Retry(s)  BY <1>2 DEF Retry, Look, Done, Works
<1>3. CASE NoticeLoop(s)  BY <1>3 DEF NoticeLoop, Done, Works
<1>4. CASE Generate(s)  BY <1>4 DEF Generate, Done, Works
<1>5. CASE Classify(s)  BY <1>5 DEF Classify, Goto, Done, Works
<1>6. CASE TakeGate(s)  BY <1>6 DEF TakeGate, Goto, Works
<1>7. CASE Check(s)  BY <1>7 DEF Check, Goto, Done, Leave, Works
<1>8. CASE SendPart(s)  BY <1>8 DEF SendPart, Goto, Leave, Works
<1>9. CASE Send(s)  BY <1>9 DEF Send, Goto, Done, Leave, Works
<1>10. CASE Control(s)  BY <1>10 DEF Control, Goto, Done, Leave, Works
<1>11. CASE Warn(s)  BY <1>11 DEF Warn, Goto, Done, Leave, Works
<1>12. CASE Restrict(s)  BY <1>12 DEF Restrict, Goto, Done, Leave, Works
<1>13. CASE Reset(s)  BY <1>13 DEF Reset, Goto, Done, Leave, Works
<1> QED
  BY <1>1, <1>2, <1>3, <1>4, <1>5, <1>6, <1>7, <1>8, <1>9, <1>10, <1>11,
     <1>12, <1>13 DEF Step

\* What ends a restriction leaves work and gate alone, or clears both.
LEMMA GateAround ==
    ASSUME Shapes, Release \/ Released \/ Tick \/ Restart \/ UNCHANGED vars
    PROVE  \/ work' = work /\ gate' = gate
           \/ /\ gate' = NoOne
              /\ \A u \in Sessions : work'[u].pc \in {"idle", "retry"}
<1>1. CASE Release  BY <1>1 DEF Release
<1>2. CASE Released  BY <1>2 DEF Released
<1>3. CASE Tick  BY <1>3 DEF Tick
<1>4. CASE UNCHANGED vars  BY <1>4 DEF vars
<1>5. CASE Restart
  <2>1. gate' = NoOne  BY <1>5 DEF Restart, Leave
  <2>2. \A u \in Sessions : work'[u].pc \in {"idle", "retry"}
    BY <1>5 DEF Restart, Idle
  <2> QED  BY <2>1, <2>2
<1> QED  BY <1>1, <1>2, <1>3, <1>4, <1>5

LEMMA GateInit == Init => GateHasHolder
BY Numbers DEF Init, GateHasHolder, Idle, BehindGate

LEMMA GateStep == Shapes /\ GateHasHolder /\ [Next]_vars => GateHasHolder'
<1> SUFFICES ASSUME Shapes, GateHasHolder, [Next]_vars  PROVE GateHasHolder'
  OBVIOUS
<1>1. ASSUME NEW s \in Sessions, Step(s)  PROVE GateHasHolder'
  BY <1>1, GateMoves, Numbers DEF GateHasHolder
<1>2. CASE Release \/ Released \/ Tick \/ Restart \/ UNCHANGED vars
  BY <1>2, GateAround, Numbers DEF GateHasHolder, BehindGate
<1> QED  BY <1>1, <1>2 DEF Next

\* The gate is held by exactly the session that works behind it.
THEOREM GateIsHeld == Spec => []GateHasHolder
<1>1. Shapes /\ GateHasHolder /\ [Next]_vars => (Shapes /\ GateHasHolder)'
  BY ShapesStep, GateStep
<1> QED  BY ShapesInit, GateInit, <1>1, PTL DEF Spec

-----------------------------------------------------------------------------
(* The restriction. *)

\* A session changes the restriction only where nothing is in force, tells of
\* one only from its notice, and begins to send only past the guard.
LEMMA RestrictionMoves ==
    ASSUME Shapes, NEW s \in Sessions, Step(s)
    PROVE  /\ now' = now
           /\ \/ until' = until /\ stored' = stored /\ faults' = faults
              \/ /\ At(s, "restrict") /\ until <= work[s].from
                 /\ until' = work[s].from + Duration /\ Persist(until')
           /\ \/ told' = told
              \/ /\ At(s, "warn") /\ told' = work[s].from + Duration
                 /\ work'[s] = [work[s] EXCEPT !.pc = "restrict"]
           /\ work'[s].pc = "send" => At(s, "check") /\ ~Restricted
<1>0. /\ work \in [Sessions -> Works]
      /\ until \in 0 .. MaxTime + Duration /\ work[s].from \in 0 .. MaxTime
  BY DEF Shapes, TypeOK, Works
<1> USE <1>0, Rested, Numbers DEF At
<1>1. CASE Receive(s)  BY <1>1 DEF Receive, Look, Done, Works
<1>2. CASE Retry(s)  BY <1>2 DEF Retry, Look, Done, Works
<1>3. CASE NoticeLoop(s)  BY <1>3 DEF NoticeLoop, Done, Works
<1>4. CASE Generate(s)  BY <1>4 DEF Generate, Done, Works
<1>5. CASE Classify(s)  BY <1>5 DEF Classify, Goto, Done, Works
<1>6. CASE TakeGate(s)  BY <1>6 DEF TakeGate, Goto, Works
<1>7. CASE Check(s)  BY <1>7 DEF Check, Goto, Done, Works
<1>8. CASE SendPart(s)  BY <1>8 DEF SendPart, Goto, Works
<1>9. CASE Send(s)  BY <1>9 DEF Send, Goto, Done, Works
<1>10. CASE Control(s)  BY <1>10 DEF Control, Goto, Done, Works
<1>11. CASE Warn(s)  BY <1>11 DEF Warn, Goto, Done, Works
<1>12. CASE Restrict(s)  BY <1>12 DEF Restrict, Goto, Done, Works
<1>13. CASE Reset(s)  BY <1>13 DEF Reset, Goto, Done, Works
<1> QED
  BY <1>1, <1>2, <1>3, <1>4, <1>5, <1>6, <1>7, <1>8, <1>9, <1>10, <1>11,
     <1>12, <1>13 DEF Step

\* A restriction begins in a session that holds the gate, so in none that is
\* about to send; the clock can only end one.
LEMMA SilenceStep ==
    Shapes /\ GateHasHolder /\ NothingSentToRestricted /\ [Next]_vars
    => NothingSentToRestricted'
<1> SUFFICES ASSUME Shapes, GateHasHolder, NothingSentToRestricted, [Next]_vars,
                    NEW u \in Sessions, work'[u].pc = "send"
             PROVE  ~(now' < until')
  BY DEF NothingSentToRestricted, At, Restricted
<1>0. now \in Nat /\ until \in Nat
  BY Numbers DEF Shapes, TypeOK
<1>1. ASSUME NEW s \in Sessions, Step(s)  PROVE ~(now' < until')
  <2>1. CASE u = s
    <3>1. At(s, "check") /\ ~Restricted  BY <1>1, <2>1, RestrictionMoves
    <3>2. until' = until /\ now' = now
      BY <1>1, <3>1, RestrictionMoves DEF At
    <3> QED  BY <3>1, <3>2 DEF Restricted
  <2>2. CASE u # s
    <3>1. At(u, "send")  BY <1>1, <2>2, GateMoves DEF At
    <3>2. gate = u  BY <3>1 DEF GateHasHolder, At, BehindGate
    <3>3. ~At(s, "restrict")
      BY <2>2, <3>2 DEF GateHasHolder, At, BehindGate
    <3>4. until' = until /\ now' = now  BY <1>1, <3>3, RestrictionMoves
    <3> QED  BY <3>1, <3>4 DEF NothingSentToRestricted, Restricted
  <2> QED  BY <2>1, <2>2
<1>2. CASE Release  BY <1>0, <1>2 DEF Release
<1>3. CASE Restart
  <2>1. work'[u].pc \in {"idle", "retry"}  BY <1>3 DEF Restart, Idle
  <2> QED  BY <2>1
<1>4. CASE Released \/ Tick \/ UNCHANGED vars
  <2>1. At(u, "send")  BY <1>4 DEF Released, Tick, vars, At
  <2>2. until' = until /\ (now' = now \/ now' = now + 1)
    BY <1>4 DEF Released, Tick, vars
  <2> QED  BY <1>0, <2>1, <2>2 DEF NothingSentToRestricted, Restricted
<1> QED  BY <1>1, <1>2, <1>3, <1>4 DEF Next

\* The store follows memory as long as no write fails.
LEMMA StoredStep == Shapes /\ StoredAgrees /\ [Next]_vars => StoredAgrees'
<1> SUFFICES ASSUME Shapes, StoredAgrees, [Next]_vars, faults' = 0
             PROVE  IF now' < until' THEN stored' = until' ELSE stored' <= now'
  BY DEF StoredAgrees, Restricted
<1>0. now \in Nat /\ until \in Nat /\ stored \in Nat /\ faults \in Nat
  BY Numbers DEF Shapes, TypeOK
<1>a. faults = 0 => IF now < until THEN stored = until ELSE stored <= now
  BY DEF StoredAgrees, Restricted
<1>1. ASSUME NEW s \in Sessions, Step(s)
      PROVE  IF now' < until' THEN stored' = until' ELSE stored' <= now'
  <2>1. work[s].from \in Nat  BY Numbers DEF Shapes, TypeOK, Works
  <2>2. now' = now  BY <1>1, RestrictionMoves
  <2>3. CASE until' = until /\ stored' = stored /\ faults' = faults
    BY <1>a, <2>2, <2>3
  <2>4. CASE until' = work[s].from + Duration /\ Persist(until')
    <3>1. stored' = until'  BY <1>0, <2>4 DEF Persist
    <3> QED  BY <1>0, <2>1, <2>2, <2>4, <3>1, Numbers
  <2> QED  BY <1>1, <2>3, <2>4, RestrictionMoves
<1>2. CASE Release
  <2>1. until' = 0 /\ stored' = 0 /\ now' = now
    BY <1>0, <1>2 DEF Release, Persist
  <2> QED  BY <1>0, <2>1
<1>3. CASE Restart
  <2>1. /\ until' = (IF stored > now THEN stored ELSE 0)
        /\ stored' = stored /\ now' = now
    BY <1>3 DEF Restart
  <2> QED  BY <1>0, <2>1
<1>4. CASE Released \/ Tick \/ UNCHANGED vars
  <2>1. /\ until' = until /\ stored' = stored /\ faults' = faults
        /\ now' = now \/ now' = now + 1
    BY <1>4 DEF Released, Tick, vars
  <2> QED  BY <1>0, <1>a, <2>1
<1> QED  BY <1>1, <1>2, <1>3, <1>4 DEF Next

-----------------------------------------------------------------------------
(* What the user was told. *)

\* How a session comes to warn: it counts one refusal too many while nothing
\* is in force; and to restrict after a warning: it gave that warning.
LEMMA WarningMoves ==
    ASSUME Shapes, WarnedIsFree, NEW s \in Sessions, Step(s)
    PROVE  /\ work'[s].pc = "loop" => work'[s].intent = "loop"
           /\ work'[s].pc = "warn" =>
                 /\ At(s, "control") /\ work'[s].intent = "refuse"
                 /\ until <= work'[s].from
           /\ work'[s].pc = "restrict" /\ work'[s].intent = "refuse" =>
                 At(s, "warn") /\ work'[s].from = work[s].from
           /\ At(s, "warn") => work'[s].pc \in {"restrict", "idle"}
<1>0. /\ work \in [Sessions -> Works]
      /\ until \in Nat /\ work[s].from \in Nat
      /\ At(s, "loop") => work[s].intent = "loop"
  BY Numbers DEF Shapes, TypeOK, Works, WarnedIsFree
<1> USE <1>0, Rested DEF At, Works
<1>1. CASE Receive(s)  BY <1>1 DEF Receive, Look, Done
<1>2. CASE Retry(s)  BY <1>2 DEF Retry, Look, Done
<1>3. CASE NoticeLoop(s)  BY <1>3 DEF NoticeLoop, Done
<1>4. CASE Generate(s)  BY <1>4 DEF Generate, Done
<1>5. CASE Classify(s)  BY <1>5 DEF Classify, Goto, Done
<1>6. CASE TakeGate(s)  BY <1>6 DEF TakeGate, Goto
<1>7. CASE Check(s)  BY <1>7 DEF Check, Goto, Done
<1>8. CASE SendPart(s)  BY <1>8 DEF SendPart, Goto
<1>9. CASE Send(s)  BY <1>9 DEF Send, Goto, Done
<1>10. CASE Control(s)  BY <1>10 DEF Control, Goto, Done
<1>11. CASE Warn(s)  BY <1>11 DEF Warn, Goto, Done
<1>12. CASE Restrict(s)  BY <1>12 DEF Restrict, Goto, Done
<1>13. CASE Reset(s)  BY <1>13 DEF Reset, Goto, Done
<1> QED
  BY <1>1, <1>2, <1>3, <1>4, <1>5, <1>6, <1>7, <1>8, <1>9, <1>10, <1>11,
     <1>12, <1>13 DEF Step

LEMMA WarnedInit == Init => WarnedIsFree /\ ToldBy /\ StoredAgrees
                              /\ NothingSentToRestricted
BY DEF Init, WarnedIsFree, Warning, ToldBy, StoredAgrees, Restricted,
   NothingSentToRestricted, At, Idle

\* While a session warns it holds the gate, so that nobody else begins a
\* restriction.
LEMMA WarnedStep ==
    Shapes /\ GateHasHolder /\ WarnedIsFree /\ [Next]_vars => WarnedIsFree'
<1> SUFFICES ASSUME Shapes, GateHasHolder, WarnedIsFree, [Next]_vars,
                    NEW u \in Sessions
             PROVE  /\ work'[u].pc = "loop" => work'[u].intent = "loop"
                    /\ work'[u].pc = "warn" => work'[u].intent = "refuse"
                    /\ Warning(u)' => until' <= work'[u].from
  BY DEF WarnedIsFree, At
<1>0. /\ until \in Nat /\ work[u].from \in Nat /\ work \in [Sessions -> Works]
      /\ stored \in Nat
  BY Numbers DEF Shapes, TypeOK, Works
<1>a. /\ At(u, "loop") => work[u].intent = "loop"
      /\ At(u, "warn") => work[u].intent = "refuse"
      /\ Warning(u) => until <= work[u].from
  BY DEF WarnedIsFree
<1>1. ASSUME NEW s \in Sessions, Step(s)
      PROVE  /\ work'[u].pc = "loop" => work'[u].intent = "loop"
             /\ work'[u].pc = "warn" => work'[u].intent = "refuse"
             /\ Warning(u)' => until' <= work'[u].from
  <2>1. CASE u = s
    <3>1. CASE work'[u].pc = "warn"
      <4>1. /\ At(s, "control") /\ work'[u].intent = "refuse"
            /\ until <= work'[u].from
        BY <1>1, <2>1, <3>1, WarningMoves
      <4>2. until' = until  BY <1>1, <4>1, RestrictionMoves DEF At
      <4> QED  BY <3>1, <4>1, <4>2
    <3>2. CASE work'[u].pc = "restrict" /\ work'[u].intent = "refuse"
      <4>1. At(s, "warn") /\ work'[u].from = work[u].from
        BY <1>1, <2>1, <3>2, WarningMoves
      <4>2. until' = until  BY <1>1, <4>1, RestrictionMoves DEF At
      <4> QED  BY <1>a, <2>1, <3>2, <4>1, <4>2 DEF Warning
    <3>3. work'[u].pc = "loop" => work'[u].intent = "loop"
      BY <1>1, <2>1, WarningMoves
    <3> QED  BY <3>1, <3>2, <3>3 DEF Warning, At
  <2>2. CASE u # s
    <3>1. work'[u] = work[u]  BY <1>1, <2>2, GateMoves
    <3>2. CASE Warning(u)
      <4>1. gate = u  BY <3>2 DEF Warning, At, GateHasHolder, BehindGate
      <4>2. ~At(s, "restrict")
        BY <2>2, <4>1 DEF At, GateHasHolder, BehindGate
      <4>3. until' = until  BY <1>1, <4>2, RestrictionMoves
      <4> QED  BY <1>a, <3>1, <3>2, <4>3 DEF Warning, At
    <3>3. CASE ~Warning(u)  BY <1>a, <3>1, <3>3 DEF Warning, At
    <3> QED  BY <3>2, <3>3
  <2> QED  BY <2>1, <2>2
<1>2. CASE Release
  <2>1. work' = work /\ until' = 0  BY <1>2 DEF Release
  <2> QED  BY <1>0, <1>a, <2>1 DEF Warning, At
<1>3. CASE Restart
  <2>1. work'[u].pc \in {"idle", "retry"}  BY <1>3 DEF Restart, Idle
  <2> QED  BY <2>1 DEF Warning, At
<1>4. CASE Released \/ Tick \/ UNCHANGED vars
  <2>1. work' = work /\ until' = until  BY <1>4 DEF Released, Tick, vars
  <2> QED  BY <1>a, <2>1 DEF Warning, At
<1> QED  BY <1>1, <1>2, <1>3, <1>4 DEF Next

\* What was told comes true in the step that restricts, and no other
\* restriction takes its place: one that is in force is left as it is.
LEMMA ToldStep ==
    /\ Shapes /\ GateHasHolder /\ WarnedIsFree /\ ToldBy /\ [Next]_vars
    => ToldBy'
<1> SUFFICES ASSUME Shapes, GateHasHolder, WarnedIsFree, ToldBy, [Next]_vars,
                    now' < told'
             PROVE  \/ until' = told'
                    \/ \E s \in Sessions :
                          /\ work'[s].pc = "restrict" /\ gate' = s
                          /\ work'[s].intent = "refuse"
                          /\ work'[s].from + Duration = told'
  BY DEF ToldBy, At
<1>0. /\ until \in Nat /\ told \in Nat /\ now \in Nat
      /\ \A s \in Sessions : work[s].from \in Nat /\ work[s].from <= now
  BY Numbers DEF Shapes, TypeOK, Works, Timely
<1>1. ASSUME NEW s \in Sessions, Step(s)
      PROVE  \/ until' = told'
             \/ \E u \in Sessions :
                   /\ work'[u].pc = "restrict" /\ gate' = u
                   /\ work'[u].intent = "refuse"
                   /\ work'[u].from + Duration = told'
  <2>1. CASE /\ At(s, "warn") /\ told' = work[s].from + Duration
             /\ work'[s] = [work[s] EXCEPT !.pc = "restrict"]
    <3>1. work[s] \in Works  BY DEF Shapes, TypeOK
    <3>2. /\ work'[s].pc = "restrict" /\ work'[s].intent = "refuse"
          /\ work'[s].from = work[s].from
      BY <2>1, <3>1 DEF Works, WarnedIsFree
    <3>3. gate' = s
      BY <1>1, <2>1, <3>2, GateMoves DEF At, GateHasHolder, BehindGate
    <3> QED  BY <2>1, <3>2, <3>3
  <2>2. CASE told' = told
    <3>1. now' = now /\ now < told  BY <1>1, <2>2, RestrictionMoves
    <3>2. CASE until = told
      <4>1. ~(until <= work[s].from)  BY <1>0, <3>1, <3>2
      <4>2. until' = until  BY <1>1, <4>1, RestrictionMoves
      <4> QED  BY <2>2, <3>2, <4>2
    <3>3. ASSUME NEW u \in Sessions, At(u, "restrict"), gate = u,
                 work[u].intent = "refuse", work[u].from + Duration = told
          PROVE  \/ until' = told'
                 \/ \E v \in Sessions :
                       /\ work'[v].pc = "restrict" /\ gate' = v
                       /\ work'[v].intent = "refuse"
                       /\ work'[v].from + Duration = told'
      <4>1. CASE u = s
        <5>1. until <= work[s].from
          BY <3>3, <4>1 DEF WarnedIsFree, Warning
        <5>2. Restrict(s)
          BY <1>1, <3>3, <4>1
          DEF Step, At, Receive, Retry, Classify, NoticeLoop, Generate,
              TakeGate, Check, SendPart, Send, Control, Warn, Reset
        <5>3. until' = work[s].from + Duration
          BY <1>0, <5>1, <5>2 DEF Restrict
        <5> QED  BY <2>2, <3>3, <4>1, <5>3
      <4>2. CASE u # s
        <5>1. work'[u] = work[u]  BY <1>1, <4>2, GateMoves
        <5>2. gate' = u
          BY <1>1, <3>3, <4>2, GateMoves, Numbers DEF GateHasHolder
        <5> QED  BY <2>2, <3>3, <5>1, <5>2 DEF At
      <4> QED  BY <4>1, <4>2
    <3> QED  BY <3>1, <3>2, <3>3 DEF ToldBy
  <2> QED  BY <1>1, <2>1, <2>2, RestrictionMoves
<1>2. CASE Release
  <2>1. told' = 0 /\ now' = now  BY <1>2 DEF Release
  <2> QED  BY <1>0, <2>1
<1>3. CASE Restart
  <2>1. told' = (IF told = until' THEN told ELSE 0) /\ now' = now
    BY <1>3 DEF Restart
  <2> QED  BY <1>0, <2>1
<1>4. CASE Released \/ Tick \/ UNCHANGED vars
  <2>1. /\ work' = work /\ gate' = gate /\ until' = until /\ told' = told
        /\ now' = now \/ now' = now + 1
    BY <1>4 DEF Released, Tick, vars
  <2>2. now < told  BY <1>0, <2>1
  <2> QED  BY <2>1, <2>2 DEF ToldBy, At
<1> QED  BY <1>1, <1>2, <1>3, <1>4 DEF Next

-----------------------------------------------------------------------------
(* The theorems. *)

\* The inductive invariant.
ControlInv ==
    /\ Shapes /\ GateHasHolder /\ NothingSentToRestricted
    /\ StoredAgrees /\ WarnedIsFree /\ ToldBy

\* It holds in every reachable state.
THEOREM ControlSound == Spec => []ControlInv
<1>1. Init => ControlInv
  BY ShapesInit, GateInit, WarnedInit DEF ControlInv
<1>2. ControlInv /\ [Next]_vars => ControlInv'
  BY ShapesStep, GateStep, SilenceStep, StoredStep, WarnedStep, ToldStep
  DEF ControlInv
<1> QED  BY <1>1, <1>2, PTL DEF Spec

\* No part of an answer is sent to a user who is restricted at that moment.
THEOREM RestrictedHearNothing == Spec => []NothingSentToRestricted
<1> QED  BY ControlSound, PTL DEF ControlInv

\* As long as no write fails, a restart finds the restriction that was in
\* force, and none that was lifted.
THEOREM StoreAgrees == Spec => []StoredAgrees
<1> QED  BY ControlSound, PTL DEF ControlInv

\* A pause that was announced after refusals is kept to its announced end.
THEOREM PausesAreAsTold == Spec => []ToldTruth
<1>1. ControlInv => ToldTruth
  BY DEF ControlInv, ToldBy, ToldTruth
<1> QED  BY ControlSound, <1>1, PTL

-----------------------------------------------------------------------------
(* The console: the invariant. *)

\* Sets of profiles whose active profile is there
SoundSets == {set \in ProfileSet : set.active \in Present(set)}
Own == [id : ProfileIds, is : Profile]
PluginStates == [Plugins -> [installed : BOOLEAN, enabled : BOOLEAN]]
Kept == [profiles : SoundSets, plugins : PluginStates, group : GroupConfig]

\* What a change carries fits where it is.
Updates == [at : {"update", "configure", "start", "save"}, of : {"profiles"},
            next : [set : SoundSets, ran : BOOLEAN]]
Commands == [at : {"apply", "saveCurrent"}, of : {"profiles"}, next : Own]
Snapshots == [at : {"snapshot"}, of : {"plugins"}, next : {0}]
GroupSaves == [at : {"saveGroup"}, of : {"group"}, next : GroupConfig]
ProfileWrites == [at : {"write"}, of : {"profiles"}, next : SoundSets]
PluginWrites == [at : {"write"}, of : {"plugins"}, next : PluginStates]
GroupWrites == [at : {"write"}, of : {"group"}, next : GroupConfig]
Fitting ==
    {NoChange} \cup Updates \cup Commands \cup Snapshots \cup GroupSaves
    \cup ProfileWrites \cup PluginWrites \cup GroupWrites

ConsoleTyped ==
    /\ memory \in Kept /\ db \in Kept /\ cfg \in Own /\ botRuns \in BOOLEAN
    /\ change \in [Changes -> Fitting]
    /\ drawn \in ProfileIds /\ begun \in 0 .. MaxChanges
    /\ failed \in 0 .. MaxUnwritten /\ reloads \in 0 .. MaxReloads
    /\ {tangled, unwritten, alone} \subseteq SUBSET (Settings \cup {"run"})

\* What is enabled is installed.
PluginsFit == \A p \in Plugins : memory.plugins[p].enabled => memory.plugins[p].installed

\* History is right about which changes overlap.
OverlapsNoted ==
    /\ \A s \in Settings \cap alone : \A c, d \in UnderWay(s) : c = d
    /\ \A s \in Settings : UnderWay(s) # {} => Aspects(s) \subseteq alone \cup tangled
    /\ "run" \in alone => "profiles" \in alone

\* A change that is alone has done what comes before the point where it is.
HasDone(c) ==
    /\ change[c].of \in alone =>
          /\ change[c].at = "apply" => change[c].next.is.on = cfg.is.on
          /\ change[c].at = "saveCurrent" => cfg = change[c].next
          /\ change[c].at \in {"start", "save"} => cfg = Current(change[c].next.set)
          /\ change[c].at = "write" => change[c].next = memory[change[c].of]
          /\ change[c].at = "write" /\ change[c].of = "profiles" =>
                cfg = Current(memory.profiles)
    /\ "run" \in alone =>
          /\ change[c].at = "configure" => ~botRuns
          /\ change[c].at \in {"start", "save"} /\ botRuns => cfg.is.on
OrderKept == \A c \in Changes : HasDone(c)

\* Whatever did not interfere with the run, it is of a profile that is enabled.
RunFits == "run" \notin tangled /\ botRuns => cfg.is.on

ConsoleInv ==
    /\ ConsoleTyped /\ PluginsFit /\ OverlapsNoted /\ OrderKept /\ RunFits
    /\ RuntimeHasProfile /\ RestartKeepsSettings

-----------------------------------------------------------------------------
(* The console: what the steps do. *)

LEMMA ConsoleNumbers ==
    /\ MaxProfiles \in Nat /\ MaxProfiles > 0 /\ MaxChanges \in Nat
    /\ MaxUnwritten \in Nat /\ MaxReloads \in Nat /\ 1 \in ProfileIds
BY ConsoleConstants DEF ProfileIds

\* The sets of profiles that a change makes
LEMMA SetsMade ==
    ASSUME NEW set \in SoundSets, NEW id \in ProfileIds
    PROVE  /\ Current(set) \in Own /\ Current(set).is = set.of[set.active]
           /\ \A p \in Profile : Put(set, id, p) \in SoundSets
                                 /\ Current(Put(set, id, p)) = [id |-> id, is |-> p]
           /\ id \in Present(set) => [set EXCEPT !.active = id] \in SoundSets
           /\ \A first \in Present(set) \ {id} : Removed(set, id, first) \in SoundSets
<1> USE DEF SoundSets, ProfileSet, Present
<1>1. /\ set.active \in ProfileIds /\ set.has \in [ProfileIds -> BOOLEAN]
      /\ set.of \in [ProfileIds -> Profile] /\ set.has[set.active]
  OBVIOUS
<1>2. Current(set) \in Own /\ Current(set).is = set.of[set.active]
  BY <1>1 DEF Current, Own
<1>3. ASSUME NEW p \in Profile
      PROVE  Put(set, id, p) \in SoundSets /\ Current(Put(set, id, p)) = [id |-> id, is |-> p]
  BY <1>1 DEF Put, Current
<1>4. ASSUME id \in Present(set)  PROVE [set EXCEPT !.active = id] \in SoundSets
  BY <1>1, <1>4
<1>5. ASSUME NEW first \in Present(set) \ {id}  PROVE Removed(set, id, first) \in SoundSets
  <2>1. Absent \in Profile  BY DEF Absent, Profile
  <2> QED  BY <1>1, <2>1 DEF Removed
<1> QED  BY <1>2, <1>3, <1>4, <1>5

\* What a change carries, by the point where it is
LEMMA FittingGives ==
    ASSUME NEW x \in Fitting
    PROVE  /\ x.at = "idle" <=> x = NoChange
           /\ x.at # "idle" => x.of \in Settings
           /\ x.at \in {"update", "configure", "start", "save"} => x \in Updates
           /\ x.at \in {"apply", "saveCurrent"} => x \in Commands
           /\ x.at = "snapshot" => x \in Snapshots
           /\ x.at = "saveGroup" => x \in GroupSaves
           /\ x.at \in {"apply", "saveCurrent", "configure", "start", "save"} =>
                 x.of = "profiles"
           /\ x.at = "write" =>
                 /\ x.of = "profiles" => x.next \in SoundSets
                 /\ x.of = "plugins" => x.next \in PluginStates
                 /\ x.of = "group" => x.next \in GroupConfig
           /\ x.of \in Settings \cup {"none"} /\ (x.of = "none" => x = NoChange)
BY DEF Fitting, Updates, Commands, Snapshots, GroupSaves, ProfileWrites, PluginWrites,
       GroupWrites, NoChange, Settings

\* One change moves on.
Only(c, x) == /\ change' \in [Changes -> Fitting] /\ change'[c] = x
              /\ \A d \in Changes \ {c} : change'[d] = change[d]

LEMMA OneMoves ==
    ASSUME change \in [Changes -> Fitting], NEW c \in Changes, NEW x \in Fitting,
           change' = [change EXCEPT ![c] = x]
    PROVE  Only(c, x)
BY DEF Only

\* What the invariant says after a step
LEMMA RestartPrimed ==
    ASSUME \A s \in Settings \ unwritten' :
              (\A c \in Changes : change'[c].of # s) /\ s \notin tangled' =>
                 IF s = "plugins"
                 THEN {p \in Plugins : db'.plugins[p].enabled}
                         = {p \in Plugins : memory'.plugins[p].installed
                                            /\ memory'.plugins[p].enabled}
                 ELSE db'[s] = memory'[s]
    PROVE  RestartKeepsSettings'
BY DEF RestartKeepsSettings, Settled, UnderWay, PluginsEnabled, Restored

LEMMA RestartSame ==
    ASSUME RestartKeepsSettings
    PROVE  \A s \in Settings \ unwritten :
              (\A c \in Changes : change[c].of # s) /\ s \notin tangled =>
                 IF s = "plugins"
                 THEN {p \in Plugins : db.plugins[p].enabled}
                         = {p \in Plugins : memory.plugins[p].installed
                                            /\ memory.plugins[p].enabled}
                 ELSE db[s] = memory[s]
BY DEF RestartKeepsSettings, Settled, UnderWay, PluginsEnabled, Restored

\* A change of setting s begins.
LEMMA BeginKeeps ==
    ASSUME ConsoleInv, NEW c \in Changes, NEW s \in Settings,
           NEW at \in {"update", "apply", "snapshot", "saveGroup"}, NEW next,
           [at |-> at, of |-> s, next |-> next] \in Fitting,
           at = "apply" => next.is.on = cfg.is.on,
           Begin(c, s, at, next), UNCHANGED <<db, cfg, botRuns>>,
           memory' \in Kept, \A t \in Settings \ {s} : memory'[t] = memory[t],
           drawn' \in ProfileIds, PluginsFit'
    PROVE  ConsoleInv'
<1> USE DEF ConsoleInv
<1> DEFINE x == [at |-> at, of |-> s, next |-> next]
<1>1. Only(c, x) /\ x \in Fitting
  BY OneMoves DEF Begin, ConsoleTyped
<1>2. change[c].of = "none" /\ "none" \notin Settings /\ "run" \notin Settings
  BY FittingGives DEF Begin, ChangeAt, ConsoleTyped, NoChange, Settings
<1>3. \/ /\ \A d \in Changes : change[d].of # s
         /\ alone' = alone \cup Aspects(s) /\ tangled' = tangled
      \/ /\ \E d \in Changes : change[d].of = s
         /\ alone' = alone \ Aspects(s) /\ tangled' = tangled \cup Aspects(s)
  BY DEF Begin, UnderWay
<1>4. s \in Aspects(s) /\ Aspects(s) \subseteq {s, "run"}
      /\ ("run" \in Aspects(s) <=> s = "profiles")
  BY <1>2 DEF Aspects
<1>5. /\ begun' = begun + 1 /\ begun < MaxChanges
      /\ UNCHANGED <<failed, reloads, unwritten>>
  BY DEF Begin
<1>6. ConsoleTyped'
  <2>1. begun' \in 0 .. MaxChanges  BY <1>5, ConsoleNumbers DEF ConsoleTyped
  <2>2. {tangled', unwritten', alone'} \subseteq SUBSET (Settings \cup {"run"})
    BY <1>3, <1>4, <1>5 DEF ConsoleTyped
  <2> QED  BY <1>1, <1>5, <2>1, <2>2 DEF ConsoleTyped, Only
<1>7. \A d \in Changes : change'[d].of = IF d = c THEN s ELSE change[d].of
  BY <1>1 DEF Only
<1>8. OverlapsNoted'
  <2>1. ASSUME NEW t \in Settings \cap alone', NEW d \in Changes, NEW e \in Changes,
               change'[d].of = t, change'[e].of = t
        PROVE  d = e
    <3>1. CASE t = s  BY <1>3, <1>4, <1>7, <2>1, <3>1
    <3>2. CASE t # s
      <4>1. t \in alone  BY <1>2, <1>3, <1>4, <2>1, <3>2
      <4> QED  BY <1>7, <2>1, <3>2, <4>1 DEF OverlapsNoted, UnderWay
    <3> QED  BY <3>1, <3>2
  <2>2. ASSUME NEW t \in Settings, NEW d \in Changes, change'[d].of = t
        PROVE  Aspects(t) \subseteq alone' \cup tangled'
    <3>1. CASE t = s  BY <1>3, <3>1
    <3>2. CASE t # s
      <4>1. Aspects(t) \subseteq alone \cup tangled
        BY <1>7, <2>2, <3>2 DEF OverlapsNoted, UnderWay
      <4>2. alone \cup tangled \subseteq alone' \cup tangled'  BY <1>3
      <4> QED  BY <4>1, <4>2
    <3> QED  BY <3>1, <3>2
  <2>3. "run" \in alone' => "profiles" \in alone'
    BY <1>2, <1>3, <1>4 DEF OverlapsNoted, Settings
  <2> QED  BY <2>1, <2>2, <2>3 DEF OverlapsNoted, UnderWay
<1>9. ASSUME NEW d \in Changes  PROVE HasDone(d)'
  <2>1. CASE d = c
    BY <1>1, <2>1 DEF HasDone, Only
  <2>2. CASE d # c
    <3>1. change'[d] = change[d]  BY <1>1, <2>2 DEF Only
    <3>2. HasDone(d)  BY DEF OrderKept
    <3>3. CASE change[d].of = s
      <4>1. s \notin alone'  BY <1>3, <1>4, <3>3
      <4>2. s = "profiles" => "run" \notin alone'  BY <1>3, <1>4, <3>3
      <4>3. s # "profiles" => change[d].at \notin {"configure", "start", "save"}
        BY <3>3, FittingGives DEF ConsoleTyped
      <4> QED  BY <3>1, <3>3, <4>1, <4>2, <4>3 DEF HasDone
    <3>4. CASE change[d].of # s
      <4>1. change[d].of \in alone' => change[d].of \in alone /\ memory'[change[d].of] = memory[change[d].of]
        <5>1. change[d].of \in Settings \cup {"none"}  BY FittingGives DEF ConsoleTyped
        <5>2. "none" \notin alone'  BY <1>2, <1>6 DEF ConsoleTyped
        <5> QED  BY <1>2, <1>3, <1>4, <3>4, <5>1, <5>2
      <4>2. change[d].of = "profiles" => memory'.profiles = memory.profiles
        BY <3>4 DEF Settings
      <4>3. change[d].at \in {"configure", "start", "save"} =>
               ("run" \in alone' => "run" \in alone)
        <5>1. change[d].at \in {"configure", "start", "save"} => change[d].of = "profiles"
          BY FittingGives DEF ConsoleTyped
        <5> QED  BY <1>3, <1>4, <3>4, <5>1
      <4> QED  BY <3>1, <3>2, <4>1, <4>2, <4>3 DEF HasDone, Current
    <3> QED  BY <3>3, <3>4
  <2> QED  BY <2>1, <2>2
<1>10. RunFits'  BY <1>3 DEF RunFits
<1>11. RuntimeHasProfile'
  <2>1. CASE s = "profiles"
    BY <1>7, <2>1 DEF RuntimeHasProfile, Settled, UnderWay
  <2>2. CASE s # "profiles"
    <3>1. memory'.profiles = memory.profiles  BY <2>2 DEF Settings
    <3>2. Settled("profiles")' => Settled("profiles")
      BY <1>2, <1>3, <1>7, <2>2 DEF Settled, UnderWay
    <3> QED  BY <1>10, <3>1, <3>2 DEF RuntimeHasProfile, RunFits, Current
  <2> QED  BY <2>1, <2>2
<1>12. RestartKeepsSettings'
  <2>1. ASSUME NEW t \in Settings \ unwritten', \A d \in Changes : change'[d].of # t,
               t \notin tangled'
        PROVE  /\ t # s /\ t \notin unwritten /\ t \notin tangled
               /\ \A d \in Changes : change[d].of # t
    BY <1>2, <1>3, <1>5, <1>7, <2>1
  <2>2. s # "plugins" => memory'.plugins = memory.plugins  BY DEF Settings
  <2> QED  BY <2>1, <2>2, RestartSame, RestartPrimed
<1> QED  BY <1>6, <1>8, <1>9, <1>10, <1>11, <1>12 DEF OrderKept

\* A change that is under way moves on.
LEMMA MoveKeeps ==
    ASSUME ConsoleInv, NEW c \in Changes, NEW x \in Fitting,
           change[c].at # "idle", x.at # "idle", x.of = change[c].of,
           change' = [change EXCEPT ![c] = x],
           UNCHANGED <<db, consoleCounts, unwritten, alone>>,
           tangled' \subseteq tangled, tangled \ tangled' \subseteq {"run"} \cap alone,
           memory' \in Kept, cfg' \in Own, botRuns' \in BOOLEAN,
           \A t \in Settings \ {x.of} : memory'[t] = memory[t],
           x.of # "profiles" => UNCHANGED <<cfg, botRuns>>,
           PluginsFit', HasDone(c)', RunFits'
    PROVE  ConsoleInv'
<1> USE DEF ConsoleInv
<1>1. Only(c, x)  BY OneMoves DEF ConsoleTyped
<1>2. x.of \in Settings /\ "none" \notin Settings /\ "run" \notin Settings
  BY FittingGives DEF ConsoleTyped, Settings
<1>3. UNCHANGED <<drawn, begun, failed, reloads>>
  BY DEF consoleCounts
<1>4. ConsoleTyped'
  BY <1>1, <1>3 DEF ConsoleTyped, Only
<1>5. \A d \in Changes : change'[d].of = change[d].of
  BY <1>1 DEF Only
<1>6. OverlapsNoted'
  <2>1. \A s \in Settings \cap alone' : \A d, e \in Changes :
           change'[d].of = s /\ change'[e].of = s => d = e
    BY <1>5 DEF OverlapsNoted, UnderWay
  <2>2. ASSUME NEW s \in Settings, NEW d \in Changes, change'[d].of = s
        PROVE  Aspects(s) \subseteq alone' \cup tangled'
    <3>1. Aspects(s) \subseteq alone \cup tangled
      BY <1>5, <2>2 DEF OverlapsNoted, UnderWay
    <3> QED  BY <3>1
  <2> QED  BY <2>1, <2>2 DEF OverlapsNoted, UnderWay
<1>7. ASSUME NEW d \in Changes  PROVE HasDone(d)'
  <2>1. CASE d # c
    <3>1. change'[d] = change[d] /\ HasDone(d)  BY <1>1, <2>1 DEF Only, OrderKept
    <3>2. change[d].of \in Settings \cap alone => change[d].of # x.of
      BY <2>1 DEF OverlapsNoted, UnderWay
    <3>3. change[d].of \in alone => change[d].of \in Settings
      <4>1. change[d].of \in Settings \cup {"none"}  BY FittingGives DEF ConsoleTyped
      <4> QED  BY <4>1 DEF ConsoleTyped, Settings
    <3>4. /\ change[d].at \in {"apply", "saveCurrent", "configure", "start", "save"} =>
                change[d].of = "profiles"
          /\ "run" \in alone => "profiles" \in Settings \cap alone
      <4>1. change[d].at \in {"apply", "saveCurrent", "configure", "start", "save"} =>
                change[d].of = "profiles"
        BY FittingGives DEF ConsoleTyped
      <4> QED  BY <4>1 DEF OverlapsNoted, Settings
    <3>5. change[d].of \in alone => memory'[change[d].of] = memory[change[d].of]
      BY <3>2, <3>3
    <3>6. change[d].of = "profiles" /\ "profiles" \in alone =>
             UNCHANGED <<cfg, botRuns>> /\ memory'.profiles = memory.profiles
      BY <3>2, <3>3, <3>5
    <3> QED  BY <3>1, <3>4, <3>5, <3>6 DEF HasDone, Current
  <2> QED  BY <2>1
<1>8. RuntimeHasProfile'
  <2>1. CASE x.of = "profiles"
    BY <1>5, <2>1 DEF RuntimeHasProfile, Settled, UnderWay
  <2>2. CASE x.of # "profiles"
    <3>1. memory'.profiles = memory.profiles /\ cfg' = cfg  BY <2>2 DEF Settings
    <3>2. Settled("profiles")' => Settled("profiles")
      BY <1>2, <1>5 DEF Settled, UnderWay, Settings
    <3> QED  BY <3>1, <3>2 DEF RuntimeHasProfile, RunFits, Current
  <2> QED  BY <2>1, <2>2
<1>9. RestartKeepsSettings'
  <2>1. ASSUME NEW t \in Settings \ unwritten', \A d \in Changes : change'[d].of # t,
               t \notin tangled'
        PROVE  /\ t # x.of /\ t \notin unwritten /\ t \notin tangled
               /\ \A d \in Changes : change[d].of # t
    BY <1>2, <1>5, <2>1
  <2>2. x.of # "plugins" => memory'.plugins = memory.plugins  BY DEF Settings
  <2> QED  BY <2>1, <2>2, RestartSame, RestartPrimed
<1> QED  BY <1>4, <1>6, <1>7, <1>8, <1>9 DEF OrderKept

-----------------------------------------------------------------------------
(* The console: each step. *)

LEMMA AskProfilesKeeps ==
    ASSUME ConsoleInv, NEW c \in Changes, AskProfiles(c)
    PROVE  ConsoleInv'
<1> DEFINE set == memory.profiles
<1>1. /\ set \in SoundSets /\ drawn \in ProfileIds /\ PluginsFit
      /\ memory \in Kept /\ UNCHANGED <<memory, db, cfg, botRuns>>
  BY DEF ConsoleInv, ConsoleTyped, Kept, AskProfiles
<1>2. PluginsFit'  BY <1>1 DEF PluginsFit
<1>3. ASSUME NEW next \in SoundSets,
             Begin(c, "profiles", "update", [set |-> next, ran |-> FALSE]),
             drawn' \in ProfileIds
      PROVE  ConsoleInv'
  <2>1. [at |-> "update", of |-> "profiles", next |-> [set |-> next, ran |-> FALSE]]
           \in Fitting
    BY DEF Fitting, Updates
  <2>2. memory' \in Kept /\ \A t \in Settings \ {"profiles"} : memory'[t] = memory[t]
    BY <1>1
  <2>3. "profiles" \in Settings  BY DEF Settings
  <2> QED  BY <1>1, <1>2, <1>3, <2>1, <2>2, <2>3, BeginKeeps
<1>4. ASSUME NEW id \in Present(set), NEW p \in Profile,
             Begin(c, "profiles", "update", [set |-> Put(set, id, p), ran |-> FALSE]),
             drawn' = drawn
      PROVE  ConsoleInv'
  <2>1. id \in ProfileIds  BY DEF Present
  <2> QED  BY <1>1, <1>3, <1>4, <2>1, SetsMade
<1>5. ASSUME NEW id \in Present(set), drawn' = drawn,
             Begin(c, "profiles", "update",
                   [set |-> [set EXCEPT !.active = id], ran |-> FALSE])
      PROVE  ConsoleInv'
  <2>1. id \in ProfileIds  BY DEF Present
  <2> QED  BY <1>1, <1>3, <1>5, <2>1, SetsMade
<1>6. ASSUME NEW id \in Present(set), drawn < MaxProfiles, drawn' = drawn + 1,
             Begin(c, "profiles", "update",
                   [set |-> Put(set, drawn + 1, set.of[id]), ran |-> FALSE])
      PROVE  ConsoleInv'
  <2>1. drawn + 1 \in ProfileIds  BY <1>1, <1>6, ConsoleNumbers DEF ProfileIds
  <2>2. set.of[id] \in Profile  BY <1>1 DEF SoundSets, ProfileSet, Present
  <2> QED  BY <1>1, <1>3, <1>6, <2>1, <2>2, SetsMade
<1>7. ASSUME NEW id \in Present(set), NEW first \in Present(set), first # id,
             Begin(c, "profiles", "update", [set |-> Removed(set, id, first), ran |-> FALSE]),
             drawn' = drawn
      PROVE  ConsoleInv'
  <2>1. id \in ProfileIds /\ first \in Present(set) \ {id}  BY <1>7 DEF Present
  <2> QED  BY <1>1, <1>3, <1>7, <2>1, SetsMade
<1> QED  BY <1>4, <1>5, <1>6, <1>7 DEF AskProfiles

LEMMA OwnerCommandKeeps ==
    ASSUME ConsoleInv, NEW c \in Changes, OwnerCommand(c)
    PROVE  ConsoleInv'
<1> DEFINE next == [cfg EXCEPT !.is.silenced = ~@]
<1>1. /\ memory \in Kept /\ drawn \in ProfileIds /\ PluginsFit /\ cfg \in Own
      /\ UNCHANGED <<memory, db, cfg, botRuns, drawn>>
      /\ Begin(c, "profiles", "apply", next)
  BY DEF ConsoleInv, ConsoleTyped, OwnerCommand
<1>2. PluginsFit'  BY <1>1 DEF PluginsFit
<1>3. next \in Own /\ next.is.on = cfg.is.on  BY <1>1 DEF Own, Profile
<1>4. [at |-> "apply", of |-> "profiles", next |-> next] \in Fitting
  BY <1>3 DEF Fitting, Commands
<1>5. "profiles" \in Settings  BY DEF Settings
<1>6. /\ memory' \in Kept /\ \A t \in Settings \ {"profiles"} : memory'[t] = memory[t]
      /\ drawn' \in ProfileIds
  BY <1>1
<1> QED  BY <1>1, <1>2, <1>3, <1>4, <1>5, <1>6, BeginKeeps

LEMMA ChangePluginKeeps ==
    ASSUME ConsoleInv, NEW c \in Changes, ChangePlugin(c)
    PROVE  ConsoleInv'
<1>1. /\ memory \in Kept /\ drawn \in ProfileIds /\ PluginsFit
      /\ UNCHANGED <<db, cfg, botRuns, drawn>> /\ Begin(c, "plugins", "snapshot", 0)
  BY DEF ConsoleInv, ConsoleTyped, ChangePlugin
<1>2. PICK p \in Plugins, to \in [installed : BOOLEAN, enabled : BOOLEAN] :
         (to.enabled => to.installed) /\ memory' = [memory EXCEPT !.plugins[p] = to]
  BY DEF ChangePlugin
<1>3. memory' \in Kept /\ PluginsFit'
      /\ \A t \in Settings \ {"plugins"} : memory'[t] = memory[t]
  <2> DEFINE states == [memory.plugins EXCEPT ![p] = to]
  <2>1. memory.plugins \in PluginStates  BY <1>1 DEF Kept
  <2>2. states \in PluginStates /\ \A q \in Plugins : states[q].enabled => states[q].installed
    BY <1>1, <1>2, <2>1 DEF PluginStates, PluginsFit
  <2>3. memory' = [memory EXCEPT !.plugins = states]  BY <1>2
  <2> HIDE DEF states
  <2>4. memory' \in Kept /\ memory'.plugins = states  BY <1>1, <2>2, <2>3 DEF Kept
  <2>5. \A t \in Settings \ {"plugins"} : memory'[t] = memory[t]
    BY <1>1, <2>3 DEF Kept, Settings
  <2> QED  BY <2>2, <2>4, <2>5 DEF PluginsFit
<1>4. [at |-> "snapshot", of |-> "plugins", next |-> 0] \in Fitting  BY DEF Fitting, Snapshots
<1>5. "plugins" \in Settings /\ drawn' \in ProfileIds  BY <1>1 DEF Settings
<1> QED  BY <1>1, <1>3, <1>4, <1>5, BeginKeeps

LEMMA AskGroupKeeps ==
    ASSUME ConsoleInv, NEW c \in Changes, AskGroup(c)
    PROVE  ConsoleInv'
<1>1. /\ memory \in Kept /\ drawn \in ProfileIds /\ PluginsFit
      /\ UNCHANGED <<memory, db, cfg, botRuns, drawn>>
  BY DEF ConsoleInv, ConsoleTyped, AskGroup
<1>2. PluginsFit'  BY <1>1 DEF PluginsFit
<1>3. PICK next \in GroupConfig : Begin(c, "group", "saveGroup", next)
  <2>1. memory.group \in GroupConfig  BY <1>1 DEF Kept
  <2>2. \A level \in 0 .. 1 : [memory.group EXCEPT !.level = level] \in GroupConfig
    BY <2>1 DEF GroupConfig
  <2> QED  BY <2>2 DEF AskGroup
<1>4. [at |-> "saveGroup", of |-> "group", next |-> next] \in Fitting  BY DEF Fitting, GroupSaves
<1>5. "group" \in Settings /\ drawn' \in ProfileIds /\ memory' \in Kept
      /\ \A t \in Settings \ {"group"} : memory'[t] = memory[t]
  BY <1>1 DEF Settings
<1> QED  BY <1>1, <1>2, <1>3, <1>4, <1>5, BeginKeeps

\* While a change of the profiles is under way, the run is noted with it.
LEMMA RunNoted ==
    ASSUME ConsoleInv, NEW c \in Changes, change[c].of = "profiles"
    PROVE  "run" \notin tangled => "run" \in alone /\ "profiles" \in alone
BY DEF ConsoleInv, OverlapsNoted, UnderWay, Aspects, Settings

\* What the change at hand is
LEMMA AtHand ==
    ASSUME ConsoleInv, NEW c \in Changes
    PROVE  /\ change[c] \in Fitting /\ HasDone(c) /\ RunFits /\ PluginsFit
           /\ memory \in Kept /\ cfg \in Own /\ botRuns \in BOOLEAN
BY DEF ConsoleInv, ConsoleTyped, OrderKept

LEMMA StopOldKeeps ==
    ASSUME ConsoleInv, NEW c \in Changes, StopOld(c)
    PROVE  ConsoleInv'
<1> DEFINE x == [change[c] EXCEPT !.at = "configure", !.next.ran = botRuns]
<1>1. /\ change[c].at = "update" /\ botRuns' = FALSE
      /\ UNCHANGED <<memory, db, cfg, consoleCounts, tangled, unwritten, alone>>
      /\ change' = [change EXCEPT ![c].at = "configure", ![c].next.ran = botRuns]
  BY DEF StopOld, ChangeAt, consoleHistory
<1>2. change[c] \in Updates  BY <1>1, AtHand, FittingGives
<1>3. x \in Updates /\ x.at = "configure" /\ x.of = "profiles" /\ change[c].of = "profiles"
  BY <1>2, AtHand DEF Updates
<1>4. change' = [change EXCEPT ![c] = x] /\ change'[c] = x
  BY <1>1 DEF ConsoleInv, ConsoleTyped
<1> HIDE DEF x
<1>5. x \in Fitting  BY <1>3 DEF Fitting
<1>6. HasDone(c)'  BY <1>1, <1>3, <1>4 DEF HasDone
<1>7. RunFits' /\ PluginsFit'  BY <1>1, AtHand DEF RunFits, PluginsFit
<1> QED  BY <1>1, <1>3, <1>4, <1>5, <1>6, <1>7, AtHand, MoveKeeps

LEMMA ConfigureKeeps ==
    ASSUME ConsoleInv, NEW c \in Changes, Configure(c)
    PROVE  ConsoleInv'
<1> DEFINE goes == IF change[c].next.ran /\ Current(change[c].next.set).is.on
                   THEN "start" ELSE "save"
           x == [change[c] EXCEPT !.at = goes]
<1>1. /\ change[c].at = "configure" /\ cfg' = Current(change[c].next.set)
      /\ UNCHANGED <<memory, db, botRuns, consoleCounts, tangled, unwritten, alone>>
      /\ change' = [change EXCEPT ![c].at = goes]
  BY DEF Configure, ChangeAt, consoleHistory, Goes
<1>2. change[c] \in Updates  BY <1>1, AtHand, FittingGives
<1>3. goes \in {"start", "save"}  OBVIOUS
<1> HIDE DEF goes
<1>4. /\ x \in Updates /\ x.at = goes /\ x.of = "profiles" /\ change[c].of = "profiles"
      /\ x.next = change[c].next /\ change[c].next.set \in SoundSets
  BY <1>2, <1>3 DEF Updates
<1>5. change' = [change EXCEPT ![c] = x] /\ change'[c] = x
  BY <1>1 DEF ConsoleInv, ConsoleTyped
<1> HIDE DEF x
<1>6. cfg' \in Own
  <2>1. change[c].next.set.active \in ProfileIds  BY <1>4 DEF SoundSets, ProfileSet
  <2> QED  BY <1>1, <1>4, <2>1, SetsMade
<1>7. "run" \in alone => ~botRuns  BY <1>1, AtHand DEF HasDone
<1>8. HasDone(c)'  BY <1>1, <1>3, <1>4, <1>5, <1>7 DEF HasDone, Current
<1>9. RunFits' /\ PluginsFit'
  BY <1>1, <1>4, <1>7, RunNoted, AtHand DEF RunFits, PluginsFit
<1>10. x \in Fitting /\ x.at # "idle"  BY <1>3, <1>4 DEF Fitting
<1> QED  BY <1>1, <1>4, <1>5, <1>6, <1>8, <1>9, <1>10, AtHand, MoveKeeps

LEMMA StartAgainKeeps ==
    ASSUME ConsoleInv, NEW c \in Changes, StartAgain(c)
    PROVE  ConsoleInv'
<1> DEFINE x == [change[c] EXCEPT !.at = "save"]
<1>1. /\ change[c].at = "start" /\ botRuns' = (botRuns \/ cfg.is.on)
      /\ UNCHANGED <<memory, db, cfg, consoleCounts, tangled, unwritten, alone>>
      /\ change' = [change EXCEPT ![c].at = "save"]
  BY DEF StartAgain, StartBot, ChangeAt, consoleHistory, Goes
<1>2. change[c] \in Updates  BY <1>1, AtHand, FittingGives
<1>3. /\ x \in Updates /\ x.at = "save" /\ x.of = "profiles" /\ change[c].of = "profiles"
      /\ x.next = change[c].next
  BY <1>2 DEF Updates
<1>4. change' = [change EXCEPT ![c] = x] /\ change'[c] = x
  BY <1>1 DEF ConsoleInv, ConsoleTyped
<1> HIDE DEF x
<1>5. botRuns' \in BOOLEAN  BY <1>1
<1>6. HasDone(c)'  BY <1>1, <1>3, <1>4, AtHand DEF HasDone, Current
<1>7. RunFits' /\ PluginsFit'  BY <1>1, AtHand DEF RunFits, PluginsFit
<1>8. x \in Fitting  BY <1>3 DEF Fitting
<1> QED  BY <1>1, <1>3, <1>4, <1>5, <1>6, <1>7, <1>8, AtHand, MoveKeeps

LEMMA ApplyCommandKeeps ==
    ASSUME ConsoleInv, NEW c \in Changes, ApplyCommand(c)
    PROVE  ConsoleInv'
<1> DEFINE x == [change[c] EXCEPT !.at = "saveCurrent"]
<1>1. /\ change[c].at = "apply" /\ cfg' = change[c].next
      /\ UNCHANGED <<memory, db, botRuns, consoleCounts, tangled, unwritten, alone>>
      /\ change' = [change EXCEPT ![c].at = "saveCurrent"]
  BY DEF ApplyCommand, ChangeAt, consoleHistory, Goes
<1>2. change[c] \in Commands  BY <1>1, AtHand, FittingGives
<1>3. /\ x \in Commands /\ x.at = "saveCurrent" /\ x.of = "profiles"
      /\ change[c].of = "profiles" /\ x.next = change[c].next /\ change[c].next \in Own
  BY <1>2 DEF Commands
<1>4. change' = [change EXCEPT ![c] = x] /\ change'[c] = x
  BY <1>1 DEF ConsoleInv, ConsoleTyped
<1> HIDE DEF x
<1>5. HasDone(c)'  BY <1>1, <1>3, <1>4 DEF HasDone
<1>6. "run" \notin tangled => cfg'.is.on = cfg.is.on
  BY <1>1, <1>3, RunNoted, AtHand DEF HasDone
<1>7. RunFits' /\ PluginsFit'  BY <1>1, <1>6, AtHand DEF RunFits, PluginsFit
<1>8. x \in Fitting /\ cfg' \in Own  BY <1>1, <1>3 DEF Fitting
<1> QED  BY <1>1, <1>3, <1>4, <1>5, <1>7, <1>8, AtHand, MoveKeeps

LEMMA SnapshotKeeps ==
    ASSUME ConsoleInv, NEW c \in Changes, Snapshot(c)
    PROVE  ConsoleInv'
<1> DEFINE x == [change[c] EXCEPT !.at = "write", !.next = memory.plugins]
<1>1. /\ change[c].at = "snapshot"
      /\ UNCHANGED <<memory, db, cfg, botRuns, consoleCounts, tangled, unwritten, alone>>
      /\ change' = [change EXCEPT ![c].at = "write", ![c].next = memory.plugins]
  BY DEF Snapshot, ChangeAt, consoleHistory
<1>2. change[c] \in Snapshots  BY <1>1, AtHand, FittingGives
<1>3. /\ x \in PluginWrites /\ x.at = "write" /\ x.of = "plugins"
      /\ change[c].of = "plugins" /\ x.next = memory.plugins
  <2>1. memory.plugins \in PluginStates  BY AtHand DEF Kept
  <2> QED  BY <1>2, <2>1 DEF Snapshots, PluginWrites
<1>4. change' = [change EXCEPT ![c] = x] /\ change'[c] = x
  BY <1>1 DEF ConsoleInv, ConsoleTyped
<1> HIDE DEF x
<1>5. HasDone(c)'  BY <1>1, <1>3, <1>4 DEF HasDone
<1>6. RunFits' /\ PluginsFit'  BY <1>1, AtHand DEF RunFits, PluginsFit
<1>7. x \in Fitting  BY <1>3 DEF Fitting
<1> QED  BY <1>1, <1>3, <1>4, <1>5, <1>6, <1>7, AtHand, MoveKeeps

LEMMA SaveProfilesKeeps ==
    ASSUME ConsoleInv, NEW c \in Changes, SaveProfiles(c)
    PROVE  ConsoleInv'
<1> DEFINE set == change[c].next.set
           x == [change[c] EXCEPT !.at = "write", !.next = set]
<1>1. /\ change[c].at = "save" /\ memory' = [memory EXCEPT !.profiles = set]
      /\ UNCHANGED <<db, cfg, botRuns, consoleCounts, unwritten, alone>>
      /\ change' = [change EXCEPT ![c].at = "write", ![c].next = @.set]
      /\ tangled' = IF "run" \in alone THEN tangled \ {"run"} ELSE tangled
  BY DEF SaveProfiles, ChangeAt
<1>2. change[c] \in Updates  BY <1>1, AtHand, FittingGives
<1>3. /\ x \in ProfileWrites /\ x.at = "write" /\ x.of = "profiles"
      /\ change[c].of = "profiles" /\ x.next = set /\ set \in SoundSets
  BY <1>2 DEF Updates, ProfileWrites
<1>4. change' = [change EXCEPT ![c] = x] /\ change'[c] = x
  BY <1>1 DEF ConsoleInv, ConsoleTyped
<1> HIDE DEF x
<1>5. /\ memory' \in Kept /\ memory'.profiles = set
      /\ \A t \in Settings \ {"profiles"} : memory'[t] = memory[t]
      /\ memory'.plugins = memory.plugins
  BY <1>1, <1>3, AtHand DEF Kept, Settings
<1>6. HasDone(c)'
  <2>1. "profiles" \in alone => cfg = Current(set)  BY <1>1, <1>3, AtHand DEF HasDone
  <2> HIDE DEF set
  <2>2. "profiles" \in alone' => cfg' = Current(memory'.profiles)
    BY <1>1, <1>5, <2>1
  <2>3. change'[c].at = "write" /\ change'[c].of = "profiles"
        /\ change'[c].next = memory'.profiles
    BY <1>3, <1>4, <1>5
  <2> QED  BY <2>2, <2>3 DEF HasDone, Current
<1>7. RunFits' /\ PluginsFit'  BY <1>1, <1>5, AtHand DEF RunFits, PluginsFit, HasDone
<1>8. tangled' \subseteq tangled /\ tangled \ tangled' \subseteq {"run"} \cap alone  BY <1>1
<1>9. x \in Fitting  BY <1>3 DEF Fitting
<1> QED  BY <1>1, <1>3, <1>4, <1>5, <1>6, <1>7, <1>8, <1>9, AtHand, MoveKeeps

LEMMA SaveCurrentConfigKeeps ==
    ASSUME ConsoleInv, NEW c \in Changes, SaveCurrentConfig(c)
    PROVE  ConsoleInv'
<1> DEFINE own == change[c].next
           next == Put(memory.profiles, own.id, own.is)
           x == [change[c] EXCEPT !.at = "write", !.next = next]
<1>1. /\ change[c].at = "saveCurrent" /\ memory' = [memory EXCEPT !.profiles = next]
      /\ UNCHANGED <<db, cfg, botRuns, consoleCounts, tangled, unwritten, alone>>
      /\ change' = [change EXCEPT ![c].at = "write", ![c].next = next]
  BY DEF SaveCurrentConfig, ChangeAt, consoleHistory
<1>2. change[c] \in Commands /\ own \in Own /\ change[c].of = "profiles"
  <2>1. change[c] \in Commands  BY <1>1, AtHand, FittingGives
  <2> QED  BY <2>1 DEF Commands
<1>3. next \in SoundSets /\ Current(next) = own
  <2>1. memory.profiles \in SoundSets /\ own.id \in ProfileIds /\ own.is \in Profile
    BY <1>2, AtHand DEF Kept, Own
  <2>2. next \in SoundSets /\ Current(next) = [id |-> own.id, is |-> own.is]
    BY <2>1, SetsMade
  <2> QED  BY <1>2, <2>2 DEF Own
<1> HIDE DEF next
<1>4. x \in ProfileWrites /\ x.at = "write" /\ x.of = "profiles" /\ x.next = next
  BY <1>2, <1>3 DEF Commands, ProfileWrites
<1>5. change' = [change EXCEPT ![c] = x] /\ change'[c] = x
  BY <1>1 DEF ConsoleInv, ConsoleTyped
<1> HIDE DEF x
<1>6. /\ memory' \in Kept /\ memory'.profiles = next
      /\ \A t \in Settings \ {"profiles"} : memory'[t] = memory[t]
      /\ memory'.plugins = memory.plugins
  BY <1>1, <1>3, AtHand DEF Kept, Settings
<1>7. HasDone(c)'
  <2>1. "profiles" \in alone => cfg = own  BY <1>1, <1>2, AtHand DEF HasDone
  <2>2. "profiles" \in alone' => cfg' = Current(memory'.profiles)
    BY <1>1, <1>3, <1>6, <2>1
  <2>3. change'[c].at = "write" /\ change'[c].of = "profiles"
        /\ change'[c].next = memory'.profiles
    BY <1>4, <1>5, <1>6
  <2> QED  BY <2>2, <2>3 DEF HasDone, Current
<1>8. RunFits' /\ PluginsFit'  BY <1>1, <1>6, AtHand DEF RunFits, PluginsFit
<1>9. x \in Fitting /\ x.at # "idle"  BY <1>4 DEF Fitting
<1> QED  BY <1>1, <1>2, <1>4, <1>5, <1>6, <1>7, <1>8, <1>9, AtHand, MoveKeeps

LEMMA SaveGroupConfigKeeps ==
    ASSUME ConsoleInv, NEW c \in Changes, SaveGroupConfig(c)
    PROVE  ConsoleInv'
<1> DEFINE next == change[c].next
           x == [change[c] EXCEPT !.at = "write"]
<1>1. /\ change[c].at = "saveGroup" /\ memory' = [memory EXCEPT !.group = next]
      /\ UNCHANGED <<db, cfg, botRuns, consoleCounts, tangled, unwritten, alone>>
      /\ change' = [change EXCEPT ![c].at = "write"]
  BY DEF SaveGroupConfig, ChangeAt, consoleHistory, Goes
<1>2. change[c] \in GroupSaves  BY <1>1, AtHand, FittingGives
<1>3. /\ x \in GroupWrites /\ x.at = "write" /\ x.of = "group" /\ change[c].of = "group"
      /\ x.next = next /\ next \in GroupConfig
  BY <1>2 DEF GroupSaves, GroupWrites
<1>4. change' = [change EXCEPT ![c] = x] /\ change'[c] = x
  BY <1>1 DEF ConsoleInv, ConsoleTyped
<1> HIDE DEF x
<1>5. /\ memory' \in Kept /\ memory'.group = next
      /\ \A t \in Settings \ {"group"} : memory'[t] = memory[t]
      /\ memory'.plugins = memory.plugins
  BY <1>1, <1>3, AtHand DEF Kept, Settings
<1>6. HasDone(c)'  BY <1>3, <1>4, <1>5 DEF HasDone
<1>7. RunFits' /\ PluginsFit'  BY <1>1, <1>5, AtHand DEF RunFits, PluginsFit
<1>8. x \in Fitting  BY <1>3 DEF Fitting
<1> QED  BY <1>1, <1>3, <1>4, <1>5, <1>6, <1>7, <1>8, AtHand, MoveKeeps

\* The write at the end of a change: made, or lost.
LEMMA WriteSettingKeeps ==
    ASSUME ConsoleInv, NEW c \in Changes, WriteSetting(c)
    PROVE  ConsoleInv'
<1> USE DEF ConsoleInv
<1> DEFINE s == change[c].of
           next == change[c].next
<1>1. /\ change[c].at = "write" /\ change' = [change EXCEPT ![c] = NoChange]
      /\ tangled' = IF s \in alone THEN tangled \ {s} ELSE tangled
      /\ UNCHANGED <<memory, cfg, botRuns, drawn, begun, reloads, alone>>
  BY DEF WriteSetting, ChangeAt
<1>2. \/ db' = [db EXCEPT ![s] = next] /\ unwritten' = unwritten \ {s} /\ failed' = failed
      \/ /\ failed < MaxUnwritten /\ failed' = failed + 1
         /\ unwritten' = unwritten \cup {s} /\ db' = db
  BY DEF WriteSetting
<1>3. /\ s \in Settings
      /\ s = "profiles" => next \in SoundSets
      /\ s = "plugins" => next \in PluginStates
      /\ s = "group" => next \in GroupConfig
  <2>1. change[c] \in Fitting /\ change[c].at # "idle"  BY <1>1 DEF ConsoleTyped
  <2> QED  BY <1>1, <2>1, FittingGives
<1>4. Only(c, NoChange)
  <2>1. NoChange \in Fitting  BY DEF Fitting
  <2> QED  BY <1>1, <2>1, OneMoves DEF ConsoleTyped
<1>5. \A d \in Changes : change'[d].of = IF d = c THEN "none" ELSE change[d].of
  BY <1>4 DEF Only, NoChange
<1>6. "none" \notin Settings /\ "run" \notin Settings /\ s # "none" /\ s # "run"
  BY <1>3 DEF Settings
<1>7. s \in alone \cup tangled /\ HasDone(c)
  BY <1>3 DEF OverlapsNoted, OrderKept, UnderWay, Aspects
<1>8. db' \in Kept /\ \A t \in Settings \ {s} : db'[t] = db[t]
  <2>1. CASE db' = [db EXCEPT ![s] = next]
    <3>1. db \in [profiles : SoundSets, plugins : PluginStates, group : GroupConfig]
      BY DEF ConsoleTyped, Kept
    <3> HIDE DEF s, next
    <3>2. s \in {"profiles", "plugins", "group"}  BY <1>3 DEF Settings
    <3> QED  BY <1>3, <2>1, <3>1, <3>2 DEF Kept, Settings
  <2>2. CASE db' = db  BY <2>2 DEF ConsoleTyped
  <2> QED  BY <1>2, <2>1, <2>2
<1>9. failed' \in 0 .. MaxUnwritten  BY <1>2, ConsoleNumbers DEF ConsoleTyped
<1>10. ConsoleTyped'
  <2>1. {tangled', unwritten', alone'} \subseteq SUBSET (Settings \cup {"run"})
    BY <1>1, <1>2, <1>3 DEF ConsoleTyped
  <2> QED  BY <1>1, <1>4, <1>8, <1>9, <2>1 DEF ConsoleTyped, Only
<1>11. PluginsFit'  BY <1>1 DEF PluginsFit
<1>12. OverlapsNoted'
  <2>1. \A t \in Settings \cap alone' : \A d, e \in Changes :
           change'[d].of = t /\ change'[e].of = t => d = e
    BY <1>1, <1>5, <1>6 DEF OverlapsNoted, UnderWay
  <2>2. ASSUME NEW t \in Settings, NEW d \in Changes, change'[d].of = t
        PROVE  Aspects(t) \subseteq alone' \cup tangled'
    <3>1. Aspects(t) \subseteq alone \cup tangled
      BY <1>5, <1>6, <2>2 DEF OverlapsNoted, UnderWay
    <3> QED  BY <1>1, <3>1
  <2> QED  BY <1>1, <2>1, <2>2 DEF OverlapsNoted, UnderWay
<1>13. ASSUME NEW d \in Changes  PROVE HasDone(d)'
  <2>1. CASE d = c
    <3>1. change'[d] = NoChange  BY <1>4, <2>1 DEF Only
    <3> QED  BY <3>1 DEF HasDone, NoChange
  <2>2. CASE d # c
    <3>1. change'[d] = change[d] /\ HasDone(d)  BY <1>4, <2>2 DEF Only, OrderKept
    <3> QED  BY <1>1, <3>1 DEF HasDone, Current
  <2> QED  BY <2>1, <2>2
<1>14. "run" \in tangled' <=> "run" \in tangled
  BY <1>1, <1>6
<1>15. RunFits'  BY <1>1, <1>14 DEF RunFits
<1>16. RuntimeHasProfile'
  <2>1. Settled("profiles")' /\ s # "profiles" => Settled("profiles")
    BY <1>1, <1>5 DEF Settled, UnderWay
  <2>2. Settled("profiles")' /\ s = "profiles" => cfg = Current(memory.profiles)
    BY <1>1, <1>7 DEF Settled, HasDone
  <2>3. Settled("profiles")' => cfg' = Current(memory.profiles)'
    BY <1>1, <2>1, <2>2 DEF RuntimeHasProfile, Current
  <2> QED  BY <1>15, <2>3 DEF RuntimeHasProfile, RunFits
<1>17. RestartKeepsSettings'
  <2>1. ASSUME NEW t \in Settings \ unwritten', \A d \in Changes : change'[d].of # t,
               t \notin tangled'
        PROVE  IF t = "plugins"
               THEN {p \in Plugins : db'.plugins[p].enabled}
                       = {p \in Plugins : memory'.plugins[p].installed
                                          /\ memory'.plugins[p].enabled}
               ELSE db'[t] = memory'[t]
    <3>1. CASE t = s
      <4>1. db' = [db EXCEPT ![s] = next] /\ db'[s] = next
        BY <1>2, <1>3, <2>1, <3>1 DEF ConsoleTyped, Kept, Settings
      <4>2. next = memory[s]  BY <1>1, <1>7, <2>1, <3>1 DEF HasDone
      <4>3. db'[t] = memory'[t]  BY <1>1, <3>1, <4>1, <4>2
      <4>4. t = "plugins" => \A p \in Plugins : memory'.plugins[p].enabled =>
                                                memory'.plugins[p].installed
        BY <1>11 DEF PluginsFit
      <4> QED  BY <4>3, <4>4
    <3>2. CASE t # s
      <4>1. t \notin unwritten /\ t \notin tangled /\ \A d \in Changes : change[d].of # t
        BY <1>1, <1>2, <1>5, <2>1, <3>2
      <4>2. db'[t] = db[t] /\ memory' = memory  BY <1>1, <1>8, <3>2
      <4> QED  BY <4>1, <4>2, RestartSame
    <3> QED  BY <3>1, <3>2
  <2> QED  BY <2>1, RestartPrimed
<1> QED  BY <1>10, <1>11, <1>12, <1>13, <1>15, <1>16, <1>17 DEF OrderKept

\* The buttons, and steps that change nothing
LEMMA PressKeeps ==
    ASSUME ConsoleInv, UNCHANGED <<memory, db, cfg, change, consoleCounts, unwritten>>,
           \/ UNCHANGED <<tangled, alone, botRuns>>
           \/ Disturb /\ (StartBot \/ botRuns' = FALSE)
    PROVE  ConsoleInv'
<1> USE DEF ConsoleInv
<1>1. /\ UNCHANGED <<drawn, begun, failed, reloads>> /\ botRuns' \in BOOLEAN
      /\ botRuns' => botRuns \/ cfg.is.on
  <2>1. botRuns' = botRuns \/ botRuns' = FALSE \/ botRuns' = (botRuns \/ cfg.is.on)
    BY DEF Disturb, StartBot
  <2>2. botRuns \in BOOLEAN /\ cfg.is.on \in BOOLEAN
    BY DEF ConsoleTyped, Own, Profile
  <2>3. botRuns' \in BOOLEAN /\ (botRuns' => botRuns \/ cfg.is.on)
    <3>1. CASE botRuns' = botRuns  BY <2>2, <3>1
    <3>2. CASE botRuns' = FALSE  BY <3>2
    <3>3. CASE botRuns' = (botRuns \/ cfg.is.on)  BY <3>3
    <3> QED  BY <2>1, <3>1, <3>2, <3>3
  <2>4. UNCHANGED <<drawn, begun, failed, reloads>>  BY DEF consoleCounts
  <2> QED  BY <2>3, <2>4
<1>2. \/ UNCHANGED <<tangled, alone, botRuns>>
      \/ /\ \A d \in Changes : change[d].of # "profiles"
         /\ UNCHANGED <<tangled, alone>>
      \/ /\ alone' = alone \ {"run"} /\ tangled' = tangled \cup {"run"}
  BY DEF Disturb, UnderWay
<1>3. ConsoleTyped' /\ PluginsFit'
  BY <1>1, <1>2 DEF ConsoleTyped, PluginsFit
<1>4. "run" \notin Settings  BY DEF Settings
<1>5. OverlapsNoted'
  <2>1. alone' \subseteq alone /\ alone \cup tangled \subseteq alone' \cup tangled'
        /\ ("profiles" \in alone' <=> "profiles" \in alone)
    BY <1>2
  <2> QED  BY <2>1 DEF OverlapsNoted, UnderWay
<1>6. ASSUME NEW d \in Changes  PROVE HasDone(d)'
  <2>1. change'[d] = change[d] /\ HasDone(d) /\ UNCHANGED <<memory, cfg>>
    BY DEF OrderKept
  <2>2. change[d].of \in alone' => change[d].of \in alone  BY <1>2
  <2>3. "run" \in alone' /\ change[d].at \in {"configure", "start", "save"} =>
           "run" \in alone /\ botRuns' = botRuns
    <3>1. change[d].at \in {"configure", "start", "save"} => change[d].of = "profiles"
      BY FittingGives DEF ConsoleTyped
    <3> QED  BY <1>2, <3>1
  <2> QED  BY <2>1, <2>2, <2>3 DEF HasDone, Current
<1>7. RunFits'  BY <1>1, <1>2 DEF RunFits
<1>8. \A s \in Settings : s \in tangled' <=> s \in tangled  BY <1>2, <1>4
<1>9. RuntimeHasProfile'
  <2>1. Settled("profiles")' => Settled("profiles")
    BY <1>8 DEF Settled, UnderWay, Settings
  <2> QED  BY <1>7, <2>1 DEF RuntimeHasProfile, RunFits, Current
<1>10. RestartKeepsSettings'  BY <1>8, RestartSame, RestartPrimed
<1> QED  BY <1>3, <1>5, <1>6, <1>7, <1>9, <1>10 DEF OrderKept

\* Sets of profiles and plugins are read back as they were written.
LEMMA ReloadKeeps ==
    ASSUME ConsoleInv, Reload
    PROVE  ConsoleInv'
<1> USE DEF ConsoleInv
<1> DEFINE back == [p \in Plugins |-> [installed |-> TRUE, enabled |-> db.plugins[p].enabled]]
<1>1. /\ reloads < MaxReloads /\ reloads' = reloads + 1
      /\ memory' = [db EXCEPT !.plugins = back]
      /\ cfg' = Current(db.profiles) /\ botRuns' = cfg'.is.on
      /\ change' = [c \in Changes |-> NoChange]
      /\ tangled' = {} /\ unwritten' = {} /\ alone' = {}
      /\ UNCHANGED <<db, drawn, begun, failed>>
  BY DEF Reload, Restored
<1>2. /\ db \in Kept /\ db.profiles \in SoundSets /\ db.plugins \in PluginStates
  BY DEF ConsoleTyped, Kept
<1>3. /\ back \in PluginStates
      /\ \A p \in Plugins : back[p].installed
      /\ \A p \in Plugins : back[p].enabled = db.plugins[p].enabled
  BY <1>2 DEF PluginStates
<1> HIDE DEF back
<1>4. /\ memory' \in Kept /\ memory'.profiles = db.profiles /\ memory'.group = db.group
      /\ memory'.plugins = back
  BY <1>1, <1>2, <1>3 DEF Kept
<1>5. cfg' \in Own /\ cfg'.is.on \in BOOLEAN
  <2>1. db.profiles.active \in ProfileIds  BY <1>2 DEF SoundSets, ProfileSet
  <2>2. cfg' \in Own  BY <1>1, <1>2, <2>1, SetsMade
  <2> QED  BY <2>2 DEF Own, Profile
<1>6. \A c \in Changes : change'[c] = NoChange /\ change'[c].of = "none"
  BY <1>1 DEF NoChange
<1>7. "none" \notin Settings  BY DEF Settings
<1>8. ConsoleTyped'
  <2>1. change' \in [Changes -> Fitting]  BY <1>1 DEF Fitting
  <2>2. reloads' \in 0 .. MaxReloads  BY <1>1, ConsoleNumbers DEF ConsoleTyped
  <2> QED  BY <1>1, <1>2, <1>4, <1>5, <2>1, <2>2 DEF ConsoleTyped
<1>9. PluginsFit'  BY <1>3, <1>4 DEF PluginsFit
<1>10. OverlapsNoted'  BY <1>1, <1>6, <1>7 DEF OverlapsNoted, UnderWay
<1>11. OrderKept'  BY <1>1 DEF OrderKept, HasDone
<1>12. RunFits'  BY <1>1 DEF RunFits
<1>13. RuntimeHasProfile'
  BY <1>1, <1>4 DEF RuntimeHasProfile, Current
<1>14. RestartKeepsSettings'
  <2>1. \A s \in Settings \ {"plugins"} : db'[s] = memory'[s]
    BY <1>1, <1>4 DEF Settings
  <2>2. {p \in Plugins : db'.plugins[p].enabled}
           = {p \in Plugins : memory'.plugins[p].installed /\ memory'.plugins[p].enabled}
    BY <1>1, <1>3, <1>4
  <2> QED  BY <2>1, <2>2, RestartPrimed
<1> QED  BY <1>8, <1>9, <1>10, <1>11, <1>12, <1>13, <1>14

-----------------------------------------------------------------------------
(* The console: theorems. *)

LEMMA ConsoleBegins == ConsoleInit => ConsoleInv
<1> SUFFICES ASSUME ConsoleInit PROVE ConsoleInv
  OBVIOUS
<1> DEFINE first == [active |-> 1, has |-> [id \in ProfileIds |-> id = 1],
                     of |-> [id \in ProfileIds |->
                                IF id = 1 THEN [on |-> TRUE, silenced |-> FALSE]
                                ELSE Absent]]
           all == [p \in Plugins |-> [installed |-> TRUE, enabled |-> TRUE]]
           none == [level |-> 0, chance |-> 0]
<1>1. /\ memory = [profiles |-> first, plugins |-> all, group |-> none]
      /\ db = memory /\ cfg = Current(memory.profiles) /\ botRuns = TRUE
      /\ change = [c \in Changes |-> NoChange]
      /\ drawn = 1 /\ begun = 0 /\ failed = 0 /\ reloads = 0
      /\ tangled = {} /\ unwritten = {} /\ alone = {}
  BY DEF ConsoleInit
<1>2. first \in SoundSets /\ first.of[first.active].on = TRUE
  <2>1. Absent \in Profile /\ [on |-> TRUE, silenced |-> FALSE] \in Profile
    BY DEF Absent, Profile
  <2> QED  BY <2>1, ConsoleNumbers DEF SoundSets, ProfileSet, Present
<1>3. /\ all \in PluginStates /\ none \in GroupConfig
      /\ \A p \in Plugins : all[p].installed /\ all[p].enabled
  BY DEF PluginStates, GroupConfig
<1> HIDE DEF first, all, none
<1>4. /\ memory \in Kept /\ memory.profiles = first /\ memory.plugins = all
      /\ db = memory /\ \A s \in Settings : db[s] = memory[s]
  BY <1>1, <1>2, <1>3 DEF Kept
<1>5. cfg \in Own /\ cfg.is.on = TRUE /\ cfg = Current(memory.profiles)
  <2>1. first.active \in ProfileIds  BY <1>2 DEF SoundSets, ProfileSet
  <2>2. Current(first) \in Own /\ Current(first).is = first.of[first.active]
    BY <1>2, <2>1, SetsMade
  <2> QED  BY <1>1, <1>2, <1>4, <2>2
<1>6. \A c \in Changes : change[c] = NoChange /\ change[c].of = "none"
  BY <1>1 DEF NoChange
<1>7. "none" \notin Settings  BY DEF Settings
<1>8. ConsoleTyped
  <2>1. change \in [Changes -> Fitting]  BY <1>1 DEF Fitting
  <2> QED  BY <1>1, <1>4, <1>5, <2>1, ConsoleNumbers DEF ConsoleTyped
<1>9. PluginsFit  BY <1>3, <1>4 DEF PluginsFit
<1>10. OverlapsNoted  BY <1>1, <1>6, <1>7 DEF OverlapsNoted, UnderWay
<1>11. OrderKept  BY <1>1 DEF OrderKept, HasDone
<1>12. RunFits /\ RuntimeHasProfile  BY <1>1, <1>5 DEF RunFits, RuntimeHasProfile
<1>13. RestartKeepsSettings
  BY <1>3, <1>4 DEF RestartKeepsSettings, PluginsEnabled, Restored
<1> QED  BY <1>8, <1>9, <1>10, <1>11, <1>12, <1>13 DEF ConsoleInv

LEMMA ConsoleStep == ConsoleInv /\ [ConsoleNext]_consoleVars => ConsoleInv'
<1> SUFFICES ASSUME ConsoleInv, [ConsoleNext]_consoleVars PROVE ConsoleInv'
  OBVIOUS
<1>1. ASSUME NEW c \in Changes,
             \/ AskProfiles(c) \/ StopOld(c) \/ Configure(c) \/ StartAgain(c) \/ SaveProfiles(c)
             \/ OwnerCommand(c) \/ ApplyCommand(c) \/ SaveCurrentConfig(c)
             \/ ChangePlugin(c) \/ Snapshot(c)
             \/ AskGroup(c) \/ SaveGroupConfig(c) \/ WriteSetting(c)
      PROVE  ConsoleInv'
  BY <1>1, AskProfilesKeeps, StopOldKeeps, ConfigureKeeps, StartAgainKeeps,
     SaveProfilesKeeps, OwnerCommandKeeps, ApplyCommandKeeps, SaveCurrentConfigKeeps,
     ChangePluginKeeps, SnapshotKeeps, AskGroupKeeps, SaveGroupConfigKeeps,
     WriteSettingKeeps
<1>2. CASE PressStart \/ PressStop
  BY <1>2, PressKeeps DEF PressStart, PressStop, Disturb
<1>3. CASE Reload  BY <1>3, ReloadKeeps
<1>4. CASE UNCHANGED consoleVars
  BY <1>4, PressKeeps DEF consoleVars, consoleHistory
<1> QED  BY <1>1, <1>2, <1>3, <1>4 DEF ConsoleNext

\* The invariant of the console: who changed what alone, that a change that is
\* alone is done in order, and what runtime and table have once it is through
\* (webui/qqbot.go, owner commands, PluginManager).
THEOREM ConsoleIsSound == ConsoleSpec => []ConsoleInv
<1> QED  BY ConsoleBegins, ConsoleStep, PTL DEF ConsoleSpec

\* Console, runtime and table agree on the settings once changes are through,
\* for any plugins, profiles and requests.
THEOREM ConsoleIsSafe == ConsoleSpec => []ConsoleSafe
<1>1. ConsoleInv => ConsoleTypeOK
  BY DEF ConsoleInv, ConsoleTyped, Kept, SoundSets, PluginStates, Own, ConsoleTypeOK
<1>2. ConsoleInv => ConsoleSafe  BY <1>1 DEF ConsoleInv, ConsoleSafe
<1> QED  BY <1>2, ConsoleIsSound, PTL
=============================================================================
