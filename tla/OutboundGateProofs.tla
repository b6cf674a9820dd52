------------------------- MODULE OutboundGateProofs -------------------------
(***************************************************************************)
(* Proofs about the way out.  OutboundGate: the gate's mutex, its fields   *)
(* and its budget of attempts, for any number of sends, delays, windows    *)
(* and runs.  The inductive invariant is GateInductive with the types.     *)
(* OneBotLink: an answer reaches its own call, for any number of           *)
(* connections and calls.  The inductive invariant is LinkInv.             *)
(***************************************************************************)
EXTENDS OutboundGate, OneBotLink, TLAPS

\* The steps of one send, and the steps around it.
Sending(s) == Enter(s) \/ SendStep(s) \/ Expire(s)
Around == Leave \/ Rejoin \/ NewerEvent \/ Stop \/ Start \/ Signal

\* The constants as numbers, and what DelayAfter returns: at least one tick.
LEMMA Numbers ==
    /\ FailureWindow \in Nat /\ FailureWindow > 0
    /\ DropCooldown \in Nat /\ DropCooldown > 0
    /\ MaximumDelay \in Nat /\ MaximumDelay > 0
    /\ \A n \in 0 .. FailureWindow + 2 : DelayAfter(n) \in 1 .. MaximumDelay
BY GateConstants DEF DelayAfter, AtMost

\* One more failure, seen from the gate's fields.
LEMMA FailedFields ==
    ASSUME NEW g \in Gates
    PROVE  /\ Failed(g) \in Gates
           /\ Failed(g).failures =
                IF g.failures < FailureWindow + 2 THEN g.failures + 1
                ELSE FailureWindow + 2
           /\ Failed(g).age = IF g.age = -1 THEN 0 ELSE g.age
           /\ Failed(g).wait >= 1
           /\ Failed(g).drop = g.drop
<1>1. g.failures \in 0 .. FailureWindow + 2 /\ g.age \in -1 .. FailureWindow
  BY DEF Gates
<1>2. DelayAfter(g.failures) \in 1 .. MaximumDelay
  BY <1>1, Numbers
<1>3. OneMore(g.failures) = IF g.failures < FailureWindow + 2
                            THEN g.failures + 1 ELSE FailureWindow + 2
  BY <1>1, Numbers DEF OneMore, AtMost
<1>4. /\ OneMore(g.failures) \in 0 .. FailureWindow + 2
      /\ (IF g.age = -1 THEN 0 ELSE g.age) \in -1 .. FailureWindow
      /\ DelayAfter(g.failures) \in 0 .. MaximumDelay
      /\ DelayAfter(g.failures) >= 1
  BY <1>1, <1>2, <1>3, Numbers
<1>5. Failed(g) \in Gates
  BY <1>4 DEF Failed, Gates
<1> QED  BY <1>3, <1>4, <1>5 DEF Failed, Gates

\* A cooldown keeps the count and the window and clears the delay.
LEMMA CooledFields ==
    ASSUME NEW g \in Gates
    PROVE  /\ Cooled(g) \in Gates
           /\ Cooled(g).failures = g.failures /\ Cooled(g).age = g.age
           /\ Cooled(g).wait = 0 /\ Cooled(g).drop = DropCooldown
<1>1. 0 \in 0 .. MaximumDelay /\ DropCooldown \in -1 .. DropCooldown
  BY Numbers
<1> QED  BY <1>1 DEF Cooled, Gates

\* A fresh gate is a gate.
LEMMA FreshFields == Fresh \in Gates
BY Numbers DEF Fresh, Gates

\* The shapes at the start.
LEMMA ShapesInit == Init => ShapesOK
BY FreshFields, GateConstants DEF Init, ShapesOK

\* The flags take their values from constants and from each other.
LEMMA FlagsStep == FlagsOK /\ [Next]_vars => FlagsOK'
BY Zenon DEF FlagsOK, Next, SendStep, Enter, Lock, Check, Wait, CallSucceeds,
     CallFails, Expire, Leave, Rejoin, NewerEvent, Stop, Start, Signal, Tick,
     vars, group, life

\* A step of a send keeps the shapes.
LEMMA ShapesSending ==
    ASSUME ShapesOK, NEW s \in Sends, Sending(s)
    PROVE  ShapesOK'
<1> USE DEF ShapesOK, Goto, Inside, Over, group, life
<1>1. CASE Enter(s)  BY <1>1 DEF Enter
<1>2. CASE Lock(s)  BY <1>2 DEF Lock
<1>3. CASE Check(s)
  BY <1>3, FreshFields, CooledFields DEF Check, GiveUp, Attempt
<1>4. CASE Wait(s)
  BY <1>4, CooledFields DEF Wait, GiveUp, Attempt
<1>5. CASE CallSucceeds(s)  BY <1>5, FreshFields DEF CallSucceeds
<1>6. CASE CallFails(s)
  BY <1>6, FailedFields, CooledFields DEF CallFails
<1>7. CASE Expire(s)  BY <1>7 DEF Expire
<1> QED  BY <1>1, <1>2, <1>3, <1>4, <1>5, <1>6, <1>7 DEF Sending, SendStep

\* So does every other step but the passing of time.
LEMMA ShapesAround == ShapesOK /\ Around => ShapesOK'
BY GateConstants DEF ShapesOK, Around, Leave, Rejoin, NewerEvent, Stop, Start,
     Signal, group, life

\* What a tick does to the gate.
LEMMA TickFields ==
    ASSUME gate \in Gates, Tick
    PROVE  /\ gate' \in Gates
           /\ gate'.failures = gate.failures
           /\ gate'.age = IF gate.age \in {-1, FailureWindow} THEN gate.age
                          ELSE gate.age + 1
           /\ gate'.wait = IF gate.wait > 0 THEN gate.wait - 1 ELSE 0
           /\ gate'.drop = IF gate.drop > 0 THEN gate.drop - 1 ELSE gate.drop
<1>1. /\ gate.age \in -1 .. FailureWindow /\ gate.wait \in 0 .. MaximumDelay
      /\ gate.drop \in -1 .. DropCooldown
  BY DEF Gates
<1>2. gate' = [gate EXCEPT !.age = gate'.age, !.wait = gate'.wait,
                           !.drop = gate'.drop]
  BY DEF Tick, Gates
<1>3. /\ gate'.age = IF gate.age \in {-1, FailureWindow} THEN gate.age
                      ELSE gate.age + 1
      /\ gate'.wait = Elapse(gate.wait) /\ gate'.drop = Elapse(gate.drop)
  BY DEF Tick, Gates
<1>4. /\ gate'.age \in -1 .. FailureWindow /\ gate'.wait \in 0 .. MaximumDelay
      /\ gate'.drop \in -1 .. DropCooldown
  BY <1>1, <1>3, Numbers DEF Elapse
<1>5. gate' \in Gates /\ gate'.failures = gate.failures
  BY <1>2, <1>4 DEF Gates
<1> QED  BY <1>1, <1>3, <1>5 DEF Elapse

\* The types hold at the start.
LEMMA TypeInit == Init => TypeOK
<1>1. Init => FlagsOK  BY DEF Init, FlagsOK
<1> QED  BY <1>1, ShapesInit DEF TypeOK

\* The types are kept.
LEMMA TypeStep == TypeOK /\ [Next]_vars => TypeOK'
<1> SUFFICES ASSUME ShapesOK, [Next]_vars PROVE ShapesOK'
  BY FlagsStep DEF TypeOK
<1>1. CASE Tick  BY <1>1, TickFields DEF ShapesOK, Tick, group, life
<1>2. CASE UNCHANGED vars  BY <1>2 DEF ShapesOK, vars, group, life
<1> QED  BY <1>1, <1>2, ShapesSending, ShapesAround DEF Next, Sending, Around

\* Type correctness of the gate, its sends and the runtime's flags.
THEOREM GateTypeCorrect == Spec => []TypeOK
BY TypeInit, TypeStep, PTL DEF Spec

-----------------------------------------------------------------------------
\* Steps of a send move only that send.
LEMMA OthersStay ==
    ASSUME TypeOK, NEW s \in Sends, Sending(s), NEW t \in Sends, t # s
    PROVE  pc'[t] = pc[t]
BY DEF TypeOK, ShapesOK, Sending, SendStep, Enter, Lock, Check, Wait, CallSucceeds,
       CallFails, Expire, GiveUp, Attempt, Goto

\* A send comes under the lock only when nobody is there.
LEMMA EntersAlone ==
    ASSUME TypeOK, NEW s \in Sends, Sending(s), pc[s] \notin Inside,
           pc'[s] \in Inside
    PROVE  Holders = {}
BY DEF TypeOK, ShapesOK, Sending, SendStep, Enter, Lock, Check, Wait, CallSucceeds,
       CallFails, Expire, Goto, Inside

\* So the lock keeps its one holder.
LEMMA ExclusionSending ==
    ASSUME TypeOK, OneAtATime, NEW s \in Sends, Sending(s)
    PROVE  OneAtATime'
<1> SUFFICES ASSUME NEW t \in Sends, NEW u \in Sends, t # u,
                    pc'[t] \in Inside, pc'[u] \in Inside
             PROVE  FALSE
  BY DEF OneAtATime, Holders
<1>1. CASE t # s /\ u # s
  BY <1>1, OthersStay DEF OneAtATime, Holders
<1>2. CASE t = s
  <2>1. pc[u] \in Inside  BY <1>2, OthersStay
  <2>2. pc[s] \in Inside  BY <2>1, <1>2, EntersAlone DEF Holders
  <2> QED  BY <2>1, <2>2, <1>2 DEF OneAtATime, Holders
<1>3. CASE u = s
  <2>1. pc[t] \in Inside  BY <1>3, OthersStay
  <2>2. pc[s] \in Inside  BY <2>1, <1>3, EntersAlone DEF Holders
  <2> QED  BY <2>1, <2>2, <1>3 DEF OneAtATime, Holders
<1> QED  BY <1>1, <1>2, <1>3

\* The invariant but for the exclusion, as a predicate of the gate's fields
\* and of what its holder does.
Sound(g) ==
    /\ g.failures = 0 <=> g.age = -1
    /\ g.wait > 0 \/ g.drop >= 0 => g.failures > 0
    /\ g.wait > 0 => g.drop = -1
    /\ g.failures <= FailureWindow + 1
    /\ g.failures > 0 /\ g.drop = -1
         => g.failures <= g.age + g.wait /\ g.failures <= FailureWindow

Fits(there, g) ==
    /\ there \in {"wait", "call"} => g.drop = -1
    /\ there = "call" => g.wait = 0
    /\ there = "wait" => g.failures > 0

\* The two predicates make up the invariant.
LEMMA Apart ==
    GateInductive <=>
      /\ OneAtATime /\ Sound(gate) /\ \A s \in Sends : Fits(pc[s], gate)
BY DEF GateInductive, GateCoherent, AttemptsBounded, Budgeted, Sound, Fits

\* A fresh gate is sound, and QQ may be called with it.
LEMMA FreshSound == Sound(Fresh) /\ \A there : there # "wait" => Fits(there, Fresh)
BY Numbers DEF Sound, Fits, Fresh

\* A cooldown keeps a gate sound, provided something has failed.
LEMMA CooledSound ==
    ASSUME NEW g \in Gates, Sound(g), g.failures > 0
    PROVE  Sound(Cooled(g))
BY CooledFields, Numbers DEF Sound, Gates

\* What a send does to the gate: it stays sound and fits what the send does
\* next.
LEMMA SoundSending ==
    ASSUME TypeOK, Sound(gate), NEW s \in Sends, Fits(pc[s], gate), Sending(s)
    PROVE  Sound(gate') /\ Fits(pc'[s], gate')
<1>0. gate \in Gates /\ pc \in [Sends -> {"new", "queued"} \cup Inside \cup Over]
  BY DEF TypeOK, ShapesOK
<1>1. CASE Enter(s)  BY <1>0, <1>1 DEF Enter, Goto, Fits
<1>2. CASE Lock(s)  BY <1>0, <1>2 DEF Lock, Goto, Fits
<1>3. CASE Check(s)
  <2> DEFINE g == IF gate.drop = 0 THEN Fresh ELSE gate
  <2>1. g \in Gates /\ Sound(g)  BY <1>0, FreshFields, FreshSound
  <2>2. CASE Ended(s)
    <3>1. gate.failures \in Nat  BY <1>0, Numbers DEF Gates
    <3>2. CASE gate' = gate /\ pc'[s] = "cancelled"  BY <3>2 DEF Fits
    <3>3. CASE gate.failures # 0 /\ gate' = Cooled(gate) /\ pc'[s] = "dropped"
      BY <1>0, <3>1, <3>3, CooledSound DEF Fits
    <3> QED  BY <1>0, <1>3, <2>2, <3>2, <3>3 DEF Check, GiveUp, Goto
  <2>3. CASE ~Ended(s) /\ (g.drop > 0 \/ g.age >= FailureWindow)
    <3>1. pc'[s] = "dropped" /\ gate' = IF g.drop > 0 THEN g ELSE Cooled(g)
      BY <1>0, <1>3, <2>3 DEF Check, Goto, Fresh
    <3>2. g.drop <= 0 => g.failures > 0
      BY <2>1, <2>3, Numbers DEF Sound, Gates
    <3>3. g.drop > 0 \/ g.drop <= 0  BY <2>1, Numbers DEF Gates
    <3> HIDE DEF g
    <3> QED  BY <2>1, <3>1, <3>2, <3>3, CooledSound DEF Fits
  <2>4. CASE ~Ended(s) /\ ~(g.drop > 0 \/ g.age >= FailureWindow)
    <3>1. gate' = g /\ pc'[s] = IF g.wait > 0 THEN "wait" ELSE "call"
      BY <1>0, <1>3, <2>4 DEF Check, Attempt, Goto
    <3>2. g.drop = -1
      BY <2>1, <2>4 DEF Gates, Fresh
    <3> QED  BY <2>1, <3>1, <3>2 DEF Fits, Gates, Sound
  <2> QED  BY <2>2, <2>3, <2>4
<1>4. CASE Wait(s)
  <2>1. CASE gate.wait = 0 /\ gate' = gate /\ pc'[s] = "call"
    BY <1>0, <1>4, <2>1 DEF Wait, Fits
  <2>2. CASE gate' = gate /\ pc'[s] = "cancelled"  BY <2>2 DEF Fits
  <2>3. CASE gate.failures > 0 /\ gate' = Cooled(gate) /\ pc'[s] = "dropped"
    BY <1>0, <2>3, CooledSound DEF Fits
  <2>4. gate.failures > 0  BY <1>4 DEF Wait, Fits
  <2> QED  BY <1>0, <1>4, <2>1, <2>2, <2>3, <2>4 DEF Wait, GiveUp, Attempt, Goto
<1>5. CASE CallSucceeds(s)
  BY <1>0, <1>5, FreshSound DEF CallSucceeds, Goto
<1>6. CASE CallFails(s)
  <2> DEFINE g == Failed(gate)
  <2>1. gate.drop = -1 /\ gate.wait = 0
    BY <1>6 DEF CallFails, Fits
  <2>2. gate.failures > 0 => gate.failures <= gate.age /\ gate.failures <= FailureWindow
    BY <1>0, <2>1, Numbers DEF Sound, Gates
  <2>3. /\ g \in Gates /\ g.drop = -1 /\ g.wait >= 1
        /\ g.failures = gate.failures + 1
        /\ g.age = IF gate.age = -1 THEN 0 ELSE gate.age
    BY <1>0, <2>1, <2>2, FailedFields, Numbers DEF Gates
  <2>4. /\ gate.failures \in Nat /\ gate.age \in Int /\ g.age \in Nat
        /\ g.wait \in Nat /\ g.failures <= FailureWindow + 1
    BY <1>0, <2>2, <2>3, Numbers DEF Gates
  <2>5. CASE gate' = gate /\ pc'[s] = "unavailable"  BY <2>5 DEF Fits
  <2>6. CASE g.age >= FailureWindow /\ gate' = Cooled(g) /\ pc'[s] = "dropped"
    <3>1. /\ gate'.failures = g.failures /\ gate'.age = g.age
          /\ gate'.wait = 0 /\ gate'.drop = DropCooldown
      BY <2>3, <2>6, CooledFields
    <3> QED  BY <2>3, <2>4, <2>6, <3>1, Numbers DEF Sound, Fits
  <2>7. CASE g.age < FailureWindow /\ gate' = g /\ pc'[s] \in {"failed", "loop"}
    <3>1. g.failures <= g.age + 1
      BY <2>2, <2>3, <2>4 DEF Sound
    <3> QED  BY <2>3, <2>4, <2>7, <3>1, Numbers DEF Sound, Fits
  <2> QED  BY <1>0, <1>6, <2>4, <2>5, <2>6, <2>7, Numbers DEF CallFails, Goto
<1>7. CASE Expire(s)  BY <1>0, <1>7 DEF Expire
<1> QED  BY <1>1, <1>2, <1>3, <1>4, <1>5, <1>6, <1>7 DEF Sending, SendStep

\* A send that neither waits nor calls fits any gate.
LEMMA OutsideFits ==
    ASSUME NEW g, NEW there, there \notin Inside
    PROVE  Fits(there, g)
BY DEF Fits, Inside

\* Time keeps the gate sound: what it takes from the delay it adds to the
\* window.
LEMMA SoundTick ==
    ASSUME TypeOK, Sound(gate), Tick
    PROVE  /\ Sound(gate')
           /\ \A s \in Sends : Fits(pc[s], gate) => Fits(pc'[s], gate')
<1>1. gate \in Gates /\ pc' = pc  BY DEF TypeOK, ShapesOK, Tick
<1>2. /\ gate.failures \in Nat /\ gate.age \in Int /\ gate.wait \in Nat
      /\ gate.drop \in Int /\ gate.age >= -1 /\ gate.age <= FailureWindow
      /\ gate.drop >= -1
  BY <1>1, Numbers DEF Gates
<1> QED  BY <1>1, <1>2, TickFields, Numbers DEF Sound, Fits

\* A send under the lock is alone there, so the others do not care what it
\* does to the gate; a send that is not changes nothing of the gate.
LEMMA OthersFit ==
    ASSUME TypeOK, OneAtATime, NEW s \in Sends, Sending(s),
           NEW t \in Sends, t # s, Fits(pc[t], gate)
    PROVE  Fits(pc'[t], gate')
<1>1. pc'[t] = pc[t]  BY OthersStay
<1>2. CASE pc[t] \notin Inside  BY <1>1, <1>2, OutsideFits
<1>3. CASE pc[t] \in Inside
  <2>1. pc[s] \notin Inside  BY <1>3 DEF OneAtATime, Holders
  <2>2. gate' = gate
    BY <2>1 DEF Sending, SendStep, Enter, Lock, Check, Wait, CallSucceeds,
         CallFails, Expire, Inside
  <2> QED  BY <1>1, <2>2
<1> QED  BY <1>2, <1>3

\* The invariant holds at the start.
LEMMA InductiveInit == Init => GateInductive
<1> SUFFICES ASSUME Init PROVE GateInductive
  OBVIOUS
<1>1. gate = Fresh /\ \A s \in Sends : pc[s] = "new"
  BY DEF Init
<1>2. OneAtATime  BY <1>1 DEF OneAtATime, Holders, Inside
<1> QED  BY <1>1, <1>2, FreshSound, Apart

\* The invariant is kept.
LEMMA InductiveStep == TypeOK /\ GateInductive /\ [Next]_vars => GateInductive'
<1> SUFFICES ASSUME TypeOK, GateInductive, [Next]_vars PROVE GateInductive'
  OBVIOUS
<1>0. OneAtATime /\ Sound(gate) /\ \A s \in Sends : Fits(pc[s], gate)
  BY Apart
<1> SUFFICES OneAtATime' /\ Sound(gate') /\ \A s \in Sends : Fits(pc'[s], gate')
  BY DEF GateInductive, GateCoherent, AttemptsBounded, Budgeted, Sound, Fits
<1>1. ASSUME NEW s \in Sends, Sending(s)
      PROVE  OneAtATime' /\ Sound(gate') /\ \A t \in Sends : Fits(pc'[t], gate')
  <2>1. OneAtATime'  BY <1>0, <1>1, ExclusionSending
  <2>2. Sound(gate') /\ Fits(pc'[s], gate')  BY <1>0, <1>1, SoundSending
  <2>3. \A t \in Sends : t # s => Fits(pc'[t], gate')
    BY <1>0, <1>1, OthersFit
  <2> QED  BY <2>1, <2>2, <2>3
<1>2. CASE Tick
  <2>1. pc' = pc  BY <1>2 DEF Tick
  <2>2. OneAtATime'  BY <1>0, <2>1 DEF OneAtATime, Holders
  <2> QED  BY <1>0, <1>2, <2>2, SoundTick
<1>3. CASE Around \/ UNCHANGED vars
  <2>1. pc' = pc /\ gate' = gate
    BY <1>3 DEF Around, Leave, Rejoin, NewerEvent, Stop, Start, Signal, vars
  <2>2. OneAtATime'  BY <1>0, <2>1 DEF OneAtATime, Holders
  <2> QED  BY <1>0, <2>1, <2>2
<1> QED  BY <1>1, <1>2, <1>3 DEF Next, Sending, Around

\* The inductive invariant holds in every reachable state.
THEOREM GateSound == Spec => [](TypeOK /\ GateInductive)
<1>1. TypeOK /\ GateInductive /\ [Next]_vars => TypeOK' /\ GateInductive'
  BY TypeStep, InductiveStep
<1> QED  BY <1>1, TypeInit, InductiveInit, PTL DEF Spec

\* At most one send is between the lock and its return, whatever the number
\* of sends that queue up.
THEOREM GateExcludes == Spec => []OneAtATime
<1>1. GateInductive => OneAtATime  BY DEF GateInductive
<1> QED  BY <1>1, GateSound, PTL

\* The fields of the gate agree: no failure, delay or cooldown outlives what
\* it belongs to.
THEOREM GateIsCoherent == Spec => []GateCoherent
<1>1. GateInductive => GateCoherent  BY DEF GateInductive
<1> QED  BY <1>1, GateSound, PTL

\* QQ is tried at most FailureWindow + 1 times before the gate closes.
THEOREM GateAttemptsBounded == Spec => []AttemptsBounded
<1>1. GateInductive => AttemptsBounded  BY DEF GateInductive
<1> QED  BY <1>1, GateSound, PTL

\* A group that cools down is not called.
THEOREM GateCooldownSilent == Spec => CooldownIsSilent
<1> DEFINE Silent == \A s \in Sends :
                       pc[s] # "call" /\ pc'[s] = "call" => gate'.drop = -1
<1>1. TypeOK /\ GateInductive /\ TypeOK' /\ GateInductive' /\ [Next]_vars
        => [Silent]_vars
  <2>1. GateInductive' => \A s \in Sends : pc'[s] = "call" => gate'.drop = -1
    BY DEF GateInductive, Budgeted
  <2> QED  BY <2>1
<1> QED  BY <1>1, GateSound, PTL DEF Spec, CooldownIsSilent

\* However many sends take part in them, the attempts at an unavailable group
\* stay within what the delays of the gate allow.
THEOREM GateIsSafe == Spec => []GateSafe
<1> QED  BY GateTypeCorrect, GateAttemptsBounded, PTL DEF GateSafe

-----------------------------------------------------------------------------
(* The link. *)

\* A call that has its echo, and one that was written to its connection.
Started(c) == caller[c].at \notin {"idle", "chosen"}
Written(c) == caller[c].at \in {"sent", "over"}

\* Call a may be given to call b for its answer.
Suits(a, b) ==
    /\ a \in Calls /\ b \in Calls
    /\ Written(a) /\ Started(b) /\ caller[a].echo = caller[b].echo

\* What a reader holds, what waits in a channel and what was returned has the
\* echo of the call it is for.
EchoesFit ==
    /\ \A s \in Socks : IF reader[s] = "handing" THEN Suits(task[s].of, task[s].to)
                        ELSE task[s] = NoTask
    /\ \A c \in Calls : box[c] # NoCall => Suits(box[c], c)
    /\ \A c \in Calls : got[c] # NoCall => Suits(got[c], c)
    /\ \A s \in Socks : \A c \in owed[s] : Written(c)

\* The answer to a call is in one place: still owed, in a reader's hands or in
\* the channel of the call it went to.
OneAnswer ==
    \A c \in Calls :
       /\ \A s, t \in Socks : c \in owed[s] /\ c \in owed[t] => s = t
       /\ \A s, t \in Socks : task[s].of = c /\ task[t].of = c => s = t
       /\ \A s \in Socks : c \in owed[s] => \A t \in Socks : task[t].of # c
       /\ \A s \in Socks : c \in owed[s] => \A d \in Calls : box[d] # c
       /\ \A s \in Socks : task[s].of = c => \A d \in Calls : box[d] # c

LinkInv == LinkTypeOK /\ PendingIsLive /\ OneLink /\ EchoesFit /\ OneAnswer

Callers == [at : Underway \cup {"idle", "chosen", "over"},
            on : Socks \cup {NoSock}, echo : Clock]
Tasks == [to : Calls \cup {NoCall}, of : Calls \cup {NoCall}]

LinkSteps(s) ==
    \/ Accept(s) \/ Refuse(s) \/ MarkUp(s) \/ Break(s) \/ ReadFails(s)
    \/ ReadAnswer(s) \/ HandOver(s) \/ ReadEvent(s) \/ MarkAgain(s)

\* The types hold at the start.
LEMMA LinkTypeInit == LinkInit => LinkTypeOK
<1>1. 0 \in Clock /\ 0 \in 0 .. MaxConnects  BY LinkConstants DEF Clock
<1>2. Idle \in Callers  BY <1>1 DEF Idle, Callers
<1>3. NoTask \in Tasks  BY DEF NoTask, Tasks
<1> SUFFICES ASSUME LinkInit PROVE LinkTypeOK  OBVIOUS
<1>4. caller \in [Calls -> Callers] /\ task \in [Socks -> Tasks]
  BY <1>2, <1>3 DEF LinkInit
<1>5. /\ conn \in Socks \cup {NoSock} /\ up \in BOOLEAN
      /\ reader \in [Socks -> {"none", "accepted", "reading", "event", "handing", "over"}]
      /\ open \subseteq Socks /\ owed \in [Socks -> SUBSET Calls]
  BY DEF LinkInit
<1>6. /\ pending \in [Clock -> Calls \cup {NoCall}]
      /\ box \in [Calls -> Calls \cup {NoCall}]
      /\ got \in [Calls -> Calls \cup {NoCall}]
      /\ writer \in Calls \cup {NoCall}
  BY DEF LinkInit
<1>7. /\ stale \subseteq BOOLEAN /\ clock \in Clock
      /\ connects \in 0 .. MaxConnects /\ leaving \in 0 .. connects
  BY <1>1 DEF LinkInit
<1>8. serving \in BOOLEAN /\ (serving => leaving < connects)
  BY Zenon DEF LinkInit
<1> QED  BY <1>4, <1>5, <1>6, <1>7, <1>8 DEF LinkTypeOK, Callers, Tasks

\* A step of a connection keeps the types.
LEMMA LinkTypeSock ==
    ASSUME LinkTypeOK, NEW s \in Socks, LinkSteps(s)
    PROVE  LinkTypeOK'
<1> USE DEF LinkTypeOK, sockets, calls, runs
<1>1. CASE Accept(s)  BY <1>1 DEF Accept
<1>2. CASE Refuse(s)  BY <1>2 DEF Refuse
<1>3. CASE MarkUp(s)  BY <1>3 DEF MarkUp
<1>4. CASE Break(s)  BY <1>4 DEF Break
<1>5. CASE ReadFails(s)  BY <1>5 DEF ReadFails
<1>6. CASE ReadAnswer(s)
  <2>1. PICK c \in owed[s] :
           /\ owed' = [owed EXCEPT ![s] = @ \ {c}]
           /\ LET to == pending[caller[c].echo]
              IN  IF to = NoCall
                  THEN UNCHANGED <<reader, task>>
                  ELSE /\ reader' = [reader EXCEPT ![s] = "handing"]
                       /\ task' = [task EXCEPT ![s] = [to |-> to, of |-> c]]
    BY <1>6 DEF ReadAnswer
  <2>2. c \in Calls /\ caller[c].echo \in Clock  OBVIOUS
  <2>3. [to |-> pending[caller[c].echo], of |-> c] \in Tasks
    BY <2>2 DEF Tasks
  <2>4. task' \in [Socks -> Tasks]  BY <2>1, <2>3 DEF Tasks
  <2>5. /\ owed' \in [Socks -> SUBSET Calls]
        /\ reader' \in [Socks -> {"none", "accepted", "reading", "event",
                                 "handing", "over"}]
    BY <2>1
  <2> QED  BY <2>4, <2>5, <1>6 DEF ReadAnswer, Tasks
<1>7. CASE HandOver(s)  BY <1>7 DEF HandOver, NoTask
<1>8. CASE ReadEvent(s)  BY <1>8 DEF ReadEvent
<1>9. CASE MarkAgain(s)  BY <1>9 DEF MarkAgain
<1> QED  BY <1>1, <1>2, <1>3, <1>4, <1>5, <1>6, <1>7, <1>8, <1>9 DEF LinkSteps

\* So does a step of a call ...
LEMMA LinkTypeCall ==
    ASSUME LinkTypeOK, NEW c \in Calls, Call(c)
    PROVE  LinkTypeOK'
<1> USE DEF LinkTypeOK, sockets, calls, runs, Goes, Underway
<1>0. caller[c] \in Callers /\ clock \in Clock  BY DEF Callers
<1>1. CASE ChooseConn(c)
  <2>1. \A s \in Socks \cup {NoSock} :
           /\ [caller[c] EXCEPT !.at = "over"] \in Callers
           /\ [caller[c] EXCEPT !.at = "chosen", !.on = s] \in Callers
    BY <1>0 DEF Callers
  <2>2. \/ caller' = [caller EXCEPT ![c] = [caller[c] EXCEPT !.at = "over"]]
        \/ caller' = [caller EXCEPT ![c] = [caller[c] EXCEPT !.at = "chosen", !.on = conn]]
    BY <1>1 DEF ChooseConn
  <2>3. caller \in [Calls -> Callers]  BY DEF Callers
  <2>4. caller' \in [Calls -> Callers]  BY <2>1, <2>2, <2>3
  <2> QED  BY <1>1, <2>4 DEF ChooseConn, Callers
<1>2. CASE StoreCall(c)
  <2>1. caller' \in [Calls -> Callers]  BY <1>0, <1>2 DEF StoreCall, Callers
  <2> QED  BY <1>2, <2>1 DEF StoreCall, Callers
<1>3. CASE TakeWriter(c)
  <2>0. caller \in [Calls -> Callers]  BY DEF Callers
  <2>1. caller' \in [Calls -> Callers]
    BY <2>0, <1>3 DEF TakeWriter, Callers
  <2>2. /\ UNCHANGED <<conn, up, reader, open, task, owed>>
        /\ UNCHANGED <<pending, box, got, stale, clock>>
        /\ UNCHANGED <<connects, serving, leaving>> /\ writer' = c
    BY <1>3 DEF TakeWriter
  <2> QED  BY <2>1, <2>2 DEF Callers
<1>4. CASE Write(c)
  <2>0. caller \in [Calls -> Callers]  BY DEF Callers
  <2>1. /\ [caller[c] EXCEPT !.at = "sent"] \in Callers
        /\ [caller[c] EXCEPT !.at = "over"] \in Callers
    BY <1>0 DEF Callers
  <2>2. caller' \in [Calls -> Callers]  BY <1>4, <2>0, <2>1 DEF Write, Leaves
  <2>3. owed' \in [Socks -> SUBSET Calls]  BY <1>4 DEF Write
  <2>4. pending' \in [Clock -> Calls \cup {NoCall}]  BY <1>4 DEF Write, Leaves
  <2>5. /\ UNCHANGED <<conn, up, reader, open, task, box, got, stale, clock>>
        /\ UNCHANGED <<connects, serving, leaving>> /\ writer' = NoCall
    BY <1>4 DEF Write
  <2> QED  BY <2>2, <2>3, <2>4, <2>5 DEF Callers
<1>5. CASE Receive(c)  BY <1>5 DEF Receive, Leaves
<1>6. CASE ContextEnds(c)  BY <1>6 DEF ContextEnds, Leaves
<1> QED  BY <1>1, <1>2, <1>3, <1>4, <1>5, <1>6 DEF Call

\* ... and every other step.
LEMMA LinkTypeStep == LinkTypeOK /\ [LinkNext]_linkVars => LinkTypeOK'
<1> SUFFICES ASSUME LinkTypeOK, [LinkNext]_linkVars PROVE LinkTypeOK'  OBVIOUS
<1>1. CASE TickClock
  <2>1. clock' \in Clock  BY <1>1, LinkConstants DEF LinkTypeOK, TickClock, Clock
  <2>2. /\ UNCHANGED <<conn, up, reader, open, task, owed>>
        /\ UNCHANGED <<caller, pending, box, got, writer>>
        /\ UNCHANGED <<stale, connects, serving, leaving>>
    BY <1>1 DEF TickClock, sockets, calls, runs
  <2> QED  BY <2>1, <2>2 DEF LinkTypeOK
<1>2. CASE Connect \/ StopLink \/ ConnectReturns
  <2>0. /\ connects \in 0 .. MaxConnects /\ leaving \in 0 .. connects
        /\ (serving => leaving < connects) /\ MaxConnects \in Nat
    BY LinkConstants DEF LinkTypeOK
  <2>1. /\ connects' \in 0 .. MaxConnects /\ leaving' \in 0 .. connects'
        /\ (serving' => leaving' < connects')
    <3>1. ASSUME Connect
          PROVE  /\ connects' \in 0 .. MaxConnects
                 /\ leaving' \in 0 .. connects' /\ leaving' < connects'
      BY <2>0, <3>1 DEF Connect
    <3>2. ASSUME StopLink
          PROVE  /\ connects' \in 0 .. MaxConnects
                 /\ leaving' \in 0 .. connects' /\ serving' = FALSE
      <4>1. leaving < connects  BY <2>0, <3>2, Zenon DEF StopLink
      <4>2. connects' = connects /\ leaving' = leaving + 1  BY <3>2 DEF StopLink
      <4>3. serving' = FALSE  BY <3>2 DEF StopLink
      <4>4. connects \in 0 .. MaxConnects /\ leaving \in 0 .. connects
            /\ MaxConnects \in Nat
        BY <2>0
      <4>5. connects \in 0 .. MaxConnects /\ leaving + 1 \in 0 .. connects
        BY <4>1, <4>4
      <4> QED  BY <4>2, <4>3, <4>5
    <3>3. ASSUME ConnectReturns
          PROVE  /\ connects' \in 0 .. MaxConnects
                 /\ leaving' \in 0 .. connects'
                 /\ serving' = serving /\ leaving' < connects'
      BY <2>0, <3>3 DEF ConnectReturns
    <3> QED  BY <1>2, <3>1, <3>2, <3>3
  <2>2. serving' \in BOOLEAN
    BY <1>2, Zenon DEF LinkTypeOK, Connect, StopLink, ConnectReturns
  <2>3. /\ conn' \in {conn, NoSock} /\ up' = FALSE
        /\ open' \subseteq open
    BY <1>2 DEF Connect, StopLink, ConnectReturns, Close, sockets
  <2>4. /\ UNCHANGED <<reader, task, owed>> /\ UNCHANGED <<stale, clock>>
        /\ UNCHANGED <<caller, pending, box, got, writer>>
    BY <1>2 DEF Connect, StopLink, ConnectReturns, sockets, calls
  <2> QED  BY <2>1, <2>2, <2>3, <2>4 DEF LinkTypeOK
<1>3. CASE ReadStatus \/ WriteStatus
  BY <1>3 DEF LinkTypeOK, ReadStatus, WriteStatus, sockets, calls, runs
<1>4. CASE UNCHANGED linkVars
  BY <1>4 DEF LinkTypeOK, linkVars, sockets, calls, runs
<1> QED
  BY <1>1, <1>2, <1>3, <1>4, LinkTypeSock, LinkTypeCall
  DEF LinkNext, Server, LinkSteps

\* A call keeps its echo from the moment it has one, and what was written stays
\* written.
LEMMA EchoStays ==
    ASSUME LinkTypeOK, [LinkNext]_linkVars, NEW d \in Calls
    PROVE  /\ Started(d) => Started(d)' /\ caller'[d].echo = caller[d].echo
           /\ Written(d) => Written(d)'
<1> USE DEF LinkTypeOK, Started, Written, Goes, Leaves
<1>1. CASE caller' = caller  BY <1>1
<1>2. ASSUME NEW c \in Calls, Call(c)
      PROVE  /\ Started(d) => Started(d)' /\ caller'[d].echo = caller[d].echo
             /\ Written(d) => Written(d)'
  <2>1. CASE ChooseConn(c)  BY <2>1 DEF ChooseConn
  <2>2. CASE StoreCall(c)  BY <2>2 DEF StoreCall
  <2>3. CASE TakeWriter(c)  BY <2>3 DEF TakeWriter
  <2>4. CASE Write(c)
    <3>1. \E x \in {"sent", "over"} : caller' = [caller EXCEPT ![c].at = x]
      BY <2>4 DEF Write
    <3> QED  BY <3>1
  <2>5. CASE Receive(c)  BY <2>5 DEF Receive
  <2>6. CASE ContextEnds(c)  BY <2>6 DEF ContextEnds
  <2> QED  BY <1>2, <2>1, <2>2, <2>3, <2>4, <2>5, <2>6 DEF Call
<1>3. CASE TickClock  BY <1>1, <1>3 DEF TickClock, calls
<1>4. CASE Server
  BY <1>1, <1>4
  DEF Server, Connect, StopLink, ConnectReturns, ReadStatus, WriteStatus, Accept,
      Refuse, MarkUp, Break, ReadFails, ReadAnswer, HandOver, ReadEvent, MarkAgain,
      calls
<1>5. CASE UNCHANGED linkVars  BY <1>1, <1>5 DEF linkVars, calls
<1> QED  BY <1>2, <1>3, <1>4, <1>5 DEF LinkNext

\* Whoever waits in `pending' is still there, under its own echo.
LEMMA PendingStep ==
    LinkTypeOK /\ PendingIsLive /\ [LinkNext]_linkVars => PendingIsLive'
<1> SUFFICES ASSUME LinkTypeOK, PendingIsLive, [LinkNext]_linkVars
             PROVE  PendingIsLive'
  OBVIOUS
<1> USE DEF LinkTypeOK, PendingIsLive, Underway, Goes, Leaves
<1>1. CASE caller' = caller /\ pending' = pending  BY <1>1
<1>2. ASSUME NEW c \in Calls, Call(c)  PROVE PendingIsLive'
  <2>1. CASE ChooseConn(c)
    <3>1. /\ pending' = pending /\ caller[c].at = "idle"
          /\ \A d \in Calls \ {c} : caller'[d] = caller[d]
      BY <2>1 DEF ChooseConn
    <3> QED  BY <3>1, LinkConstants
  <2>2. CASE StoreCall(c)  BY <2>2, LinkConstants DEF StoreCall
  <2>3. CASE TakeWriter(c)  BY <2>3, LinkConstants DEF TakeWriter
  <2>4. CASE Write(c)  BY <2>4, LinkConstants DEF Write
  <2>5. CASE Receive(c)  BY <2>5, LinkConstants DEF Receive
  <2>6. CASE ContextEnds(c)  BY <2>6, LinkConstants DEF ContextEnds
  <2> QED  BY <1>2, <2>1, <2>2, <2>3, <2>4, <2>5, <2>6 DEF Call
<1>3. CASE TickClock  BY <1>1, <1>3 DEF TickClock, calls
<1>4. CASE Server
  BY <1>1, <1>4
  DEF Server, Connect, StopLink, ConnectReturns, ReadStatus, WriteStatus, Accept,
      Refuse, MarkUp, Break, ReadFails, ReadAnswer, HandOver, ReadEvent, MarkAgain,
      calls
<1>5. CASE UNCHANGED linkVars  BY <1>1, <1>5 DEF linkVars, calls
<1> QED  BY <1>2, <1>3, <1>4, <1>5 DEF LinkNext

\* The open connection that is read is the one calls are written to.
LEMMA OneLinkStep == LinkTypeOK /\ OneLink /\ [LinkNext]_linkVars => OneLink'
<1> SUFFICES ASSUME LinkTypeOK, OneLink, [LinkNext]_linkVars PROVE OneLink'
  OBVIOUS
<1> USE DEF LinkTypeOK, OneLink, Close, sockets
<1>1. CASE conn' = conn /\ open' = open /\ reader' = reader  BY <1>1
<1>2. ASSUME NEW s \in Socks, LinkSteps(s)  PROVE OneLink'
  <2>1. CASE Accept(s)  BY <2>1 DEF Accept
  <2>2. CASE Refuse(s)  BY <2>2 DEF Refuse
  <2>3. CASE MarkUp(s)  BY <2>3 DEF MarkUp
  <2>4. CASE Break(s)  BY <2>4 DEF Break
  <2>5. CASE ReadFails(s)  BY <2>5 DEF ReadFails
  <2>6. CASE ReadAnswer(s)  BY <2>6 DEF ReadAnswer
  <2>7. CASE HandOver(s)  BY <2>7 DEF HandOver
  <2>8. CASE ReadEvent(s)  BY <2>8 DEF ReadEvent
  <2>9. CASE MarkAgain(s)  BY <2>9 DEF MarkAgain
  <2> QED
    BY <1>2, <2>1, <2>2, <2>3, <2>4, <2>5, <2>6, <2>7, <2>8, <2>9 DEF LinkSteps
<1>3. CASE Connect \/ StopLink \/ ConnectReturns
  BY <1>3 DEF Connect, StopLink, ConnectReturns
<1>4. CASE TickClock \/ ReadStatus \/ WriteStatus
  BY <1>1, <1>4 DEF TickClock, ReadStatus, WriteStatus
<1>5. ASSUME NEW c \in Calls, Call(c)  PROVE OneLink'
  BY <1>1, <1>5
  DEF Call, ChooseConn, StoreCall, TakeWriter, Write, Receive, ContextEnds
<1>6. CASE UNCHANGED linkVars  BY <1>1, <1>6 DEF linkVars
<1> QED  BY <1>2, <1>3, <1>4, <1>5, <1>6 DEF LinkNext, Server, LinkSteps

\* No answer moves.
Quiet ==
    /\ UNCHANGED <<task, owed, box, got>>
    /\ \A s \in Socks : reader'[s] = "handing" <=> reader[s] = "handing"

\* Answers move in four steps only.
LEMMA AnswersMove ==
    ASSUME LinkTypeOK, [LinkNext]_linkVars
    PROVE  \/ Quiet
           \/ \E s \in Socks : ReadAnswer(s) \/ HandOver(s)
           \/ \E c \in Calls : Write(c) \/ Receive(c)
<1> USE DEF LinkTypeOK, sockets, calls
<1>1. ASSUME NEW s \in Socks,
             \/ Accept(s) \/ Refuse(s) \/ MarkUp(s) \/ Break(s) \/ ReadFails(s)
             \/ ReadEvent(s) \/ MarkAgain(s)
      PROVE  Quiet
  <2>1. UNCHANGED <<task, owed, box, got>>
    BY <1>1 DEF Accept, Refuse, MarkUp, Break, ReadFails, ReadEvent, MarkAgain
  <2>2. ASSUME NEW t \in Socks
        PROVE  reader'[t] = "handing" <=> reader[t] = "handing"
    BY <1>1 DEF Accept, Refuse, MarkUp, Break, ReadFails, ReadEvent, MarkAgain
  <2> QED  BY <2>1, <2>2 DEF Quiet
<1>2. ASSUME NEW c \in Calls,
             ChooseConn(c) \/ StoreCall(c) \/ TakeWriter(c) \/ ContextEnds(c)
      PROVE  Quiet
  BY <1>2 DEF Quiet, ChooseConn, StoreCall, TakeWriter, ContextEnds, Leaves, Goes
<1>3. CASE \/ Connect \/ StopLink \/ ConnectReturns \/ ReadStatus \/ WriteStatus
           \/ TickClock \/ UNCHANGED linkVars
  BY <1>3
  DEF Quiet, Connect, StopLink, ConnectReturns, ReadStatus, WriteStatus, TickClock,
      linkVars
<1> QED  BY <1>1, <1>2, <1>3 DEF LinkNext, Server, Call

\* What suits goes on to suit.
LEMMA SuitsStays ==
    ASSUME LinkTypeOK, [LinkNext]_linkVars, NEW a, NEW b, Suits(a, b)
    PROVE  /\ a \in Calls /\ b \in Calls
           /\ caller'[a].at \in {"sent", "over"}
           /\ caller'[b].at \notin {"idle", "chosen"}
           /\ caller'[a].echo = caller'[b].echo
<1>1. a \in Calls /\ b \in Calls  BY DEF Suits
<1>2. Started(a) /\ Written(a) /\ Started(b) /\ caller[a].echo = caller[b].echo
  BY DEF Suits, Started, Written
<1> QED  BY <1>1, <1>2, EchoStays DEF Started, Written

\* What is handed over, kept and returned suits the call it is for.
LEMMA EchoesStep ==
    LinkTypeOK /\ PendingIsLive /\ EchoesFit /\ [LinkNext]_linkVars => EchoesFit'
<1> SUFFICES ASSUME LinkTypeOK, PendingIsLive, EchoesFit, [LinkNext]_linkVars
             PROVE  EchoesFit'
  OBVIOUS
<1> DEFINE After(a, b) == /\ a \in Calls /\ b \in Calls
                           /\ caller'[a].at \in {"sent", "over"}
                           /\ caller'[b].at \notin {"idle", "chosen"}
                           /\ caller'[a].echo = caller'[b].echo
<1>0. \A a, b : Suits(a, b) => After(a, b)  BY SuitsStays
<1>1. /\ \A s \in Socks : reader[s] = "handing" => After(task[s].of, task[s].to)
      /\ \A s \in Socks : reader[s] # "handing" => task[s] = NoTask
      /\ \A c \in Calls : box[c] # NoCall => After(box[c], c)
      /\ \A c \in Calls : got[c] # NoCall => After(got[c], c)
  <2> HIDE DEF After
  <2> QED  BY <1>0 DEF EchoesFit
<1>2. \A a \in Calls : Written(a) => caller'[a].at \in {"sent", "over"}
  BY EchoStays DEF Written
<1>3. CASE Quiet
  <2>1. UNCHANGED <<task, owed, box, got>>  BY <1>3 DEF Quiet
  <2>2. ASSUME NEW s \in Socks
        PROVE  IF reader'[s] = "handing" THEN Suits(task[s].of, task[s].to)'
               ELSE task'[s] = NoTask
    BY <1>1, <1>3 DEF Quiet, Suits, Started, Written
  <2>3. ASSUME NEW c \in Calls
        PROVE  /\ box'[c] # NoCall => Suits(box[c], c)'
               /\ got'[c] # NoCall => Suits(got[c], c)'
    BY <1>1, <2>1 DEF Suits, Started, Written
  <2>4. \A s \in Socks : \A c \in owed'[s] : Written(c)'
    BY <1>2, <2>1 DEF EchoesFit, Written, LinkTypeOK
  <2> QED  BY <2>2, <2>3, <2>4 DEF EchoesFit, Written
<1>4. ASSUME NEW s \in Socks, ReadAnswer(s)  PROVE EchoesFit'
  <2>1. PICK c \in owed[s] :
           /\ owed' = [owed EXCEPT ![s] = @ \ {c}]
           /\ LET to == pending[caller[c].echo]
              IN  IF to = NoCall
                  THEN UNCHANGED <<reader, task>>
                  ELSE /\ reader' = [reader EXCEPT ![s] = "handing"]
                       /\ task' = [task EXCEPT ![s] = [to |-> to, of |-> c]]
    BY <1>4 DEF ReadAnswer
  <2>2. /\ c \in Calls /\ Written(c) /\ caller[c].echo \in Clock
        /\ UNCHANGED <<caller, box, got>>
    BY <1>4 DEF ReadAnswer, calls, EchoesFit, LinkTypeOK
  <2> DEFINE to == pending[caller[c].echo]
  <2>3. to # NoCall => Suits(c, to)
    BY <2>2 DEF PendingIsLive, Suits, Started, Underway, LinkTypeOK
  <2>4. ASSUME NEW r \in Socks
        PROVE  IF reader'[r] = "handing" THEN Suits(task[r].of, task[r].to)'
               ELSE task'[r] = NoTask
    BY <2>1, <2>2, <2>3 DEF EchoesFit, LinkTypeOK, Suits, Started, Written
  <2>5. ASSUME NEW r \in Socks, NEW d \in owed'[r]  PROVE Written(d)'
    BY <2>1, <2>2 DEF EchoesFit, LinkTypeOK, Written
  <2> QED  BY <2>2, <2>4, <2>5 DEF EchoesFit, Suits, Started, Written
<1>5. ASSUME NEW s \in Socks, HandOver(s)  PROVE EchoesFit'
  <2>1. /\ reader[s] = "handing"
        /\ box' = [box EXCEPT ![task[s].to] = task[s].of]
        /\ reader' = [reader EXCEPT ![s] = "reading"]
        /\ task' = [task EXCEPT ![s] = NoTask]
        /\ UNCHANGED <<owed, caller, got>>
    BY <1>5 DEF HandOver
  <2>2. Suits(task[s].of, task[s].to)  BY <2>1 DEF EchoesFit
  <2>3. ASSUME NEW r \in Socks
        PROVE  IF reader'[r] = "handing" THEN Suits(task[r].of, task[r].to)'
               ELSE task'[r] = NoTask
    BY <2>1 DEF EchoesFit, LinkTypeOK, Suits, Started, Written
  <2>4. ASSUME NEW c \in Calls, box'[c] # NoCall  PROVE Suits(box[c], c)'
    BY <2>1, <2>2, <2>4 DEF EchoesFit, LinkTypeOK, Suits, Started, Written
  <2> QED  BY <2>1, <2>3, <2>4 DEF EchoesFit, Suits, Started, Written
<1>6. ASSUME NEW c \in Calls, Write(c)  PROVE EchoesFit'
  <2>1. UNCHANGED <<reader, task, box, got>>  BY <1>6 DEF Write
  <2>2. ASSUME NEW r \in Socks
        PROVE  IF reader'[r] = "handing" THEN Suits(task[r].of, task[r].to)'
               ELSE task'[r] = NoTask
    BY <1>1, <2>1 DEF Suits, Started, Written
  <2>3. ASSUME NEW d \in Calls
        PROVE  /\ box'[d] # NoCall => Suits(box[d], d)'
               /\ got'[d] # NoCall => Suits(got[d], d)'
    BY <1>1, <2>1 DEF Suits, Started, Written
  <2>4. caller'[c].at \in {"sent", "over"}
    BY <1>6 DEF Write, Leaves, Goes, LinkTypeOK
  <2>5. ASSUME NEW r \in Socks, NEW d \in owed'[r]
        PROVE  d \in Calls /\ caller'[d].at \in {"sent", "over"}
    <3>1. d = c \/ d \in owed[r]  BY <1>6 DEF Write, LinkTypeOK
    <3> QED  BY <1>2, <2>4, <3>1 DEF EchoesFit, LinkTypeOK
  <2> QED  BY <2>2, <2>3, <2>5 DEF EchoesFit, Written
<1>7. ASSUME NEW c \in Calls, Receive(c)  PROVE EchoesFit'
  <2>1. /\ UNCHANGED <<reader, task, owed>>
        /\ box[c] # NoCall
        /\ got' = [got EXCEPT ![c] = box[c]]
        /\ box' = [box EXCEPT ![c] = NoCall]
    BY <1>7 DEF Receive, sockets
  <2>2. ASSUME NEW r \in Socks
        PROVE  IF reader'[r] = "handing" THEN Suits(task[r].of, task[r].to)'
               ELSE task'[r] = NoTask
    BY <1>1, <2>1 DEF Suits, Started, Written
  <2>3. ASSUME NEW d \in Calls
        PROVE  /\ box'[d] # NoCall => Suits(box[d], d)'
               /\ got'[d] # NoCall => Suits(got[d], d)'
    BY <1>1, <2>1 DEF LinkTypeOK, Suits, Started, Written
  <2>4. \A r \in Socks : \A d \in owed'[r] : Written(d)'
    BY <1>2, <2>1 DEF EchoesFit, Written, LinkTypeOK
  <2> QED  BY <2>2, <2>3, <2>4 DEF EchoesFit, Written
<1> QED  BY <1>3, <1>4, <1>5, <1>6, <1>7, AnswersMove

\* An answer stays in one place.
LEMMA OneAnswerStep ==
    LinkTypeOK /\ EchoesFit /\ OneAnswer /\ [LinkNext]_linkVars => OneAnswer'
<1> SUFFICES ASSUME LinkTypeOK, EchoesFit, OneAnswer, [LinkNext]_linkVars
             PROVE  OneAnswer'
  OBVIOUS
<1>1. CASE Quiet  BY <1>1 DEF Quiet, OneAnswer
<1>2. ASSUME NEW s \in Socks, ReadAnswer(s)  PROVE OneAnswer'
  <2>1. PICK c \in owed[s] :
           /\ owed' = [owed EXCEPT ![s] = @ \ {c}]
           /\ \/ task' = task
              \/ \E d : task' = [task EXCEPT ![s] = [to |-> d, of |-> c]]
    BY <1>2 DEF ReadAnswer
  <2>2. c \in Calls /\ box' = box  BY <1>2 DEF ReadAnswer, calls, LinkTypeOK
  <2>3. \A r \in Socks : owed'[r] = owed[r] \ {c}
    BY <2>1, <2>2 DEF LinkTypeOK, OneAnswer
  <2>4. \A r \in Socks : task'[r] = task[r] \/ (r = s /\ task'[r].of = c)
    BY <2>1 DEF LinkTypeOK
  <2> QED  BY <2>2, <2>3, <2>4 DEF OneAnswer
<1>3. ASSUME NEW s \in Socks, HandOver(s)  PROVE OneAnswer'
  <2>1. /\ box' = [box EXCEPT ![task[s].to] = task[s].of]
        /\ task' = [task EXCEPT ![s] = NoTask] /\ owed' = owed
    BY <1>3 DEF HandOver
  <2>2. \A r \in Socks : r # s => task'[r] = task[r]
    BY <2>1 DEF LinkTypeOK
  <2>3. task'[s].of = NoCall /\ NoCall \notin Calls
    BY <2>1, LinkConstants DEF LinkTypeOK, NoTask
  <2>4. \A d \in Calls : box'[d] = box[d] \/ box'[d] = task[s].of
    BY <2>1 DEF LinkTypeOK
  <2> QED  BY <2>1, <2>2, <2>3, <2>4 DEF OneAnswer
<1>4. ASSUME NEW c \in Calls, Write(c)  PROVE OneAnswer'
  <2>1. caller[c].at = "writing" /\ UNCHANGED <<task, box>>  BY <1>4 DEF Write
  <2>2. \A a \in Calls : Written(a) => a # c  BY <2>1 DEF Written
  <2>3. /\ \A r \in Socks : c \notin owed[r] /\ task[r].of # c
        /\ \A d \in Calls : box[d] # c
    BY <2>2, LinkConstants DEF EchoesFit, Suits, NoTask
  <2>4. \E t \in Socks \cup {NoSock} : \A r \in Socks :
           owed'[r] = owed[r] \/ (r = t /\ owed'[r] = owed[r] \cup {c})
    BY <1>4 DEF Write, LinkTypeOK
  <2> QED  BY <2>1, <2>3, <2>4 DEF OneAnswer
<1>5. ASSUME NEW c \in Calls, Receive(c)  PROVE OneAnswer'
  <2>1. box' = [box EXCEPT ![c] = NoCall] /\ UNCHANGED <<task, owed>>
    BY <1>5 DEF Receive, sockets
  <2>2. \A d \in Calls : box'[d] = box[d] \/ box'[d] \notin Calls
    BY <2>1, LinkConstants DEF LinkTypeOK
  <2> QED  BY <2>1, <2>2 DEF OneAnswer
<1> QED  BY <1>1, <1>2, <1>3, <1>4, <1>5, AnswersMove

\* What is promised of the channel follows.
LEMMA LinkInvSafe == LinkInv => LinkSafe
<1> SUFFICES ASSUME LinkInv PROVE LinkSafe  OBVIOUS
<1> USE DEF LinkInv
<1>1. AnswersMatch  BY DEF AnswersMatch, EchoesFit, Suits
<1>2. ReaderGoesOn
  <2> SUFFICES ASSUME NEW s \in Socks, reader[s] = "handing",
                      box[task[s].to] # NoCall
               PROVE  Shared(task[s].to)
    BY DEF ReaderGoesOn
  <2> DEFINE to == task[s].to
             a == task[s].of
             x == box[to]
  <2>1. Suits(a, to)  BY DEF EchoesFit
  <2>2. to \in Calls /\ Suits(x, to)  BY <2>1 DEF EchoesFit, Suits
  <2>3. a # x  BY <2>1, <2>2 DEF OneAnswer, Suits
  <2>4. PICK d \in {a, x} : d # to  BY <2>3
  <2>5. Suits(d, to)  BY <2>1, <2>2, <2>4
  <2> QED  BY <2>4, <2>5 DEF Shared, Suits, Started, Written
<1> QED  BY <1>1, <1>2 DEF LinkSafe

\* The invariant holds at the start and every step keeps it: an answer is in one
\* place, with the echo of the call it is for (resolveCall, CallAPI).
THEOREM LinkIsSound == LinkSpec => []LinkInv
<1>1. LinkInit => LinkInv
  <2> SUFFICES ASSUME LinkInit PROVE LinkInv  OBVIOUS
  <2>1. LinkTypeOK  BY LinkTypeInit
  <2>2. PendingIsLive /\ OneLink  BY DEF LinkInit, PendingIsLive, OneLink
  <2>3. EchoesFit /\ OneAnswer
    BY LinkConstants DEF LinkInit, EchoesFit, OneAnswer, NoTask
  <2> QED  BY <2>1, <2>2, <2>3 DEF LinkInv
<1>2. LinkInv /\ [LinkNext]_linkVars => LinkInv'
  BY LinkTypeStep, PendingStep, OneLinkStep, EchoesStep, OneAnswerStep DEF LinkInv
<1> QED  BY <1>1, <1>2, PTL DEF LinkSpec

\* An answer of QQ goes to the call that asked or to one with its echo, the newest
\* connection is the one that is read, and a reader is held up by shared echoes
\* only: the promise of the reverse channel.
THEOREM LinkIsSafe == LinkSpec => []LinkSafe
<1> QED  BY LinkIsSound, LinkInvSafe, PTL
=============================================================================
