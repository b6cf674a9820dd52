---------------------------- MODULE OneBotLink ----------------------------
(***************************************************************************)
(* The reverse OneBot channel (model/qqbot/onebot_reverse.go).  NapCat     *)
(* dials in; the newest connection replaces the one before it.  A read     *)
(* loop per connection wakes the API calls that wait for their answers     *)
(* and starts a goroutine per event.  A call takes the connection, enters  *)
(* itself in `pending' under its echo, writes, and waits for its answer or *)
(* for the end of its context.  The echo is the time of day: calls made    *)
(* within one tick of the clock have the same.                             *)
(* OneBotChannel (onebot.go) dials instead and matches answers alike.      *)
(***************************************************************************)
EXTENDS Integers, FiniteSets

CONSTANTS
    Socks,       \* connections NapCat makes
    Calls,       \* calls of CallAPI
    NoSock, NoCall,
    MaxClock,    \* bound: ticks of the clock
    MaxConnects  \* bound: calls of Connect, one per start of the runtime

ASSUME LinkConstants ==
    /\ IsFiniteSet(Socks) /\ IsFiniteSet(Calls)
    /\ NoSock \notin Socks /\ NoCall \notin Calls
    /\ MaxClock \in Nat /\ MaxConnects \in Nat \ {0}

VARIABLES
    conn,      \* OneBotReverseServer.conn
    up,        \* status.Connected
    reader,    \* per connection: where its goroutine is
    open,      \* connections neither closed nor broken
    task,      \* per connection: the answer its reader hands over, and to whom
    owed,      \* per connection: calls NapCat has read and not answered
    caller,    \* per call: where it is, its connection and its echo
    pending,   \* echo -> the call that waits
    box,       \* resultCh of a call: the call whose answer it holds
    got,       \* per call: the call whose answer it returned
    writer,    \* the holder of writeMu
    stale,     \* values of Connected read by goroutines that will write them back
    clock,
    connects, serving, leaving  \* Connect calls: made, waiting, cancelled

sockets == <<reader, open, task, owed>>
calls == <<caller, pending, box, got, writer>>
runs == <<connects, serving, leaving>>
linkVars == <<conn, up, sockets, calls, stale, clock, runs>>

Clock == 0 .. MaxClock
NoTask == [to |-> NoCall, of |-> NoCall]
Idle == [at |-> "idle", on |-> NoSock, echo |-> 0]
Underway == {"stored", "writing", "sent"}

\* Two calls that are, or were, in `pending' under one echo
Shared(c) ==
    \E d \in Calls \ {c} :
       /\ {caller[c].at, caller[d].at} \cap {"idle", "chosen"} = {}
       /\ caller[d].echo = caller[c].echo

LinkInit ==
    /\ conn = NoSock /\ up = FALSE
    /\ reader = [s \in Socks |-> "none"] /\ open = {}
    /\ task = [s \in Socks |-> NoTask] /\ owed = [s \in Socks |-> {}]
    /\ caller = [c \in Calls |-> Idle]
    /\ pending = [e \in Clock |-> NoCall]
    /\ box = [c \in Calls |-> NoCall] /\ got = [c \in Calls |-> NoCall]
    /\ writer = NoCall /\ stale = {} /\ clock = 0
    /\ connects = 0 /\ serving = FALSE /\ leaving = 0

-----------------------------------------------------------------------------
\* The connection

\* ServeHTTP up to connMu.Unlock: the new connection replaces the old one.
Accept(s) ==
    /\ reader[s] = "none"
    /\ open' = (open \ {conn}) \cup {s}
    /\ conn' = s
    /\ reader' = [reader EXCEPT ![s] = "accepted"]
    /\ UNCHANGED <<up, task, owed, calls, stale, clock, runs>>

\* The handshake fails; the status forgets the connection there is.
Refuse(s) ==
    /\ reader[s] = "none"
    /\ reader' = [reader EXCEPT ![s] = "over"]
    /\ up' = FALSE
    /\ UNCHANGED <<conn, open, task, owed, calls, stale, clock, runs>>

\* setStatus(true) and the start of readLoop
MarkUp(s) ==
    /\ reader[s] = "accepted"
    /\ up' = TRUE
    /\ reader' = [reader EXCEPT ![s] = "reading"]
    /\ UNCHANGED <<conn, open, task, owed, calls, stale, clock, runs>>

\* The network or NapCat ends the connection.
Break(s) ==
    /\ s \in open
    /\ open' = open \ {s}
    /\ UNCHANGED <<conn, up, reader, task, owed, calls, stale, clock, runs>>

\* disconnectIfCurrent: the connection is broken, or a frame is too long.
\* The latter leaves the connection itself open.
ReadFails(s) ==
    /\ reader[s] = "reading"
    /\ reader' = [reader EXCEPT ![s] = "over"]
    /\ IF conn = s THEN conn' = NoSock /\ up' = FALSE ELSE UNCHANGED <<conn, up>>
    /\ UNCHANGED <<open, task, owed, calls, stale, clock, runs>>

Close ==
    /\ conn' = NoSock /\ up' = FALSE
    /\ open' = open \ {conn}

\* Variant with a defect: answers matched by order instead of by echo
ReadAnswerInOrder(s) ==
    /\ reader[s] = "reading" /\ s \in open
    /\ \E c \in owed[s], d \in Calls :
         /\ caller[d].at = "sent"
         /\ owed' = [owed EXCEPT ![s] = @ \ {c}]
         /\ reader' = [reader EXCEPT ![s] = "handing"]
         /\ task' = [task EXCEPT ![s] = [to |-> d, of |-> c]]
    /\ UNCHANGED <<conn, up, open, calls, stale, clock, runs>>

\* resolveCall up to the send: an answer nobody waits for is dropped.
ReadAnswer(s) ==
    /\ reader[s] = "reading" /\ s \in open
    /\ \E c \in owed[s] :
         /\ owed' = [owed EXCEPT ![s] = @ \ {c}]
         /\ LET to == pending[caller[c].echo]
            IN  IF to = NoCall
                THEN UNCHANGED <<reader, task>>
                ELSE /\ reader' = [reader EXCEPT ![s] = "handing"]
                     /\ task' = [task EXCEPT ![s] = [to |-> to, of |-> c]]
    /\ UNCHANGED <<conn, up, open, calls, stale, clock, runs>>

\* Variant with a defect: resultCh without a buffer: only a call that waits takes its answer.
HandOverUnbuffered(s) ==
    /\ reader[s] = "handing" /\ box[task[s].to] = NoCall
    /\ caller[task[s].to].at = "sent"
    /\ box' = [box EXCEPT ![task[s].to] = task[s].of]
    /\ reader' = [reader EXCEPT ![s] = "reading"]
    /\ task' = [task EXCEPT ![s] = NoTask]
    /\ UNCHANGED <<conn, up, open, owed, caller, pending, got, writer, stale, clock,
                   runs>>

\* resultCh holds one result: a second one makes the reader wait.
HandOver(s) ==
    /\ reader[s] = "handing" /\ box[task[s].to] = NoCall
    /\ box' = [box EXCEPT ![task[s].to] = task[s].of]
    /\ reader' = [reader EXCEPT ![s] = "reading"]
    /\ task' = [task EXCEPT ![s] = NoTask]
    /\ UNCHANGED <<conn, up, open, owed, caller, pending, got, writer, stale, clock,
                   runs>>

\* A heartbeat or an event with the bot's number is read ...
ReadEvent(s) ==
    /\ reader[s] = "reading" /\ s \in open
    /\ reader' = [reader EXCEPT ![s] = "event"]
    /\ UNCHANGED <<conn, up, open, task, owed, calls, stale, clock, runs>>

\* ... and sets the status; the event's handler starts.
MarkAgain(s) ==
    /\ reader[s] = "event"
    /\ up' = TRUE
    /\ reader' = [reader EXCEPT ![s] = "reading"]
    /\ UNCHANGED <<conn, open, task, owed, calls, stale, clock, runs>>

\* A bad frame or a handler that failed: Connected is read ...
ReadStatus ==
    /\ \E s \in Socks : reader[s] # "none"
    /\ stale' = stale \cup {up}
    /\ UNCHANGED <<conn, up, sockets, calls, clock, runs>>

\* ... and written back with the error.
WriteStatus ==
    /\ \E b \in stale : up' = b /\ stale' = stale \ {b}
    /\ UNCHANGED <<conn, sockets, calls, clock, runs>>

\* Connect registers the handler, says the bot is not connected, and waits.
Connect ==
    /\ ~serving /\ connects < MaxConnects
    /\ connects' = connects + 1 /\ serving' = TRUE
    /\ up' = FALSE
    /\ UNCHANGED <<conn, sockets, calls, stale, clock, leaving>>

\* Runtime.Stop cancels the context and closes the channel; Connect will too.
StopLink ==
    /\ serving
    /\ serving' = FALSE /\ leaving' = leaving + 1
    /\ Close
    /\ UNCHANGED <<reader, task, owed, calls, stale, clock, connects>>

\* The end of a Connect, perhaps after the next has begun
ConnectReturns ==
    /\ leaving > 0
    /\ leaving' = leaving - 1
    /\ Close
    /\ UNCHANGED <<reader, task, owed, calls, stale, clock, connects, serving>>

-----------------------------------------------------------------------------
\* CallAPI

Goes(c, there) == caller' = [caller EXCEPT ![c].at = there]

\* The deferred Delete takes whoever is there under the echo.
Leaves(c) ==
    /\ Goes(c, "over")
    /\ pending' = [pending EXCEPT ![caller[c].echo] = NoCall]

ChooseConn(c) ==
    /\ caller[c].at = "idle"
    /\ IF conn = NoSock THEN Goes(c, "over")
       ELSE caller' = [caller EXCEPT ![c].at = "chosen", ![c].on = conn]
    /\ UNCHANGED <<conn, up, sockets, pending, box, got, writer, stale, clock, runs>>

StoreCall(c) ==
    /\ caller[c].at = "chosen"
    /\ caller' = [caller EXCEPT ![c].at = "stored", ![c].echo = clock]
    /\ pending' = [pending EXCEPT ![clock] = c]
    /\ UNCHANGED <<conn, up, sockets, box, got, writer, stale, clock, runs>>

TakeWriter(c) ==
    /\ caller[c].at = "stored" /\ writer = NoCall
    /\ writer' = c /\ Goes(c, "writing")
    /\ UNCHANGED <<conn, up, sockets, pending, box, got, stale, clock, runs>>

\* The write has no deadline: it ends when the connection takes it or breaks.
Write(c) ==
    /\ caller[c].at = "writing"
    /\ writer' = NoCall
    /\ IF caller[c].on \in open
       THEN /\ Goes(c, "sent")
            /\ owed' = [owed EXCEPT ![caller[c].on] = @ \cup {c}]
            /\ UNCHANGED pending
       ELSE Leaves(c) /\ UNCHANGED owed
    /\ UNCHANGED <<conn, up, reader, open, task, box, got, stale, clock, runs>>

Receive(c) ==
    /\ caller[c].at = "sent" /\ box[c] # NoCall
    /\ got' = [got EXCEPT ![c] = box[c]]
    /\ box' = [box EXCEPT ![c] = NoCall]
    /\ Leaves(c)
    /\ UNCHANGED <<conn, up, sockets, writer, stale, clock, runs>>

ContextEnds(c) ==
    /\ caller[c].at = "sent"
    /\ Leaves(c)
    /\ UNCHANGED <<conn, up, sockets, box, got, writer, stale, clock, runs>>

TickClock ==
    /\ clock < MaxClock
    /\ clock' = clock + 1
    /\ UNCHANGED <<conn, up, sockets, calls, stale, runs>>

Server ==
    \/ Connect \/ StopLink \/ ConnectReturns \/ ReadStatus \/ WriteStatus
    \/ \E s \in Socks :
         \/ Accept(s) \/ Refuse(s) \/ MarkUp(s) \/ Break(s) \/ ReadFails(s)
         \/ ReadAnswer(s) \/ HandOver(s) \/ ReadEvent(s) \/ MarkAgain(s)

Call(c) ==
    \/ ChooseConn(c) \/ StoreCall(c) \/ TakeWriter(c) \/ Write(c) \/ Receive(c)
    \/ ContextEnds(c)

LinkNext == TickClock \/ Server \/ \E c \in Calls : Call(c)
LinkSpec == LinkInit /\ [][LinkNext]_linkVars

\* A read loop goes on while it holds something, and when its connection is
\* broken.  Of calls, clocks and NapCat nothing is assumed.
LinkFairness ==
    \A s \in Socks :
       /\ WF_linkVars(MarkUp(s)) /\ WF_linkVars(MarkAgain(s))
       /\ WF_linkVars(HandOver(s))
       /\ WF_linkVars(s \notin open /\ ReadFails(s))
LinkFairSpec == LinkSpec /\ LinkFairness

-----------------------------------------------------------------------------
LinkTypeOK ==
    /\ conn \in Socks \cup {NoSock} /\ up \in BOOLEAN
    /\ reader \in [Socks -> {"none", "accepted", "reading", "event", "handing", "over"}]
    /\ open \subseteq Socks
    /\ task \in [Socks -> [to : Calls \cup {NoCall}, of : Calls \cup {NoCall}]]
    /\ owed \in [Socks -> SUBSET Calls]
    /\ caller \in [Calls -> [at : Underway \cup {"idle", "chosen", "over"},
                             on : Socks \cup {NoSock}, echo : Clock]]
    /\ pending \in [Clock -> Calls \cup {NoCall}]
    /\ box \in [Calls -> Calls \cup {NoCall}]
    /\ got \in [Calls -> Calls \cup {NoCall}]
    /\ writer \in Calls \cup {NoCall}
    /\ stale \subseteq BOOLEAN /\ clock \in Clock
    /\ connects \in 0 .. MaxConnects /\ serving \in BOOLEAN
    /\ leaving \in 0 .. connects /\ (serving => leaving < connects)

\* However connections replace one another, at most one that is open has a
\* reader, and it is the one that calls are written to (ServeHTTP, Close).
OneLink ==
    \A s \in open : reader[s] # "over" => s = conn

\* A call returns the answer to its own request, or that of a call made in the
\* same tick of the clock; a late answer never goes to a later call.
AnswersMatch ==
    \A c \in Calls :
       got[c] \notin {NoCall, c} => caller[got[c]].echo = caller[c].echo

\* The reader is held up only by calls that share an echo: an answer that
\* comes as its call gives up is taken by the buffer.
ReaderGoesOn ==
    \A s \in Socks :
       reader[s] = "handing" /\ box[task[s].to] # NoCall => Shared(task[s].to)

\* Whoever is in `pending' is there under its own echo and still at work.
PendingIsLive ==
    \A e \in Clock :
       pending[e] # NoCall =>
          /\ caller[pending[e]].at \in Underway
          /\ caller[pending[e]].echo = e

\* A connection that broke is given up, unless calls with one echo have
\* blocked its reader: the next call fails at once instead of waiting.
DeadLinkDropped ==
    \A s \in Socks :
       (conn = s /\ s \notin open) ~> (conn # s \/ \E c \in Calls : Shared(c))

\* An answer of QQ goes to the call that asked, through reconnects, time-outs
\* and late answers, and the reader of the one link there is goes on.
LinkSafe == LinkTypeOK /\ AnswersMatch /\ OneLink /\ ReaderGoesOn /\ PendingIsLive
=============================================================================
