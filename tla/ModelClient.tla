---------------------------- MODULE ModelClient ----------------------------
(***************************************************************************)
(* One call of an OpenAI-compatible model (openai_compatible.go): what is  *)
(* sent of the conversation (ContextBudget), the request, and the answer   *)
(* that comes as a stream of events.                                       *)
(*                                                                         *)
(* Chat Completions has a timer for the headers and, while the body is     *)
(* read in a goroutine, another for its silences; the Responses API has    *)
(* one for the whole request.  A timer may fire while what it waits for    *)
(* arrives.  The text a model says is a sequence of parts, each made of    *)
(* chunks; a stream brings it in deltas, in snapshots or in both.          *)
(***************************************************************************)
EXTENDS ContextBudget

CONSTANTS
    Conversations,  \* sequences of messages, of which the last is the current one
    Limits,         \* the total budgets a profile may have
    Output,         \* MaxOutputTokens
    Chunks,         \* the number of chunks of each part of the text
    Timeout         \* ProviderConfig.Timeout, in ticks

ASSUME ClientConstants ==
    /\ Timeout \in Nat \ {0} /\ Output \in Nat /\ Limits \subseteq Nat
    /\ Chunks \in Seq(Nat \ {0})
    /\ \A ms \in Conversations : ms \in Seq(Prompts) /\ Last(ms).priority = Current

VARIABLES
    call,     \* how far the call is, and what it returns
    request,  \* the conversation, its budget, and what is sent of it
    timer,    \* of the headers, or of the whole request
    waited,      \* ticks since the timer was set, or the silence began to count
    silence,  \* whole ticks before this one without a byte, and whether one came in it
    aborted,  \* the request's context has ended
    ended,    \* the caller's context has ended
    body,     \* of the response: none, open or closed
    stream,   \* its events, the one that comes next, and how it is to end
    wire,     \* events that have come and have not been read
    reader,   \* whoever decodes the stream
    acc,      \* openAIStreamTextAccumulator
    activity  \* the reader has told that something came

timeVars == <<timer, waited, silence>>
streamVars == <<stream, wire, acc, activity>>
clientVars ==
    <<call, request, timeVars, aborted, ended, body, streamVars, reader>>

NoStream == [of |-> <<>>, part |-> 1, nth |-> 1, end |-> "none"]
NoRequest == [said |-> <<>>, budget |-> 0, sent |-> <<>>]

ClientInit ==
    /\ call \in [at : {"new"}, chat : BOOLEAN, outcome : {"none"}, text : {<<>>}]
    /\ request = NoRequest /\ timer = "off" /\ waited = 0 /\ silence = [ticks |-> 0, broken |-> FALSE]
    /\ aborted = FALSE /\ ended = FALSE /\ body = "none"
    /\ stream = NoStream /\ wire = <<>> /\ reader = "none"
    /\ acc = <<>> /\ activity = FALSE

-----------------------------------------------------------------------------
\* What a model says, and the streams it may come in

\* The first n chunks of a part
Beginning(p, n) == [i \in 1 .. n |-> <<p, i>>]
PartText(p) == Beginning(p, Chunks[p])
WholeText == FlattenSeq([p \in DOMAIN Chunks |-> PartText(p)])

Event(kind, key, text) == [kind |-> kind, key |-> key, text |-> text]
Snapshot(p, key, n) == Event("done", key, Beginning(p, n))

\* The events of a part that comes in deltas, as a snapshot, as both, or as a
\* snapshot that follows an earlier one.
PartEvents(p, key) ==
    LET deltas == [i \in 1 .. Chunks[p] |-> Event("delta", key, <<<<p, i>>>>)]
        full == Snapshot(p, key, Chunks[p])
    IN  [deltas |-> deltas, full |-> <<full>>, both |-> Append(deltas, full),
         grown |-> <<Snapshot(p, key, 1), full>>]

\* The last event has the whole text or none of it.
LastEvent(whole) == <<Event("whole", 0, IF whole THEN WholeText ELSE <<>>)>>
Stream(ways, indexed, whole) ==
    Append([p \in DOMAIN Chunks |-> PartEvents(p, IF indexed THEN p ELSE 0)[ways[p]]],
           LastEvent(whole))

\* A text without indexes comes in one way.
Ways(chat) == IF chat THEN {"deltas"} ELSE {"deltas", "full", "both", "grown"}
Streams(chat) ==
    LET Some(whole) ==
            {Stream(ways, TRUE, whole) : ways \in [DOMAIN Chunks -> Ways(chat)]}
            \cup {Stream([p \in DOMAIN Chunks |-> way], FALSE, whole) :
                     way \in Ways(chat) \cap {"deltas", "full"}}
    IN  Some(TRUE) \cup Some(FALSE) \cup {<<LastEvent(TRUE)>>}

MoreToCome == stream.part <= Len(stream.of)

-----------------------------------------------------------------------------
\* openAIStreamTextAccumulator

TextOf(parts) == FlattenSeq([i \in DOMAIN parts |-> parts[i].text])

\* Variant with a defect: a snapshot that has grown counts as another text.
ReconciledIfSame(current, snapshot) ==
    IF current = snapshot THEN current ELSE current \o snapshot

\* reconcileOpenAITextSnapshot
Reconciled(current, snapshot) ==
    IF IsPrefix(current, snapshot) THEN snapshot
    ELSE IF IsPrefix(snapshot, current) THEN current ELSE current \o snapshot

Parts(parts, key) == {i \in DOMAIN parts : parts[i].key = key}
TextAt(parts, key) ==
    IF Parts(parts, key) = {} THEN <<>> ELSE parts[CHOOSE i \in Parts(parts, key) : TRUE].text

SetText(parts, key, text) ==
    IF Parts(parts, key) # {}
    THEN [i \in DOMAIN parts |->
             IF parts[i].key = key THEN [parts[i] EXCEPT !.text = text] ELSE parts[i]]
    ELSE Append(parts, [key |-> key, text |-> text])

\* append, applySnapshot and applyGlobalSnapshot; key 0 is that of an event
\* without an index, whose snapshot is appended like a delta.
Applied(parts, e) ==
    IF e.text = <<>> THEN parts
    ELSE CASE e.kind = "delta" \/ (e.kind = "done" /\ e.key = 0) ->
                 SetText(parts, e.key, TextAt(parts, e.key) \o e.text)
           [] e.kind = "done" /\ e.key # 0 ->
                 SetText(parts, e.key, Reconciled(TextAt(parts, e.key), e.text))
           [] e.kind = "whole" ->
                 <<[key |-> 0, text |-> Reconciled(TextOf(parts), e.text)]>>

-----------------------------------------------------------------------------
\* The request

\* Generate, before the request is made: a request with no message left of it
\* is refused.
PrepareCall ==
    /\ call.at = "new"
    /\ \E ms \in Conversations, limit \in Limits :
          LET budget == InputBudget(limit, Output)
              sent == Fit(ms, budget)
          IN  /\ request' = [said |-> ms, budget |-> budget, sent |-> sent]
              /\ call' = IF DOMAIN sent = {} THEN [call EXCEPT !.at = "returned", !.outcome = "invalid"]
                         ELSE [call EXCEPT !.at = "prepared"]
    /\ UNCHANGED <<timeVars, aborted, ended, body, streamVars, reader>>

\* The timer is set and the request made; what was sent is looked at no more.
Send ==
    /\ call.at = "prepared" /\ call' = [call EXCEPT !.at = "waiting"]
    /\ request' = NoRequest /\ timer' = "set"
    /\ UNCHANGED <<waited, silence, aborted, ended, body, streamVars, reader>>

\* time.AfterFunc: the timer ends the request, and then says that it has.
TimerFires ==
    /\ timer = "set" /\ waited >= Timeout
    /\ timer' = "fired" /\ aborted' = TRUE
    /\ UNCHANGED <<call, request, waited, silence, ended, body, streamVars, reader>>

TimerDone ==
    /\ timer = "fired" /\ timer' = "done"
    /\ UNCHANGED <<call, request, waited, silence, aborted, ended, body, streamVars, reader>>

CallerGivesUp ==
    /\ call.at \in {"waiting", "answered", "joining", "reading"} /\ ~ended
    /\ ended' = TRUE /\ aborted' = TRUE
    /\ UNCHANGED <<call, request, timeVars, body, streamVars, reader>>

\* client.Do returns: an error, or the headers of an answer
Answer ==
    /\ call.at = "waiting" /\ call' = [call EXCEPT !.at = "answered"]
    /\ \/ UNCHANGED <<body, stream>>
       \/ /\ ~aborted /\ body' = "open"
          /\ \E s \in Streams(call.chat) : stream' = [NoStream EXCEPT !.of = s, !.end = "complete"]
    /\ UNCHANGED <<request, timeVars, aborted, ended, wire, acc, activity, reader>>

Return(outcome, text) ==
    call' = [call EXCEPT !.at = "returned", !.outcome = outcome, !.text = text]

\* The deferred calls: the body is closed, the request ended.
CloseAll == aborted' = TRUE /\ body' = IF body = "open" THEN "closed" ELSE body

\* doChatCompletionRequest, with a timer that has not fired yet; the Responses
\* API's runs on.
HeadersCame ==
    /\ call.at = "answered" /\ (call.chat => timer = "set")
    /\ IF body = "none"
       THEN Return("error", <<>>) /\ CloseAll /\ timer' = "stopped" /\ UNCHANGED <<waited, silence, reader>>
       ELSE /\ call' = [call EXCEPT !.at = "reading"] /\ reader' = "reading"
            /\ timer' = IF call.chat THEN "stopped" ELSE timer
            /\ waited' = IF call.chat THEN 0 ELSE waited
            /\ silence' = [ticks |-> 0, broken |-> FALSE] /\ UNCHANGED <<aborted, body>>
    /\ UNCHANGED <<request, ended, streamVars>>

\* The timer has fired: what it does is waited for, and the answer dropped.
HeadersLate ==
    /\ call.at = "answered" /\ call.chat /\ timer \in {"fired", "done"}
    /\ call' = [call EXCEPT !.at = "joining"]
    /\ UNCHANGED <<request, timeVars, aborted, ended, body, streamVars, reader>>

JoinTimer ==
    /\ call.at = "joining" /\ timer = "done"
    /\ Return(IF ended THEN "cancelled" ELSE "timeout", <<>>) /\ CloseAll
    /\ UNCHANGED <<request, timeVars, ended, streamVars, reader>>

-----------------------------------------------------------------------------
\* The body

\* The next event comes.
Arrives ==
    /\ body = "open" /\ ~aborted /\ MoreToCome /\ wire = <<>>
    /\ wire' = <<stream.of[stream.part][stream.nth]>>
    /\ stream' = IF stream.nth < Len(stream.of[stream.part]) THEN [stream EXCEPT !.nth = @ + 1]
                 ELSE [stream EXCEPT !.part = @ + 1, !.nth = 1]
    /\ silence' = [silence EXCEPT !.broken = TRUE]
    /\ UNCHANGED <<call, request, timer, waited, aborted, ended, body, acc, activity, reader>>

\* The stream ends early: broken, or as if it were complete.
BreaksOff ==
    /\ body = "open" /\ MoreToCome
    /\ \E end \in {"broken", "cut"} : stream' = [NoStream EXCEPT !.end = end]
    /\ UNCHANGED <<call, request, timeVars, aborted, ended, body, wire, acc, activity, reader>>

\* openAIActivityReader.Read and the decoding of what it has read
Read ==
    /\ reader = "reading" /\ body = "open" /\ wire # <<>>
    /\ acc' = Applied(acc, wire[1]) /\ wire' = <<>> /\ activity' = call.chat
    /\ UNCHANGED <<call, request, timeVars, aborted, ended, body, stream, reader>>

ReaderFails == (body = "closed" \/ aborted) /\ reader' = "failed"

\* The end of the stream: one that ends early is taken for complete.
ReaderIsThrough ==
    /\ body = "open" /\ wire = <<>> /\ ~MoreToCome
    /\ reader' = IF stream.end = "broken" THEN "failed" ELSE "text"

\* The result waits in a channel that holds one.
ReaderEnds ==
    /\ reader = "reading" /\ (ReaderFails \/ ReaderIsThrough)
    /\ UNCHANGED <<call, request, timeVars, aborted, ended, body, streamVars>>

\* The caller takes the result.
Collect ==
    /\ call.at = "reading" /\ reader \in {"text", "failed"}
    /\ IF reader = "failed" THEN Return("error", <<>>)
       ELSE Return(IF TextOf(acc) = <<>> THEN "empty" ELSE "text", TextOf(acc))
    /\ CloseAll
    /\ UNCHANGED <<request, timeVars, ended, streamVars, reader>>

\* Variant with a defect: the timer runs on.
HeardInVain ==
    /\ call.at = "reading" /\ activity /\ activity' = FALSE
    /\ UNCHANGED <<call, request, timeVars, aborted, ended, body, stream, wire, acc, reader>>

\* readOpenAIResponseBodyWithIdleTimeout
Heard ==
    /\ call.at = "reading" /\ activity /\ activity' = FALSE /\ waited' = 0
    /\ UNCHANGED <<call, request, timer, silence, aborted, ended, body, stream, wire, acc, reader>>

IdleTooLong ==
    /\ call.at = "reading" /\ call.chat /\ waited >= Timeout
    /\ Return("timeout", <<>>) /\ CloseAll
    /\ UNCHANGED <<request, timeVars, ended, streamVars, reader>>

SeesCancel ==
    /\ call.at = "reading" /\ call.chat /\ ended
    /\ Return("cancelled", <<>>) /\ CloseAll
    /\ UNCHANGED <<request, timeVars, ended, streamVars, reader>>

\* Time passes when nothing is to be done at once.
TickCall ==
    /\ call.at \in {"waiting", "reading"} /\ waited < Timeout /\ timer # "fired"
    /\ wire = <<>> /\ ~activity /\ reader \notin {"text", "failed"}
    /\ waited' = waited + 1
    /\ silence' = [ticks |-> IF silence.broken THEN 1 ELSE silence.ticks + 1, broken |-> FALSE]
    /\ UNCHANGED <<call, request, timer, aborted, ended, body, streamVars, reader>>

Returned ==
    call.at = "returned" /\ reader # "reading" /\ UNCHANGED clientVars

ClientNext ==
    \/ PrepareCall \/ Send \/ TimerFires \/ TimerDone \/ CallerGivesUp \/ Answer
    \/ HeadersCame \/ HeadersLate \/ JoinTimer
    \/ Arrives \/ BreaksOff \/ Read \/ ReaderEnds \/ Collect
    \/ Heard \/ IdleTooLong \/ SeesCancel \/ TickCall \/ Returned

ClientSpec == ClientInit /\ [][ClientNext]_clientVars

-----------------------------------------------------------------------------
\* Type invariant of the client.
ClientTypeOK ==
    /\ call.at \in {"new", "prepared", "waiting", "answered", "joining", "reading", "returned"}
    /\ call.outcome \in {"none", "invalid", "error", "timeout", "cancelled", "empty", "text"}
    /\ timer \in {"off", "set", "fired", "done", "stopped"}
    /\ body \in {"none", "open", "closed"} /\ reader \in {"none", "reading", "text", "failed"}
    /\ waited \in 0 .. Timeout /\ Len(wire) <= 1

\* The text that is returned is what the model said, no part of it twice and
\* none missing, whatever deltas and snapshots it came in; only a stream that
\* was cut off as if complete gives the beginning of it.
SaidOnce ==
    call.outcome = "text" =>
       IF stream.end = "cut" THEN IsPrefix(call.text, WholeText) ELSE call.text = WholeText

\* A call leaves nothing behind, in whichever order timers, headers, body and
\* the caller end: its request has ended and no body is open, so that a goroutine
\* that still reads fails (ReaderFails).
NothingLeftOpen ==
    call.at = "returned" /\ call.outcome # "invalid" => aborted /\ body # "open"

\* "Chat Completions uses separate response header and stream-idle timeouts
\* instead of one deadline for the whole reply" (openai_compatible.go:82): a
\* stream is not cut off before it has been silent for the whole time-out.
StreamIsNotCut ==
    [][call.at = "reading" /\ call'.outcome = "timeout" => silence.ticks >= Timeout]_clientVars

\* What is sent keeps to the budget, but for the markup of a cut text.  The
\* current turn and what plugins found are in it, and whole if they fit beside
\* the least of the instructions; the instructions are there as well, if the
\* budget has the least for each.
TurnReachesModel ==
    LET ms == request.said  b == request.budget  sent == request.sent IN
    call.at = "prepared" =>
       /\ CostOf(sent, DOMAIN sent, Len(ms)) <= b + Markup
       /\ ProtectedFit(ms, b) => \A i \in Protected(ms) : i \in DOMAIN sent /\ sent[i] = ms[i]
       /\ Cardinality(Required(ms)) * Minimum <= b => Required(ms) \subseteq DOMAIN sent

\* A call of the model sends what matters within its budget, returns what was
\* said, once, and leaves neither body nor goroutine behind.
ClientSafe == ClientTypeOK /\ TurnReachesModel /\ SaidOnce /\ NothingLeftOpen
=============================================================================
