------------------------------ MODULE PageRender ------------------------------
(***************************************************************************)
(* browser_render: a disposable headless browser loads a page, and a loop  *)
(* looks at it until it has come to rest (headless_browser_cdp.go,         *)
(* headless_browser.go).                                                   *)
(*                                                                         *)
(* Four parties act at once.  The page moves on by itself: scripts change  *)
(* it, it is loaded further, it asks for another document.  A callback     *)
(* notes the browser's events in a tracker.  A goroutine per document      *)
(* request lets it through or fails it.  And the loop polls: it copies the *)
(* tracker, probes the page, perhaps captures it, and at the end captures  *)
(* it once more; the page may have changed between any two of these.       *)
(*                                                                         *)
(* A page's content is the number of its version: contents that differ     *)
(* have different signatures.  The counts of mutations, the chain of       *)
(* navigations and the parsing of the document are left out; a page that   *)
(* has nothing to read is version 0.                                       *)
(***************************************************************************)
EXTENDS Integers, Sequences, SequencesExt

CONSTANTS
    Urls,           \* documents the page may ask for
    Refused,        \* those validateSandboxedBrowserURL refuses
    Stability, NetworkIdle, Budget,     \* StabilityWindow, NetworkIdleWindow, VirtualTimeBudget
    LoadingStable,  \* browserLoadingStableWindow
    PageTimeout, Hardest,       \* Timeout, MaxAllowedBrowserTimeoutMS
    MaxChanges      \* bound: changes of the text, resources and documents asked
                    \* for, and times that pass during a call to the browser

ASSUME RenderAssumption ==
    /\ {Stability, NetworkIdle, Budget, LoadingStable, PageTimeout, Hardest} \subseteq Nat \ {0}
    /\ MaxChanges \in Nat /\ Refused \subseteq Urls

VARIABLES
    time,       \* since the render began
    page,       \* what the browser shows: url, version, ready
    paused,     \* the document request the browser holds back, or NoUrl
    changes,    \* what the page did by itself so far
    tracker,    \* browserActivityTracker: navigated, network, loading, pending, blocked
    loop,       \* where renderObservable is: its deadline, its last poll, and the
                \* time and the page's version when its call to the browser began
    seen,       \* its last snapshot of the tracker
    readiness,  \* renderReadiness: url, version, ready, since
    decision,   \* the last renderDecision, if it found the page stable
    captures,   \* captured pages: url and version
    captured,   \* lastCapturedSignature
    cancelled,  \* whether the caller has given up
    rendered,   \* what Render returns
    slow,       \* times that passed during calls
    moved       \* auxiliary: when the page last changed

renderVars == <<time, page, paused, changes, tracker, loop, seen, readiness, decision, captures,
                captured, cancelled, rendered, slow, moved>>

environment == <<page, paused, changes, tracker, moved>>

NoUrl == "none"
First == "first"    \* the document of the call
Error == "error"    \* the browser's page for a request that failed
NoDecision == [stable |-> FALSE, complete |-> FALSE, version |-> 0, still |-> 0]
NoLook == [none |-> TRUE]

\* Render, when the address of the call is valid and there is a browser.
RenderInit ==
    /\ time = 0 /\ moved = 0 /\ slow = 0 /\ changes = 0 /\ cancelled = FALSE
    /\ page = [url |-> NoUrl, version |-> 0, ready |-> "complete"] /\ paused = NoUrl
    /\ tracker = [navigated |-> 0, network |-> 0, loading |-> TRUE, pending |-> 0,
                  blocked |-> FALSE]
    /\ loop = [at |-> "launch", deadline |-> PageTimeout, navigation |-> -1, polled |-> 0,
               started |-> 0, from |-> 0, version |-> 0]
    /\ seen = NoLook /\ decision = NoDecision
    /\ readiness = [url |-> NoUrl, version |-> 0, ready |-> "unseen", since |-> 0]
    /\ captures = <<>> /\ captured = 0 /\ rendered = [kind |-> "none"]

LeaveRender == <<time, loop, seen, readiness, decision, captures, captured, cancelled, rendered, slow>>

Rendering == loop.at # "done"
Looking == loop.at \notin {"launch", "setup", "done"}

-----------------------------------------------------------------------------
\* The page, and what the tracker hears of it

Act == Looking /\ changes + slow < MaxChanges /\ changes' = changes + 1

\* The page's scripts change what it says.
Mutate ==
    /\ Act
    /\ page' = [page EXCEPT !.version = @ + 1] /\ moved' = time
    /\ UNCHANGED <<LeaveRender, paused, tracker>>

\* The document is parsed, and its resources are there.
Progress ==
    /\ Rendering
    /\ \/ page.ready = "loading" /\ page' = [page EXCEPT !.ready = "interactive"]
          /\ UNCHANGED tracker
       \/ page.ready = "interactive" /\ page' = [page EXCEPT !.ready = "complete"]
          /\ tracker' = [tracker EXCEPT !.loading = FALSE]
    /\ moved' = time
    /\ UNCHANGED <<LeaveRender, paused, changes>>

\* EventRequestWillBeSent, EventLoadingFinished and EventLoadingFailed of a
\* resource that counts.
Resource ==
    /\ \/ tracker.pending = 0 /\ page.ready # "loading" /\ Act
             /\ tracker' = [tracker EXCEPT !.pending = 1, !.network = time]
       \/ tracker.pending = 1 /\ paused = NoUrl /\ Rendering /\ UNCHANGED changes
             /\ tracker' = [tracker EXCEPT !.pending = 0, !.network = time]
    /\ UNCHANGED <<LeaveRender, page, paused, moved>>

\* A redirect or a script asks for a document; the request is paused.
AskDocument(u) ==
    /\ paused = NoUrl /\ Act /\ paused' = u
    /\ tracker' = [tracker EXCEPT !.pending = 1, !.network = time]
    /\ UNCHANGED <<LeaveRender, page, moved>>

Navigated(url) ==
    /\ page' = [url |-> url, version |-> page.version + 1, ready |-> "loading"]
    /\ moved' = time

\* handlePausedBrowserDocument, for a document that may be shown; the frame
\* starts to navigate and forgets its requests.
LetThrough ==
    /\ Rendering /\ paused \notin Refused \cup {NoUrl}
    /\ Navigated(paused) /\ paused' = NoUrl
    /\ tracker' = [tracker EXCEPT !.navigated = time, !.loading = TRUE, !.pending = 0]
    /\ UNCHANGED <<LeaveRender, changes>>

\* The same for one that may not: block, then FailRequest.
Block ==
    /\ Rendering /\ paused \in Refused /\ ~tracker.blocked
    /\ tracker' = [tracker EXCEPT !.blocked = TRUE]
    /\ UNCHANGED <<LeaveRender, page, paused, changes, moved>>

Refuse ==
    /\ Rendering /\ paused \in Refused /\ tracker.blocked
    /\ Navigated(Error) /\ paused' = NoUrl
    /\ tracker' = [tracker EXCEPT !.navigated = time, !.loading = TRUE, !.pending = 0]
    /\ UNCHANGED <<LeaveRender, changes>>

\* The caller's context ends.
CallerLeaves ==
    /\ Rendering /\ ~cancelled /\ cancelled' = TRUE
    /\ UNCHANGED <<environment, time, loop, seen, readiness, decision, captures, captured,
                   rendered, slow>>

-----------------------------------------------------------------------------
\* renderReadiness

\* Variant with a defect: a document that has got further counts as the same.
ChangedText == page.url # readiness.url \/ page.version # readiness.version

Changed == page.url # readiness.url \/ page.version # readiness.version \/ page.ready # readiness.ready

\* observe: what is decided of the page at this time, from the tracker as it
\* was before the probe.
Decided(since) ==
    LET still == time - since
        override == still >= 3 * Stability
        ready == \/ page.ready = "complete"
                 \/ page.ready = "interactive" /\ override
                 \/ page.ready = "loading" /\ still >= LoadingStable /\ still >= 6 * Stability
        stable == /\ ready /\ page.version > 0 /\ still >= Stability
                  /\ time - seen.navigated >= Stability
        quiet == /\ ~seen.loading /\ seen.pending = 0
                 /\ time - seen.network >= NetworkIdle
    IN  [stable |-> stable,
         complete |-> stable /\ (quiet \/ override) /\ time - loop.started >= Budget,
         version |-> page.version,
         still |-> time - moved]

-----------------------------------------------------------------------------
\* renderObservable's loop

Smaller(a, b) == IF a < b THEN a ELSE b
Larger(a, b) == IF a < b THEN b ELSE a

\* A navigation gives the page its time, within the hardest deadline.
Extended ==
    IF tracker.navigated > loop.navigation
    THEN Smaller(Hardest, Larger(loop.deadline, tracker.navigated + PageTimeout))
    ELSE loop.deadline

\* A call to the browser begins at the time and the version of the page.
LoopAt(where) ==
    IF where \in {"probe", "capture", "finish"}
    THEN [loop EXCEPT !.at = where, !.from = time, !.version = page.version]
    ELSE [loop EXCEPT !.at = where, !.from = 0, !.version = 0]

LoopGoes(where) == loop' = LoopAt(where)

\* A call to the browser fails when the page is replaced under it, or when its
\* own time is up.
Replaced == page.version # loop.version
TooSlow == time > loop.from

RenderFails(why) ==
    /\ LoopGoes("done") /\ rendered' = [kind |-> "error", why |-> why]

\* launchSandboxedChrome, which waits for the browser to say where it listens,
\* to exit, for its time to be up or for the caller.
Launch ==
    /\ loop.at = "launch"
    /\ \/ LoopGoes("setup") /\ paused' = First /\ UNCHANGED rendered
       \/ RenderFails("launch") /\ UNCHANGED paused
    /\ UNCHANGED <<page, changes, tracker, moved, time, seen, readiness, decision, captures,
                   captured, cancelled, slow>>

\* The commands that set the page up; the last, Navigate, returns when the
\* document has come, or fails.
Setup ==
    /\ loop.at = "setup"
    /\ \/ page.url = First /\ ~cancelled /\ UNCHANGED rendered
          /\ loop' = [LoopAt("top") EXCEPT !.started = time, !.polled = time]
       \/ RenderFails(IF tracker.blocked THEN "blocked" ELSE "setup")
    /\ UNCHANGED <<environment, time, seen, readiness, decision, captures, captured, cancelled, slow>>

\* The head of the loop
Top ==
    /\ loop.at = "top"
    /\ loop' = [LoopAt(IF time >= Extended THEN "finish" ELSE "wait") EXCEPT
                   !.deadline = Extended, !.navigation = Larger(@, tracker.navigated)]
    /\ UNCHANGED <<environment, time, seen, readiness, decision, captures, captured, cancelled,
                   rendered, slow>>

\* ctx.Done; when the ticker has ticked as well, either is taken.
SeeCancelled ==
    /\ loop.at = "wait" /\ cancelled
    /\ \/ captures # <<>> /\ LoopGoes("finish") /\ UNCHANGED rendered
       \/ captures = <<>> /\ RenderFails("cancelled")
    /\ UNCHANGED <<environment, time, seen, readiness, decision, captures, captured, cancelled, slow>>

\* The ticker: a copy of the tracker is made, which may say that a document
\* was refused.
PollPage ==
    /\ loop.at = "wait" /\ time > loop.polled
    /\ \/ tracker.blocked /\ RenderFails("blocked") /\ UNCHANGED seen
       \/ ~tracker.blocked /\ seen' = tracker /\ loop' = [LoopAt("probe") EXCEPT !.polled = time]
          /\ UNCHANGED rendered
    /\ UNCHANGED <<environment, time, readiness, decision, captures, captured, cancelled, slow>>

\* A probe whose page was replaced is made again at the next tick.  One that
\* took too long ends the render, and so does one the caller gave up on,
\* whatever was captured before.
ProbeFails ==
    /\ loop.at = "probe"
    /\ seen' = NoLook
    /\ \/ Replaced /\ LoopGoes("top") /\ UNCHANGED rendered
       \/ (cancelled \/ TooSlow) /\ RenderFails("probe")
    /\ UNCHANGED <<environment, time, readiness, decision, captures, captured, cancelled, slow>>

\* The probe answers: observe, and what follows from its decision.
Probe ==
    LET since == IF Changed THEN time ELSE readiness.since
        d == Decided(since)
    IN  /\ loop.at = "probe" /\ ~cancelled
        /\ readiness' = [url |-> page.url, version |-> page.version, ready |-> page.ready,
                         since |-> since]
        /\ decision' = IF d.stable THEN d ELSE NoDecision
        /\ seen' = NoLook
        /\ LoopGoes(IF d.stable /\ page.version # captured THEN "capture"
                ELSE IF d.complete THEN "finish" ELSE "top")
        /\ UNCHANGED <<environment, time, captures, captured, cancelled, rendered, slow>>

PageNow == [url |-> page.url, version |-> page.version]

\* appendOrReplaceCapturedPage
Recaptured ==
    IF captures # <<>> /\ Last(captures).url = page.url
    THEN [captures EXCEPT ![Len(captures)] = PageNow] ELSE Append(captures, PageNow)

\* captureObservablePage within the loop: what is captured is the page as it is
\* by now.
Capture ==
    /\ loop.at = "capture"
    /\ \/ ~cancelled /\ captures' = Recaptured /\ captured' = decision.version
       \/ (cancelled \/ Replaced \/ TooSlow) /\ UNCHANGED <<captures, captured>>
    /\ LoopGoes(IF decision.complete THEN "finish" ELSE "top")
    /\ UNCHANGED <<environment, time, seen, readiness, decision, cancelled, rendered, slow>>

\* previousPageSnapshots, of which there are three at most
Previous(url) ==
    LET start == Larger(0, Len(captures) - 3)
    IN  SelectSeq(SubSeq(captures, start + 1, Len(captures)), LAMBDA c : c.url # url)

RenderReturns(p, live) ==
    /\ LoopGoes("done")
    /\ rendered' = [kind |-> "page", page |-> p, live |-> live, stable |-> decision.complete,
                    previous |-> Previous(p.url)]

\* finishObservableRender takes the page as it is by now, and the last capture
\* when it cannot be read.  Render's deferred functions stop the browser and
\* remove its directory.
FinishRender ==
    /\ loop.at = "finish"
    /\ \/ ~cancelled /\ RenderReturns(PageNow, TRUE)
       \/ (cancelled \/ Replaced \/ TooSlow) /\ captures # <<>> /\ RenderReturns(Last(captures), FALSE)
       \/ (cancelled \/ Replaced \/ TooSlow) /\ captures = <<>> /\ RenderFails("unreadable")
    /\ UNCHANGED <<environment, time, seen, readiness, decision, captures, captured, cancelled, slow>>

-----------------------------------------------------------------------------
\* Time passes while the loop waits for its tick, or while the browser takes
\* its time over a call.
PassTime ==
    /\ \/ loop.at = "wait" /\ time = loop.polled /\ UNCHANGED slow
       \/ loop.at \in {"launch", "setup", "probe", "capture", "finish"} /\ changes + slow < MaxChanges /\ slow' = slow + 1
    /\ time' = time + 1
    /\ UNCHANGED <<environment, loop, seen, readiness, decision, captures, captured, cancelled,
                   rendered>>

RenderNext ==
    \/ Mutate \/ Progress \/ Resource \/ LetThrough \/ Block \/ Refuse \/ CallerLeaves
    \/ \E u \in Urls : AskDocument(u)
    \/ Launch \/ Setup \/ Top \/ SeeCancelled \/ PollPage \/ ProbeFails \/ Probe \/ Capture \/ FinishRender \/ PassTime
    \/ ~Rendering /\ UNCHANGED renderVars

-----------------------------------------------------------------------------
\* A page that is returned as stable had, when it was found so, not changed
\* for the stability window, neither its text nor its address nor its state,
\* although it moves on between the copy of the tracker and the probe.
StableHasSettled ==
    rendered.kind = "page" /\ rendered.stable => decision.still >= Stability

\* Whatever the page does, redirects without end included, the loop does not
\* outlive the hardest deadline but for the one call it is in.
RenderEndsInTime == Rendering => time <= Hardest + slow + 1

\* A page is called stable only if it was still, and no page holds the renderer
\* beyond its last deadline.
RenderSafe == StableHasSettled /\ RenderEndsInTime
=============================================================================
