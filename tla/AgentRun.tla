------------------------------ MODULE AgentRun ------------------------------
(***************************************************************************)
(* The runs of a language model: runLLMProvider and its router variants    *)
(* (runtime.go), and for a chat reply the tool loop of Runner.Run          *)
(* (agent/runner.go), all on the provider of ModelFailover.                *)
(*                                                                         *)
(* The loop asks the model, runs the tool it names and shows it the        *)
(* result, until the model answers, a budget is spent or the time kept for *)
(* the final answer begins; then it asks once more, without tools.  What a *)
(* message says is left out: "observed" counts the tool results in them.   *)
(***************************************************************************)
EXTENDS ModelFailover

CONSTANTS
    Calls,          \* tool calls: a tool and its input
    Searches,       \* those of web_search.search
    Deadline,       \* BotConfig.RequestTimeout
    Reserve,        \* FinalizationReserveMS
    ToolTimeout,    \* ToolTimeoutMS
    MaxSteps,
    RepairLimit,    \* ProtocolRepairLimit
    SearchLimit,    \* maxWebSearchCallsPerAgentRun
    MaxAgentRuns    \* bound: runs

ASSUME AgentConstants ==
    /\ Searches \subseteq Calls
    /\ {Reserve, MaxSteps, RepairLimit, SearchLimit, Deadline, ToolTimeout}
          \subseteq Nat \ {0}
    /\ MaxAgentRuns \in Nat

VARIABLES
    loop,       \* Runner.Run of each run
    started,
    overran     \* runs of which a tool outlived its context

agentVars == <<failoverVars, loop, started, overran>>

Kinds == {"agent", "chat", "route", "once", "rule"}
NoTool == "no tool"
Resting == [pc |-> "rest"]

Least(a, b) == IF a < b THEN a ELSE b

\* adaptiveFinalizationReserve
AdaptiveReserve(remaining) == Least(Reserve, remaining \div 3)

At(r, pc) == loop[r].pc = pc
Goto(r, pc) == loop' = [loop EXCEPT ![r].pc = pc]
Change(r, new) == loop' = [loop EXCEPT ![r] = new]

InitialSet ==
    LET ids == SetToSeq(ProfileIds)
    IN  [active |-> ids[1],
         profiles |-> [i \in DOMAIN ids |->
             [id |-> ids[i], group |-> "chat", version |-> 0]]]

AgentInit ==
    /\ set = InitialSet
    /\ saving = [w \in AgentRuns \cup Requests |-> NotSaving]
    /\ gen = [r \in AgentRuns |-> NoProvider]
    /\ left = [r \in AgentRuns |-> 0] /\ cutoff = left
    /\ cancelled = [r \in AgentRuns |-> FALSE]
    /\ edits = 0
    /\ loop = [r \in AgentRuns |-> Resting]
    /\ started = 0
    /\ overran = [r \in AgentRuns |-> FALSE]

-----------------------------------------------------------------------------

NewLoop(kind) ==
    [kind |-> kind, pc |-> IF kind = "agent" THEN "plan" ELSE "close",
     toolCalls |-> 0, searches |-> 0, repairs |-> 0,
     last |-> NoTool, ran |-> <<>>, observed |-> 0,
     closing |-> kind # "agent", reason |-> "final"]

\* runLLMProvider: a run copies the profiles and begins.  One that is not an
\* agent's calls Generate once, and has no tools.
StartRun(r) ==
    /\ At(r, "rest") /\ started < MaxAgentRuns
    /\ \E kind \in Kinds :
          /\ \E p \in Providers(IF kind = "agent" THEN "chat" ELSE kind) :
                gen' = [gen EXCEPT ![r] = p]
          /\ Change(r, NewLoop(kind))
    /\ left' = [left EXCEPT ![r] = Deadline]
    /\ cutoff' = [cutoff EXCEPT ![r] = 0]
    /\ started' = started + 1
    /\ UNCHANGED <<storeVars, cancelled, overran>>

\* What the loop is left for: the last call, without tools.
Close(r, l, reason) ==
    Change(r, [l EXCEPT !.pc = "close", !.closing = TRUE, !.reason = reason])

\* The head of the loop, and contextWithFinalizationReserve.
Plan(r) ==
    LET l == loop[r]
        reserve == AdaptiveReserve(left[r])
    IN  /\ At(r, "plan")
        /\ IF l.toolCalls = MaxSteps
           THEN Close(r, l, "tool_budget_exhausted") /\ UNCHANGED <<gen, cutoff>>
           ELSE IF left[r] <= reserve
           THEN Close(r, l, "finalization_reserved") /\ UNCHANGED <<gen, cutoff>>
           ELSE Generate(r, reserve) /\ Goto(r, "asked")
        /\ UNCHANGED <<storeVars, left, cancelled, started, overran>>

\* The last Generate.
AskLast(r) ==
    /\ At(r, "close") /\ Generate(r, 0) /\ Goto(r, "asked")
    /\ UNCHANGED <<storeVars, left, cancelled, started, overran>>

GenerateReturned(r, results) ==
    At(r, "asked") /\ gen[r].pc = "returned" /\ gen[r].result \in results

StoreOnly == UNCHANGED <<storeVars, started>>

\* The loop goes on with the provider it has.
GoOn(r) ==
    /\ gen' = [gen EXCEPT ![r] = Kept(@)]
    /\ UNCHANGED <<left, cutoff, cancelled, overran>> /\ StoreOnly

\* The result goes to the caller, and the provider is dropped.
End(r) ==
    /\ loop' = [loop EXCEPT ![r] = Resting]
    /\ gen' = [gen EXCEPT ![r] = NoProvider]
    /\ left' = [left EXCEPT ![r] = 0] /\ cutoff' = [cutoff EXCEPT ![r] = 0]
    /\ cancelled' = [cancelled EXCEPT ![r] = FALSE]
    /\ overran' = [overran EXCEPT ![r] = FALSE]
    /\ StoreOnly

\* A deadline that is not the run's own leaves time for the final answer.
NoReply(r) ==
    /\ GenerateReturned(r, {"ended", "late", "transient", "switch", "fatal"})
    /\ IF /\ ~loop[r].closing /\ gen[r].result \in {"ended", "late"}
          /\ left[r] > 0 /\ ~cancelled[r]
       THEN Close(r, loop[r], "finalization_reserved") /\ GoOn(r)
       ELSE End(r)

\* A final action, plain text, or whatever the last call says.
FinalReply(r) == GenerateReturned(r, {"ok"}) /\ End(r)

\* Variant with a defect: the loop does not count what it did not carry out.
RepairedForFree(r, l) == Change(r, [l EXCEPT !.pc = "plan"])

\* An action that is not carried out: the model is told why, and asked again.
Repaired(r, l) ==
    LET next == [l EXCEPT !.repairs = @ + 1, !.pc = "plan"]
    IN  IF next.repairs >= RepairLimit
        THEN Close(r, next, "protocol_repair_exhausted") ELSE Change(r, next)

\* It cannot be parsed, is neither "tool" nor "final", or names no tool.
BadAction(r) ==
    GenerateReturned(r, {"ok"}) /\ ~loop[r].closing /\ Repaired(r, loop[r]) /\ GoOn(r)

Duplicate(l, call) == call = l.last
TooManySearches(l, call) == call \in Searches /\ l.searches >= SearchLimit

SkipCall(r) ==
    /\ GenerateReturned(r, {"ok"}) /\ ~loop[r].closing /\ GoOn(r)
    /\ \E call \in Calls :
          /\ Duplicate(loop[r], call) \/ TooManySearches(loop[r], call)
          /\ Repaired(r, loop[r])

CallTool(r) ==
    /\ GenerateReturned(r, {"ok"}) /\ ~loop[r].closing /\ GoOn(r)
    /\ \E call \in Calls :
          /\ ~Duplicate(loop[r], call) /\ ~TooManySearches(loop[r], call)
          /\ Change(r, [loop[r] EXCEPT
                 !.pc = "tool", !.toolCalls = @ + 1, !.last = call,
                 !.searches = IF call \in Searches THEN @ + 1 ELSE @,
                 !.ran = Append(@, call)])

\* Variant with a defect: a tool may use the time kept for the answer.
ToolBudgetWhole(remaining) == Least(ToolTimeout, remaining)

\* contextWithToolBudget
ToolBudget(remaining) == Least(ToolTimeout, remaining - AdaptiveReserve(remaining))

\* Variant with a defect: the model does not see that a tool failed.
ObserveOutput(l, result) ==
    [l EXCEPT !.observed = IF result = "output" THEN @ + 1 ELSE @]

\* toolObservationMessage: what the tool returned, an error too, is a message.
Observe(l, result) == [l EXCEPT !.observed = @ + 1]

\* The tool succeeds, fails or gives the answer itself, at once or when its
\* time is up; or it does not heed its context.
RunTool(r) ==
    /\ At(r, "tool")
    /\ \/ End(r)
       \/ /\ \/ \E time \in {0, ToolBudget(left[r])} :
                   left' = [left EXCEPT ![r] = @ - time] /\ UNCHANGED overran
             \/ /\ left' = [left EXCEPT ![r] = 0]
                /\ overran' = [overran EXCEPT ![r] = TRUE]
          /\ \E result \in {"output", "error"} :
                Change(r, [Observe(loop[r], result) EXCEPT !.pc = "plan"])
          /\ UNCHANGED <<gen, cutoff, cancelled>> /\ StoreOnly

\* The caller gives up.  What the loop does between two calls does not look
\* at the context, so that a call is where it is noticed.
Cancel(r) ==
    /\ gen[r].pc = "call" /\ ~cancelled[r]
    /\ cancelled' = [cancelled EXCEPT ![r] = TRUE]
    /\ UNCHANGED <<storeVars, gen, left, cutoff, loop, started, overran>>

RunStep(r) ==
    \/ StartRun(r) \/ Plan(r) \/ AskLast(r) \/ NoReply(r) \/ FinalReply(r)
    \/ BadAction(r) \/ SkipCall(r) \/ CallTool(r) \/ RunTool(r)
    \/ /\ ProviderStep(r) /\ UNCHANGED <<loop, started, overran>>

AgentNext ==
    \/ \E r \in AgentRuns : RunStep(r) \/ Cancel(r)
    \/ \E c \in Requests :
          ConsoleStep(c) /\ UNCHANGED <<loop, started, overran>>

\* A model call and a tool return: each has a context with a deadline.
AgentSpec ==
    AgentInit /\ [][AgentNext]_agentVars /\ \A r \in AgentRuns : WF_agentVars(RunStep(r))

-----------------------------------------------------------------------------
(* Properties. *)

Asking(r) == At(r, "asked")

\* One type invariant.
AgentTypeOK ==
    /\ \A r \in AgentRuns :
          /\ left[r] \in 0 .. Deadline /\ cutoff[r] \in 0 .. Deadline
          /\ loop[r] # Resting => /\ loop[r].toolCalls \in 0 .. MaxSteps
                                  /\ loop[r].repairs \in 0 .. RepairLimit
          /\ loop[r] # Resting /\ ~cancelled[r] => left[r] >= 0
    /\ set.active \in IdsOf(set)

\* A tool is never run twice in a row with the same input, and no run makes
\* more than its share of web searches, whatever repairs lie between.
NoRepeatedCalls ==
    \A r \in AgentRuns : loop[r] # Resting =>
        LET ran == loop[r].ran
        IN  /\ \A i \in 1 .. Len(ran) - 1 : ran[i] # ran[i + 1]
            /\ Len(SelectSeq(ran, LAMBDA c : c \in Searches)) <= SearchLimit

\* Whenever the model is asked, it is shown the result of every tool that ran,
\* the failed ones too, whichever profile is asked and however often: the last
\* result is not swallowed when a budget is spent.
ResultsReachTheModel ==
    \A r \in AgentRuns : Asking(r) => loop[r].observed = Len(loop[r].ran)

\* Unless a tool ignored its deadline, some time is left when the loop closes:
\* planning and tools leave the reserve alone, retries and failover included.
TimeForTheAnswer ==
    \A r \in AgentRuns : At(r, "close") /\ ~overran[r] => left[r] > 0

\* A Generate that fails, though its time was not up and the error did not
\* forbid another profile, has tried every profile of the list, from whichever
\* it began.
FailsOnlyWhenExhausted ==
    \A r \in AgentRuns :
        /\ Asking(r) /\ gen[r].pc = "returned"
        /\ gen[r].result \in {"late", "transient", "switch"}
        => gen[r].tried = DOMAIN gen[r].list

\* Every run ends: each turn of the loop spends a tool call or a repair.
EveryRunEnds == \A r \in AgentRuns : loop[r] # Resting ~> loop[r] = Resting

\* What the console saved is not taken back by a run of the model.
ConsoleSettingsStand ==
    [][\A p \in ToSet(set.profiles), q \in ToSet(set'.profiles) :
          p.id = q.id => q.version >= p.version]_agentVars

\* A run asks its model for the last time with every result before it and with
\* time left, whichever budget ran out first.
RunSafe == AgentTypeOK /\ ResultsReachTheModel /\ TimeForTheAnswer
=============================================================================
