----------------------------- MODULE ToolServers -----------------------------
(***************************************************************************)
(* The tools of one answer: the registry that is built for it, with the    *)
(* MCP servers it starts as child processes, the calls that are made of    *)
(* them, and the registry's Close (agent/mcp.go, agent/tools.go,           *)
(* qqbot/agent_scope.go).                                                  *)
(*                                                                         *)
(* The registry is built, used and closed by one goroutine.  A server      *)
(* answers in its own time, in any order, says things nobody asked for and *)
(* may exit; what it writes goes through a channel of bounded length that  *)
(* nobody reads between two requests, and a line that finds it full is     *)
(* dropped.  A request that is given up leaves its answer behind for the   *)
(* next to skip.                                                           *)
(*                                                                         *)
(* Schemas, results' texts and the tools of the bot itself are left out.   *)
(***************************************************************************)
EXTENDS Integers, Sequences, FiniteSets, SequencesExt

CONSTANTS
    Servers,    \* the configured servers, in the order of their names
    RequiredServers,   \* those without which there is no registry
    Capacity,   \* of the channel of responses
    MaxAsked,   \* bound: requests of one server
    MaxUnasked  \* bound: lines of a server that answer nothing

ASSUME ServersAssumption ==
    /\ Servers \in Seq(Range(Servers)) /\ IsInjective(Servers)
    /\ RequiredServers \subseteq Range(Servers)
    /\ Capacity \in Nat \ {0} /\ {MaxAsked, MaxUnasked} \subseteq Nat

VARIABLES
    stage,      \* what the goroutine does: build, use or over
    building,   \* index of the server that is being added
    proc,       \* of each server: idle, up, exited or closed
    asked,      \* ids a server has read and not answered
    next,       \* nextID of its client
    responses,  \* its client's channel: ids, 0 for what nobody asked
    unasked,    \* lines that answered nothing so far
    asking,     \* the request in progress
    tools,      \* servers that have tools in the registry
    closers,    \* clients the registry closes
    refusal,    \* whether a required server kept the registry from being built
    answered    \* auxiliary: the ids the last answered request had and got

serverVars == <<stage, building, proc, asked, next, responses, unasked, asking, tools, closers,
                refusal, answered>>

Names == Range(Servers)
NoAsking == [method |-> "none"]
clientState == <<proc, asked, next, responses, unasked>>

ServersInit ==
    /\ stage = IF Servers = <<>> THEN "use" ELSE "build"
    /\ building = 1 /\ proc = [s \in Names |-> "idle"] /\ asked = [s \in Names |-> {}]
    /\ next = [s \in Names |-> 0] /\ responses = [s \in Names |-> <<>>] /\ unasked = 0
    /\ asking = NoAsking /\ tools = {} /\ closers = {} /\ refusal = FALSE
    /\ answered = <<0, 0>>

-----------------------------------------------------------------------------
\* What a server does

\* readStdout: a line that finds no room is dropped.
Written(s, id) ==
    responses' = IF Len(responses[s]) < Capacity
                 THEN [responses EXCEPT ![s] = Append(@, id)] ELSE responses

ServerAnswers(s) ==
    /\ proc[s] = "up"
    /\ \E id \in asked[s] :
          Written(s, id) /\ asked' = [asked EXCEPT ![s] = @ \ {id}]
    /\ UNCHANGED <<stage, building, proc, next, unasked, asking, tools, closers, refusal, answered>>

ServerNotifies(s) ==
    /\ proc[s] = "up" /\ unasked < MaxUnasked
    /\ Written(s, 0) /\ unasked' = unasked + 1
    /\ UNCHANGED <<stage, building, proc, asked, next, asking, tools, closers, refusal, answered>>

ServerExits(s) ==
    /\ proc[s] = "up" /\ proc' = [proc EXCEPT ![s] = "exited"]
    /\ asked' = [asked EXCEPT ![s] = {}]
    /\ UNCHANGED <<stage, building, next, responses, unasked, asking, tools, closers, refusal,
                   answered>>

-----------------------------------------------------------------------------
\* MCPStdioClient

\* asking, up to its wait: a server that has gone does not read what is
\* written.  after says what the request is for.
Asking(s, after) ==
    /\ next[s] < MaxAsked /\ next' = [next EXCEPT ![s] = @ + 1]
    /\ asking' = [method |-> after, server |-> s, id |-> next[s] + 1]
    /\ asked' = IF proc[s] = "up" THEN [asked EXCEPT ![s] = @ \cup {next[s] + 1}] ELSE asked

\* Variant with a defect: the first answer is taken for the answer.
MatchesAny(id) == id # 0

Matches(id) == id = asking.id

\* request: a line that is not its answer is skipped.
Skip ==
    /\ asking # NoAsking /\ responses[asking.server] # <<>>
    /\ ~Matches(Head(responses[asking.server]))
    /\ responses' = [responses EXCEPT ![asking.server] = Tail(@)]
    /\ UNCHANGED <<stage, building, proc, asked, next, unasked, asking, tools, closers, refusal,
                   answered>>

\* A line that is: with a result or with an error.
TakesAnswer ==
    /\ asking # NoAsking /\ responses[asking.server] # <<>>
    /\ Matches(Head(responses[asking.server]))
    /\ responses' = [responses EXCEPT ![asking.server] = Tail(@)]
    /\ answered' = <<asking.id, Head(responses[asking.server])>>

\* The asking's context ends, or the channel is closed because the server has
\* gone.
Unanswered == asking # NoAsking /\ UNCHANGED <<responses, answered>>

\* Close: the process is killed and waited for.
Closed(ss) == [s \in Names |-> IF s \in ss /\ proc[s] \in {"up", "exited"} THEN "closed" ELSE proc[s]]

-----------------------------------------------------------------------------
\* NewMCPRegistry, for the servers in order

Adding == Servers[building]

\* The next server, or the end of NewAgentToolRegistry
Advance ==
    /\ building' = building + 1
    /\ stage' = IF building = Len(Servers) THEN "use" ELSE "build"

\* A server is passed over that is disabled or cannot be started, or it is
\* closed because it did not say which tools it has; but without one that is
\* required there is no registry, and those that were started before it are
\* forgotten.
GoWithout(s) ==
    \/ s \notin RequiredServers /\ Advance /\ UNCHANGED <<tools, closers, refusal>>
    \/ s \in RequiredServers /\ stage' = "over" /\ refusal' = TRUE
          /\ tools' = {} /\ closers' = {} /\ UNCHANGED building

StartFails ==
    /\ stage = "build" /\ asking = NoAsking /\ GoWithout(Adding)
    /\ UNCHANGED <<clientState, asking, answered>>

\* startMCPStdioClient, up to the request of initialize
StartServer ==
    /\ stage = "build" /\ asking = NoAsking
    /\ proc' = [proc EXCEPT ![Adding] = "up"] /\ next' = [next EXCEPT ![Adding] = 1]
    /\ asked' = [asked EXCEPT ![Adding] = {1}]
    /\ asking' = [method |-> "initialize", server |-> Adding, id |-> 1]
    /\ UNCHANGED <<stage, building, responses, unasked, tools, closers, refusal, answered>>

\* initialize is answered, and ListTools asks for its first page.
Initialized ==
    /\ TakesAnswer /\ asking.method = "initialize" /\ Asking(asking.server, "list")
    /\ UNCHANGED <<stage, building, proc, unasked, tools, closers, refusal>>

\* tools/list is answered: there is another page, or there are tools that may
\* be used, or none and the server is closed.
Listed ==
    /\ TakesAnswer /\ asking.method = "list"
    /\ \/ Asking(asking.server, "list")
             /\ UNCHANGED <<stage, building, proc, tools, closers>>
       \/ asking' = NoAsking /\ Advance
             /\ tools' = tools \cup {Adding} /\ closers' = closers \cup {Adding}
             /\ UNCHANGED <<proc, asked, next>>
       \/ asking' = NoAsking /\ Advance /\ proc' = Closed({Adding})
             /\ UNCHANGED <<tools, closers, asked, next>>
    /\ UNCHANGED <<unasked, refusal>>

\* initialize or tools/list fails.
ServerFails ==
    /\ TakesAnswer \/ Unanswered
    /\ asking.method \in {"initialize", "list"} /\ asking' = NoAsking
    /\ proc' = Closed({Adding}) /\ GoWithout(Adding)
    /\ UNCHANGED <<asked, next, unasked>>

-----------------------------------------------------------------------------
\* The answer's tools

\* Retain, for the tools the router chose; what the registry closes stays.
Retain ==
    /\ stage = "use" /\ asking = NoAsking
    /\ \E chosen \in SUBSET tools : tools' = chosen
    /\ UNCHANGED <<stage, building, clientState, asking, closers, refusal, answered>>

\* CallTool
Call(s) ==
    /\ stage = "use" /\ asking = NoAsking /\ Asking(s, "call")
    /\ UNCHANGED <<stage, building, proc, responses, unasked, tools, closers, refusal, answered>>

CallEnds ==
    /\ TakesAnswer \/ Unanswered
    /\ asking.method = "call" /\ asking' = NoAsking
    /\ UNCHANGED <<stage, building, proc, asked, next, unasked, tools, closers, refusal>>

CloseAllServers == proc' = Closed(closers)

\* ToolRegistry.Close, deferred
CloseRegistry ==
    /\ stage = "use" /\ asking = NoAsking /\ stage' = "over" /\ CloseAllServers
    /\ UNCHANGED <<building, asked, next, responses, unasked, asking, tools, closers, refusal,
                   answered>>

ServersNext ==
    \/ \E s \in Names : ServerAnswers(s) \/ ServerNotifies(s) \/ ServerExits(s)
    \/ StartFails \/ StartServer \/ Skip \/ Initialized \/ Listed \/ ServerFails
    \/ Retain \/ (\E s \in tools : Call(s)) \/ CallEnds \/ CloseRegistry
    \/ stage = "over" /\ UNCHANGED serverVars

-----------------------------------------------------------------------------
\* No request takes for its answer what answers another, although requests are
\* given up whose answers come later, in any order and among lines that answer
\* nothing.
AnswerIsOwn == answered[1] = answered[2]

\* Every child process that was started for an answer has been ended when it is
\* over, whether its tools were kept, it failed or it had none; but for those
\* that were running when a required server kept the registry from being
\* built, of which nobody knows any more.
ServersEnd == stage = "over" /\ ~refusal => \A s \in Names : proc[s] \in {"idle", "closed"}

\* Requests get their own answers and child processes are ended, in whichever
\* order servers answer, fall silent or exit.
ServersSafe == AnswerIsOwn /\ ServersEnd
=============================================================================
