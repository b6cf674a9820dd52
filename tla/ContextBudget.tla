--------------------------- MODULE ContextBudget ---------------------------
(***************************************************************************)
(* What of a conversation is sent to a model: context_budget.go.  The      *)
(* system's instructions, what plugins found and the current turn are       *)
(* required; the rest is taken by priority, the newest first, as long as   *)
(* there is room.                                                          *)
(*                                                                         *)
(* A message is its priority and its tokens.  Every message has a text,    *)
(* and a text can be cut after every token; whether its head or both ends  *)
(* are kept is left out.                                                   *)
(***************************************************************************)
EXTENDS Integers, FiniteSets, Sequences, SequencesExt

CONSTANTS
    Overhead,   \* messageTokenOverhead
    Markup,     \* of a text that is one of several parts
    Minimum,    \* minimumRequiredMessageCost
    Reserve     \* contextBudgetSafetyReserve

ASSUME BudgetConstants ==
    /\ {Overhead, Markup, Minimum, Reserve} \subseteq Nat
    /\ 0 < Overhead /\ Overhead + Markup < Minimum

\* MessagePriority
History == 20
Summary == 60
Memory == 80
System == 120
Plugin == 130
Current == 140

Prompts == [priority : {History, Summary, Memory, System, Plugin, Current},
            text : Nat, parts : BOOLEAN, image : Nat]

Least(a, b) == IF a < b THEN a ELSE b
Greatest(a, b) == IF a > b THEN a ELSE b

\* estimateMessageTokens, of a text alone or of parts: the text and an image
Cost(m) == Overhead + m.text + (IF m.parts THEN Markup + m.image ELSE 0)

\* Of those among the first n messages that are in the set
CostOf(ms, is, n) ==
    LET cost[k \in 0 .. n] ==
            IF k = 0 THEN 0 ELSE cost[k - 1] + (IF k \in is THEN Cost(ms[k]) ELSE 0)
    IN  cost[n]

\* trimMessageToTokenBudget, for more than Overhead: the text goes before the
\* image, and with no room for its markup it is added all the same.
Trimmed(m, tokens) ==
    LET room == tokens - Overhead
        text == Least(m.text, IF m.parts /\ room > Markup THEN room - Markup ELSE room)
    IN  [m EXCEPT !.text = text, !.image = IF Markup + text + @ > room THEN 0 ELSE @]

-----------------------------------------------------------------------------
\* A selection is what is left of the budget and the messages that are kept.

Keep(sel, i, m) ==
    [left |-> sel.left - Cost(m), kept |-> [j \in DOMAIN sel.kept \cup {i} |->
                                               IF j = i THEN m ELSE sel.kept[j]]]

KeepWhole(ms, sel, is) ==
    [left |-> sel.left - CostOf(ms, is, Len(ms)),
     kept |-> [j \in DOMAIN sel.kept \cup is |-> IF j \in is THEN ms[j] ELSE sel.kept[j]]]

\* What one of several messages gets of the tokens that are left.
Share(left, cost, costs, others) ==
    Least(Greatest(Least((left * cost) \div costs, left - others * Minimum), Minimum), left)

\* selectRequiredMessagesProportionally, of which the first comes first
KeepShare(ms, sel, is, i) ==
    LET others == {j \in is : j > i}
        share == Share(sel.left, Cost(ms[i]), CostOf(ms, others \cup {i}, Len(ms)), Cardinality(others))
    IN  IF i \notin is \/ sel.left <= Overhead THEN sel ELSE Keep(sel, i, Trimmed(ms[i], share))

KeepProportionally(ms, sel, is) ==
    LET done[i \in 0 .. Len(ms)] ==
            IF i = 0 THEN sel ELSE KeepShare(ms, done[i - 1], is, i)
    IN  done[Len(ms)]

\* selectRequiredMessages
Required(ms) == {i \in DOMAIN ms : ms[i].priority >= System}
Protected(ms) == {i \in DOMAIN ms : ms[i].priority >= Plugin}

\* The protected messages fit with the least of each of the others.
ProtectedFit(ms, budget) ==
    CostOf(ms, Protected(ms), Len(ms)) + Cardinality(Required(ms) \ Protected(ms)) * Minimum <= budget

KeepRequired(ms, sel) ==
    IF CostOf(ms, Required(ms), Len(ms)) <= sel.left THEN KeepWhole(ms, sel, Required(ms))
    ELSE IF ProtectedFit(ms, sel.left)
         THEN KeepProportionally(ms, KeepWhole(ms, sel, Protected(ms)),
                                 Required(ms) \ Protected(ms))
         ELSE KeepProportionally(ms, sel, Required(ms))

\* The others, those of a higher priority and then the newer ones first.  Only
\* a summary and a memory are cut to fit.
KeepOther(ms, sel, i) ==
    CASE Cost(ms[i]) <= sel.left -> Keep(sel, i, ms[i])
      [] Cost(ms[i]) > sel.left /\ ms[i].priority >= Summary /\ sel.left > Overhead ->
            Keep(sel, i, Trimmed(ms[i], sel.left))
      [] OTHER -> sel

Foremost(ms, is) ==
    CHOOSE i \in is : \A j \in is :
        \/ ms[i].priority > ms[j].priority
        \/ ms[i].priority = ms[j].priority /\ i >= j

TakeFirst(ms, s) ==
    LET i == Foremost(ms, s.rest)
    IN  IF s.rest = {} THEN s
        ELSE [sel |-> KeepOther(ms, s.sel, i), rest |-> s.rest \ {i}]

KeepOthers(ms, sel) ==
    LET done[n \in 0 .. Len(ms)] ==
            IF n = 0 THEN [sel |-> sel, rest |-> DOMAIN ms \ Required(ms)]
            ELSE TakeFirst(ms, done[n - 1])
    IN  done[Len(ms)].sel

\* fitMessagesToTokenBudget: the messages that are sent, by their places.  The
\* last is required, so the code's last resort is never needed.
Fit(ms, budget) ==
    IF CostOf(ms, DOMAIN ms, Len(ms)) <= budget THEN [i \in DOMAIN ms |-> ms[i]]
    ELSE KeepOthers(ms, KeepRequired(ms, [left |-> budget, kept |-> <<>>])).kept

\* applyContextBudget
InputBudget(limit, output) ==
    LET input == limit - output
    IN  Greatest(IF input > Reserve THEN input - Reserve ELSE input, 1)
=============================================================================
