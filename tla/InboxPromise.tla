---------------------------- MODULE InboxPromise ----------------------------
(***************************************************************************)
(* What the durable inbox promises, without workers, leases, retries or    *)
(* restarts: a message that was written is settled exactly once, settled   *)
(* as answered only after QQ accepted a reply for it, and never left open. *)
(* InboundQueue implements this module (property Implements there).        *)
(***************************************************************************)
EXTENDS Naturals

CONSTANT Messages

VARIABLES
    inbox,      \* "absent", "open", "answered" or "closed" per message
    accepted    \* replies QQ accepted per message: 0, 1 or 2 (two or more)

vars == <<inbox, accepted>>

Init ==
    /\ inbox = [m \in Messages |-> "absent"]
    /\ accepted = [m \in Messages |-> 0]

Receive(m) ==
    /\ inbox[m] = "absent"
    /\ inbox' = [inbox EXCEPT ![m] = "open"]
    /\ UNCHANGED accepted

\* At least once, not exactly once: a reply may be accepted again, even for
\* a message that another attempt has settled meanwhile.
Accept(m) ==
    /\ inbox[m] # "absent"
    /\ accepted' = [accepted EXCEPT ![m] = IF @ = 0 THEN 1 ELSE 2]
    /\ UNCHANGED inbox

SettleAnswered(m) ==
    /\ inbox[m] = "open"
    /\ accepted[m] > 0
    /\ inbox' = [inbox EXCEPT ![m] = "answered"]
    /\ UNCHANGED accepted

SettleClosed(m) ==
    /\ inbox[m] = "open"
    /\ inbox' = [inbox EXCEPT ![m] = "closed"]
    /\ UNCHANGED accepted

Settle(m) == SettleAnswered(m) \/ SettleClosed(m)

Next == \E m \in Messages : Receive(m) \/ Accept(m) \/ Settle(m)

Safety == Init /\ [][Next]_vars

Spec == Safety /\ \A m \in Messages : WF_vars(Settle(m))
=============================================================================
