--------------------------- MODULE MCOutboundGate ---------------------------
(***************************************************************************)
(* The way out: the gate of a group and the link to NapCat.  To the gate a *)
(* call of the link is one step that succeeds or fails, and to the link a  *)
(* send is one of the calls.  They share no variable, so an interleaving   *)
(* shows neither anything it does not see alone; `part' says which runs.   *)
(***************************************************************************)
EXTENDS OutboundGate, OneBotLink, TLC

Delays == INSTANCE Backoff

CONSTANTS s1, s2, s3

VARIABLE part

MCInit == Init /\ LinkInit /\ part \in {"gate", "link"}

MCNext ==
    /\ UNCHANGED part
    /\ \/ part = "gate" /\ Next /\ UNCHANGED linkVars
       \/ part = "link" /\ LinkNext /\ UNCHANGED vars

MCFairness == (part = "gate" /\ Fairness) \/ (part = "link" /\ LinkFairness)
MCSpec == MCInit /\ [][MCNext]_<<vars, linkVars, part>> /\ MCFairness

\* outboundBackoffDelay with a first delay of one tick and no jitter
MCDelay ==
    [n \in 1 .. FailureWindow + 1 |->
       Delays!JitteredDelay(1, MaximumDelay, n, 1000)]

\* Sends with the same representation are alike.
SendSymmetry == Permutations(Sends \ Alternatives)
=============================================================================
