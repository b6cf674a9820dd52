-------------------------- MODULE MCReplyControl ---------------------------
(***************************************************************************)
(* What the owner controls: the restrictions of users (ReplyControl), and  *)
(* the settings (BotConsole).  The two share no variable, so an            *)
(* interleaving shows neither anything it does not see alone; `part' says  *)
(* which of them runs.                                                     *)
(***************************************************************************)
EXTENDS ReplyControl, BotConsole, TLC

CONSTANTS s1, s2, j1, j2, p1

VARIABLE part

MCInit == Init /\ ConsoleInit /\ part \in {"control", "console"}

MCNext ==
    /\ UNCHANGED part
    /\ \/ part = "control" /\ Next /\ UNCHANGED consoleVars
       \/ part = "console" /\ ConsoleNext /\ UNCHANGED vars

MCSpec == MCInit /\ [][MCNext]_<<vars, consoleVars, part>>

\* Sessions are alike, and so are changes.
OwnerSymmetry == Permutations(Sessions) \cup Permutations(Changes)
=============================================================================
