-------------------------- MODULE MCAdminSessions --------------------------
(***************************************************************************)
(* The console: who is signed in (AdminSessions), and the update that one  *)
(* who is signed in asks for (Updater).  The two share no variable, so an  *)
(* interleaving shows neither anything it does not see alone; `part' says  *)
(* which of them runs.                                                     *)
(***************************************************************************)
EXTENDS AdminSessions, Updater, TLC

CONSTANTS b1, r1, r2

VARIABLE part

MCInit == Init /\ UpdaterInit /\ part \in {"sessions", "updater"}

MCNext ==
    /\ UNCHANGED part
    /\ \/ part = "sessions" /\ Next /\ UNCHANGED updaterVars
       \/ part = "updater" /\ UpdaterNext /\ UNCHANGED vars

MCSpec == MCInit /\ [][MCNext]_<<vars, updaterVars, part>>

\* Requests are alike.
ConsoleSymmetry == Permutations(Requests)
=============================================================================
