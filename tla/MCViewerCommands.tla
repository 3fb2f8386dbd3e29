-------------------------- MODULE MCViewerCommands --------------------------
(* An instance of ViewerCommands for TLC.                                  *)
EXTENDS ViewerCommands

(* The command has ended; a connected user and a silent host may wait for  *)
(* ever.                                                                   *)
Quiet == vpc \in {"using", "ended"} \/ toHost # <<>>
MCNext == Next \/ (Quiet /\ UNCHANGED vars)
MCSpec == Init /\ [][MCNext]_vars
MCFairSpec == MCSpec /\ Fairness
=============================================================================
