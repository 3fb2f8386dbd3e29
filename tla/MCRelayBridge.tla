---------------------------- MODULE MCRelayBridge ----------------------------
(* An instance of RelayBridge for TLC.                                     *)
EXTENDS RelayBridge

(* The process has ended: the only state in which nothing needs to happen. *)
Finished == caller = "exited" /\ wire = <<>> /\ wireChat = <<>>
MCNext == Next \/ (Finished /\ UNCHANGED vars)
MCSpec == Init /\ [][MCNext]_vars
MCFairSpec == MCSpec /\ Fairness
=============================================================================
