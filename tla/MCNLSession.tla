----------------------------- MODULE MCNLSession -----------------------------
(* An instance of NLSession for TLC.                                       *)
EXTENDS NLSession

(* The session waits for a user who types nothing more: with nothing       *)
(* pending, that is a state it may stay in.                                *)
Quiet == loop = "select" /\ ~pending
MCNext == Next \/ (Quiet /\ UNCHANGED vars)
MCSpec == Init /\ [][MCNext]_vars
MCFairSpec == MCSpec /\ Fairness
=============================================================================
