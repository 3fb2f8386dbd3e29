--------------------------- MODULE MCPromptRunner ---------------------------
(* An instance of PromptRunner for TLC: two ordinary commands, one of high *)
(* risk, a conclusion, and an echo of high risk.                           *)
EXTENDS PromptRunner

MCCommand == {"ls", "find", "rm", "echo", "echo_rm"}
MCHigh == {"rm", "echo_rm"}
MCEcho == {"echo", "echo_rm"}

(* The process ends with run.                                              *)
MCSpec == Init /\ [][Next \/ (pc = "done" /\ UNCHANGED vars)]_vars /\ WF_vars(Runner)
=============================================================================
