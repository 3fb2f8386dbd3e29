---------------------------- MODULE MCAgentMemory ----------------------------
(* An instance of AgentMemory for TLC.                                     *)
EXTENDS AgentMemory, TLC

TerminalSymmetry == Permutations(Terminal)
=============================================================================
