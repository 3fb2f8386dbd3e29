---------------------------- MODULE NLModeEngine ----------------------------
(***************************************************************************)
(* NLModeEngine.process_input (src/application/usecases/nl_mode_engine.py) *)
(* as operators over the kind of a line and the engine's state: whether    *)
(* the line is given to the LLM, and the state afterwards.  Its two        *)
(* clients are the session (NLSession) and the prompt of forge_shell -p    *)
(* (PromptRunner).                                                         *)
(***************************************************************************)

(* "text" is natural language, or a command when typed in Bash Mode;       *)
(* "exit" is exit or logout; "escape" is !<cmd>, "toggle" is !, "explain"  *)
(* is :explain <cmd>, "local" is :help or :risk <cmd>.                     *)
LineKind == {"text", "exit", "escape", "toggle", "explain", "local"}
Mode == {"NL", "BASH"}

(* Mutant: a toggle leads nowhere.                                         *)
NoMode(m) == IF m = "NL" THEN "BASH" ELSE "none"

(* toggle().                                                               *)
OtherMode(m) == IF m = "NL" THEN "BASH" ELSE "NL"

(* The line l is answered by the LLM (or the agent) in state e.            *)
NeedsLLM(l, e) == l = "explain" \/ (l = "text" /\ e = "NL")

(* The state after the line l.                                             *)
EngineAfter(l, e) == CASE l = "toggle" -> OtherMode(e)
                       [] l = "escape" -> "NL"
                       [] OTHER -> e
=============================================================================
