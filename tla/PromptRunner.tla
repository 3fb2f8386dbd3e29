---------------------------- MODULE PromptRunner ----------------------------
(***************************************************************************)
(* forge_shell -p: PromptRunner.run (src/application/usecases/             *)
(* prompt_runner.py).  A loop of probes: the prompt, enriched with what    *)
(* has been tried, is given to the NL engine; the command it suggests is   *)
(* classified, compared with the last one, and run.  The first answer that *)
(* concludes ends the loop; otherwise the best result of all is shown and  *)
(* its return code is the exit code.                                       *)
(*                                                                         *)
(* A command is the string the suggestion's commands are joined to.  Only  *)
(* its identity and two verdicts about it matter: the risk engine's, and   *)
(* whether it begins with `echo`.  A result keeps whether there is output. *)
(***************************************************************************)
EXTENDS NLModeEngine, Integers, Sequences

CONSTANTS
    Command,        \* what the LLM may suggest
    High,           \* the commands the local RiskEngine classifies as HIGH
    Echo,           \* the commands _is_echo_conclusion accepts
    ReturnCode,     \* what a command may return
    MaxIterations,  \* _MAX_SONDA_ITERATIONS
    NoCommand       \* result.suggestion is None

ASSUME CommandAssumption == NoCommand \notin Command
ASSUME CodeAssumption == ReturnCode \subseteq Int
ASSUME IterationAssumption == MaxIterations \in Nat

(* subprocess.TimeoutExpired is code 124 without output.                   *)
TimeoutCode == 124
Outcome == [output : BOOLEAN, stderr : BOOLEAN, rc : ReturnCode]
TimedOut == [output |-> FALSE, stderr |-> TRUE, rc |-> TimeoutCode]
Step == [cmd : Command, result : Outcome \cup {TimedOut}]

(* How a run ends: by a HIGH command, the repetition of the last one, an   *)
(* echo, the best result, without a result, or by an exception.            *)
Ending == {"high", "converged", "echo", "best", "failed", "raised"}
None == "none"

(* The exit code while the run has none; a process ended by an exception   *)
(* has 1.                                                                  *)
Running == -1000

VARIABLES
    prompt,    \* the kind of the prompt given to -p
    engine,    \* NLModeEngine._state
    iteration, \* the iterations the loop has finished
    pc,        \* "ask", "llm" inside the call, "decide", "run", "done"
    suggestion,\* cmd_str
    history,   \* the probes executed
    cwd,       \* external: the current directory still exists
    shown,     \* the result shown at the end, an index of history, or 0
    ending, exit

vars == <<prompt, engine, iteration, pc, suggestion, history, cwd, shown, ending, exit>>

Init ==
    /\ prompt \in LineKind
    /\ engine = "NL"
    /\ iteration = 0
    /\ pc = "ask"
    /\ suggestion = NoCommand
    /\ history = <<>>
    /\ cwd = TRUE
    /\ shown = 0
    /\ ending = None
    /\ exit = Running

-----------------------------------------------------------------------------
(* Asking.                                                                 *)

(* Mutant: the instructions are always there.                              *)
AlwaysEnriched == "text"

(* _build_enriched_prompt: with a history the text begins with "Pedido     *)
(* original:", whatever the prompt was.                                    *)
Enriched == IF history = <<>> THEN prompt ELSE "text"

(* The iteration ends and the loop turns.                                  *)
Again == /\ pc' = "ask"
         /\ iteration' = iteration + 1
         /\ suggestion' = NoCommand

(* Mutant: an iteration without a suggestion is not counted.               *)
RetryForFree == /\ pc' = "ask"
                /\ UNCHANGED <<iteration, suggestion>>

(* `result is None or result.suggestion is None`: continue.                *)
TryAgain == Again

(* The engine answers by itself: there is no suggestion, although nobody   *)
(* has asked the LLM.                                                      *)
AskEngine ==
    /\ pc = "ask" /\ iteration < MaxIterations
    /\ ~NeedsLLM(Enriched, engine)
    /\ engine' = EngineAfter(Enriched, engine)
    /\ TryAgain
    /\ UNCHANGED <<prompt, history, cwd, shown, ending, exit>>

AskLLM ==
    /\ pc = "ask" /\ iteration < MaxIterations
    /\ NeedsLLM(Enriched, engine)
    /\ pc' = "llm"
    /\ UNCHANGED <<prompt, engine, iteration, suggestion, history, cwd, shown, ending,
                   exit>>

(* A valid answer; that of :explain is taken for a suggestion as well,     *)
(* is_explanation is not looked at.                                        *)
Suggests(cmd) ==
    /\ pc = "llm"
    /\ pc' = "decide"
    /\ suggestion' = cmd
    /\ UNCHANGED <<prompt, engine, iteration, history, cwd, shown, ending, exit>>

(* The LLM fails, or its answer is not in the schema.                      *)
LLMFails ==
    /\ pc = "llm"
    /\ TryAgain
    /\ UNCHANGED <<prompt, engine, history, cwd, shown, ending, exit>>

-----------------------------------------------------------------------------
(* Deciding, in the order of the code.                                     *)

(* Mutant: the comparison is with the first command.                       *)
RepeatsFirst == history # <<>> /\ suggestion = history[1].cmd

IsHigh == suggestion \in High
Repeats == history # <<>> /\ suggestion = history[Len(history)].cmd

(* run returns code, having shown the result of step i.                    *)
Return(how, code, i) ==
    /\ pc' = "done"
    /\ ending' = how
    /\ exit' = code
    /\ shown' = i
    /\ UNCHANGED <<prompt, engine, iteration, suggestion, history, cwd>>

StopHigh == pc = "decide" /\ IsHigh /\ Return("high", 2, 0)

Converge ==
    /\ pc = "decide" /\ ~IsHigh /\ Repeats
    /\ Return("converged", 0, Len(history))

ConcludeByEcho ==
    /\ pc = "decide" /\ ~IsHigh /\ ~Repeats /\ suggestion \in Echo
    /\ Return("echo", 0, 0)

GoAhead ==
    /\ pc = "decide" /\ ~IsHigh /\ ~Repeats /\ suggestion \notin Echo
    /\ pc' = "run"
    /\ UNCHANGED <<prompt, engine, iteration, suggestion, history, cwd, shown, ending,
                   exit>>

-----------------------------------------------------------------------------
(* Running a probe.                                                        *)

(* subprocess.run ends or is killed after 60 s; the command may have       *)
(* removed the directory it was run in.                                    *)
Probe(result) ==
    /\ pc = "run" /\ cwd
    /\ history' = Append(history, [cmd |-> suggestion, result |-> result])
    /\ cwd' \in BOOLEAN
    /\ Again
    /\ UNCHANGED <<prompt, engine, shown, ending, exit>>

(* os.getcwd() of a directory that has gone raises, and nobody catches it. *)
Raises == pc = "run" /\ ~cwd /\ Return("raised", 1, 0)

-----------------------------------------------------------------------------
(* The end of the loop.                                                    *)

Succeeded(s) == s.result.output /\ s.result.rc = 0
HasOutput(s) == s.result.output

(* Two scans of reversed(history), each for the last step of a kind.       *)
Latest(S) == CHOOSE i \in S : \A j \in S : j <= i
Successes == {i \in 1..Len(history) : Succeeded(history[i])}
Outputs == {i \in 1..Len(history) : HasOutput(history[i])}

(* Mutant: the first scan is forgotten.                                    *)
PickLastOutput == IF Outputs # {} THEN Latest(Outputs) ELSE Len(history)

(* _pick_best_result.                                                      *)
PickBestResult == IF Successes # {} THEN Latest(Successes)
                  ELSE IF Outputs # {} THEN Latest(Outputs)
                  ELSE Len(history)

LoopEnds == pc = "ask" /\ iteration = MaxIterations

ShowBest ==
    /\ LoopEnds /\ history # <<>>
    /\ Return("best", history[PickBestResult].result.rc, PickBestResult)

GiveUp == LoopEnds /\ history = <<>> /\ Return("failed", 1, 0)

-----------------------------------------------------------------------------
Runner ==
    \/ AskEngine \/ AskLLM \/ LLMFails
    \/ \E cmd \in Command : Suggests(cmd)
    \/ StopHigh \/ Converge \/ ConcludeByEcho \/ GoAhead
    \/ \E r \in Outcome \cup {TimedOut} : Probe(r)
    \/ Raises \/ ShowBest \/ GiveUp

Next == Runner

Spec == Init /\ [][Next]_vars

(* A probe is killed after 60 s; the LLM call returns or fails by the      *)
(* timeout of the library: the adapter keeps timeout_seconds and hands it  *)
(* to nobody (forge_llm_adapter.py:96).                                    *)
FairSpec == Spec /\ WF_vars(Runner)

-----------------------------------------------------------------------------
(* Properties.                                                             *)

TypeOK ==
    /\ prompt \in LineKind /\ engine \in Mode
    /\ iteration \in 0..MaxIterations
    /\ pc \in {"ask", "llm", "decide", "run", "done"}
    /\ suggestion \in Command \cup {NoCommand}
    /\ history \in Seq(Step)
    /\ cwd \in BOOLEAN
    /\ shown \in 0..Len(history)
    /\ ending \in Ending \cup {None}
    /\ exit \in Int

(* What is run is worth running: never a HIGH command or a conclusion, and *)
(* never twice in a row the same; and the loop neither runs more probes    *)
(* than it has iterations nor asks without having one left.                *)
ProbesAreNew ==
    /\ \A i \in 1..Len(history) : history[i].cmd \notin High \cup Echo
    /\ \A i \in 1..Len(history) - 1 : history[i].cmd # history[i + 1].cmd
    /\ Len(history) <= iteration
    /\ pc \notin {"ask", "done"} => iteration < MaxIterations

(* The reference for _pick_best_result: a successful result with output is *)
(* better than another with output, that better than one without; of equal *)
(* ones the latest.                                                        *)
Worth(s) == IF Succeeded(s) THEN 2 ELSE IF HasOutput(s) THEN 1 ELSE 0
IsBest(i) ==
    \A j \in 1..Len(history) :
        \/ Worth(history[j]) < Worth(history[i])
        \/ Worth(history[j]) = Worth(history[i]) /\ j <= i

(* What a run shows when the attempts are used up is the best result, and  *)
(* the cases the runner documents (prompt_runner.py:15-18) have their exit *)
(* codes: 0 when a probe has succeeded with output, 1 when no attempt has  *)
(* brought a command, 2 for a HIGH command.  An exception apart; and a code*)
(* does not tell the case: the best result's own may be 1 or 2, and a      *)
(* repeated command exits with 0 although it failed.                       *)
StoppedHigh == suggestion \in Command /\ IsHigh
Solved == ~StoppedHigh /\ \E i \in 1..Len(history) : Succeeded(history[i])
NeverAnswered == history = <<>> /\ iteration = MaxIterations

BestIsShown ==
    /\ ending = "best" => shown \in 1..Len(history) /\ IsBest(shown)
    /\ pc = "done" /\ ending # "raised" =>
           /\ StoppedHigh => exit = 2
           /\ Solved => exit = 0
           /\ NeverAnswered => exit = 1

(* A prompt the engine answers itself (!, !cmd, :help, :risk, exit) runs   *)
(* nothing, however often it is repeated and whatever the mode it leaves   *)
(* behind: it uses up the attempts and fails.                              *)
BuiltinsRunNothing ==
    prompt \notin {"text", "explain"} =>
        /\ history = <<>>
        /\ ending \in {None, "failed"}

(* Every run ends.                                                         *)
RunEnds == <>(pc = "done")
=============================================================================
