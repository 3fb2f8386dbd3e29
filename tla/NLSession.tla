------------------------------ MODULE NLSession ------------------------------
(***************************************************************************)
(* The NL Mode of a terminal session: TerminalSession (src/application/    *)
(* usecases/terminal_session.py) with its NLInterceptor, NLModeEngine and  *)
(* OutputRenderer.  The main thread runs the select loop; every query to   *)
(* the LLM runs in a thread of its own, which reads the engine's state,    *)
(* shares ONE cancel event with all the others and answers through a queue *)
(* the main thread drains only while a query is pending.                   *)
(*                                                                         *)
(* A typed line is one of the kinds the code tells apart.  The shell is    *)
(* external: what matters of it is whether a program is in the foreground  *)
(* and which suggestions stand, pasted but not run, in its input line.     *)
(* Alternate screens, chat and password prompts are outside this module:   *)
(* none of them is active.                                                 *)
(***************************************************************************)
EXTENDS NLModeEngine, Naturals, Sequences

CONSTANTS
    MaxLines,      \* bound on the lines the user types, for TLC
    MaxSuggests    \* bound on the suggestions of remote agents, for TLC

ASSUME BoundAssumption == MaxLines \in Nat /\ MaxSuggests \in Nat

NoLine == "none"

(* InterceptResult.action; SUGGEST and CONFIRM are SHOW_SUGGESTION without *)
(* and with requires_double_confirm; DISPLAY is HELP, RISK and EXPLAIN.    *)
Result == {"NOOP", "EXEC_BASH", "TOGGLE", "SUGGEST", "CONFIRM", "DISPLAY"}

Query == 1..MaxLines

VARIABLES
    mode,       \* TerminalSession._mode
    engine,     \* NLModeEngine._state
    buffer,     \* _nl_buffer: the line typed so far, complete or empty
    ptyRunning, \* _pty_running
    pending,    \* _llm_pending
    cancel,     \* _llm_cancel is set
    results,    \* _llm_queue, as <<query, result>>
    loop,       \* the main thread: "select", or "llm" inside intercept()
    nQueries,   \* number of LLM threads spawned
    thread,     \* the state of each of them
    line,       \* the line it was given
    answer,     \* the result it computed
    shell,      \* external: "prompt", or "program" when one is running
    pasted,     \* external: whose suggestions stand in the input line
    nLines, nSuggests, \* how often the user typed a line, an agent suggested
    handled,    \* history: the queries whose answers were handled, in order
    cancelled,  \* history: the queries cancelled by Ctrl-C
    ranBy       \* history: what last ran an input line with a suggestion

modes == <<mode, engine>>
llm == <<pending, cancel, results>>
threads == <<nQueries, thread, line, answer>>
terminal == <<shell, pasted, ranBy>>
counts == <<nLines, nSuggests>>
history == <<handled, cancelled>>
vars == <<mode, engine, buffer, ptyRunning, pending, cancel, results, loop,
          nQueries, thread, line, answer, shell, pasted, nLines, nSuggests,
          handled, cancelled, ranBy>>

Init ==
    /\ mode \in Mode /\ engine = mode     \* config.nl_mode.default_active
    /\ buffer = NoLine /\ ptyRunning = FALSE
    /\ pending = FALSE /\ cancel = FALSE /\ results = <<>>
    /\ loop = "select"
    /\ nQueries = 0
    /\ thread = [q \in Query |-> "none"]
    /\ line = [q \in Query |-> NoLine]
    /\ answer = [q \in Query |-> "NOOP"]
    /\ shell = "prompt" /\ pasted = {}
    /\ nLines = 0 /\ nSuggests = 0
    /\ handled = <<>> /\ cancelled = {} /\ ranBy = NoLine

-----------------------------------------------------------------------------
(* The shell behind the PTY (external).                                    *)

(* Text pasted without a newline stays in the input line.                  *)
Paste(who) == /\ pasted' = pasted \cup {who}
              /\ UNCHANGED <<shell, ranBy>>

(* Text with a newline in it runs what stands before that newline, or the  *)
(* program in the foreground reads it; the rest stays in the input line.   *)
PasteLines(who) ==
    /\ shell' = "program"
    /\ pasted' = {who}
    /\ ranBy' \in IF shell = "prompt" THEN {"newline"} ELSE {ranBy, "newline"}

(* A newline runs the line at the prompt; a program in the foreground      *)
(* reads it, or leaves it to the shell that runs it afterwards.            *)
RunLine(trigger) ==
    /\ shell' = "program"
    /\ pasted' = {}
    /\ ranBy' \in IF pasted = {} THEN {ranBy}
                  ELSE IF shell = "prompt" THEN {trigger}
                  ELSE {ranBy, trigger}

(* ^C kills the program or discards the input line.                        *)
Interrupt == /\ pasted' = {}
             /\ UNCHANGED <<shell, ranBy>>

(* The program ends, the prompt appears, and _handle_pty_output sees it.   *)
PromptAppears ==
    /\ loop = "select" /\ shell = "program"
    /\ shell' = "prompt"
    /\ ptyRunning' = FALSE
    /\ UNCHANGED <<modes, buffer, llm, loop, threads, pasted, counts, history, ranBy>>

(* A chunk of the program's own output ends like a prompt.                 *)
OutputLooksLikePrompt ==
    /\ loop = "select" /\ shell = "program" /\ ptyRunning
    /\ ptyRunning' = FALSE
    /\ UNCHANGED <<modes, buffer, llm, loop, threads, terminal, counts, history>>

-----------------------------------------------------------------------------
(* Mutant: a suggestion is written with its newline.                       *)
SuggestAndRun(who) ==
    shell' = "program" /\ pasted' = {} /\ ranBy' = "enter"

(* The commands, joined by && and as they are, are written to the PTY, and *)
(* no newline after them; a command may itself have newlines.              *)
ShowSuggestion(who) == Paste(who) \/ PasteLines(who)

(* OutputRenderer.handle_intercept_result.                                 *)
HandleResult(r, trigger) ==
    \/ /\ r \in {"NOOP", "DISPLAY", "CONFIRM"}
       /\ UNCHANGED <<mode, ptyRunning, terminal>>
    \/ /\ r = "SUGGEST"
       /\ ShowSuggestion("llm")
       /\ UNCHANGED <<mode, ptyRunning>>
    \/ /\ r = "EXEC_BASH"
       /\ RunLine(trigger)
       /\ ptyRunning' = TRUE
       /\ UNCHANGED mode
    \/ /\ r = "TOGGLE"
       /\ mode' = OtherMode(mode)
       /\ RunLine(trigger)
       /\ ptyRunning' = TRUE

(* Mutant: the interceptor does not tell a toggle from a command.          *)
ToggleIsRun(l) == IF l = "local" THEN "DISPLAY" ELSE "EXEC_BASH"

(* What the interceptor makes of a line the engine answers without LLM.    *)
LocalResult(l) == CASE l = "toggle" -> "TOGGLE"
                    [] l = "local" -> "DISPLAY"
                    [] OTHER -> "EXEC_BASH"

(* What the LLM may answer; no answer is a NOOP.                           *)
LLMResults(l) == IF l = "explain" THEN {"DISPLAY"}
                 ELSE {"SUGGEST", "CONFIRM", "NOOP"}

-----------------------------------------------------------------------------
(* The user's keys, when no command is running: _buffer_nl_input.          *)

NLInput == loop = "select" /\ ~ptyRunning

(* Mutants: the cancel event is not reset; the answer is read and left in  *)
(* the queue; a thread is always silent.                                   *)
KeepCancel == UNCHANGED cancel
PeekResult == UNCHANGED results
AlwaysSilenced == TRUE

Idle == ~pending
ResetCancel == cancel' = FALSE
TakeResult == results' = Tail(results)
Silenced == cancel

Type(l) ==
    /\ NLInput /\ buffer = NoLine /\ nLines < MaxLines
    /\ buffer' = l
    /\ nLines' = nLines + 1
    /\ UNCHANGED <<modes, ptyRunning, llm, loop, threads, terminal, nSuggests, history>>

(* The condition under which Enter calls the interceptor itself.           *)
IsLocal(l) == \/ l \in {"toggle", "escape", "local"}
              \/ (mode = "BASH" /\ l # "explain")

(* Enter on a line handled by the main thread alone.                       *)
EnterLocal ==
    /\ NLInput /\ buffer # NoLine /\ Idle
    /\ IsLocal(buffer) /\ ~NeedsLLM(buffer, engine)
    /\ engine' = EngineAfter(buffer, engine)
    /\ HandleResult(LocalResult(buffer), buffer)
    /\ buffer' = NoLine
    /\ UNCHANGED <<llm, loop, threads, counts, history>>

(* Enter in Bash Mode while the engine is in NL Mode: the main thread      *)
(* itself calls the LLM, and the loop stands still.                        *)
EnterBlocks ==
    /\ NLInput /\ buffer # NoLine /\ Idle
    /\ IsLocal(buffer) /\ NeedsLLM(buffer, engine)
    /\ loop' = "llm"
    /\ UNCHANGED <<modes, buffer, ptyRunning, llm, threads, terminal, counts, history>>

BlockedAnswer ==
    /\ loop = "llm"
    /\ \E r \in LLMResults(buffer) : HandleResult(r, buffer)
    /\ loop' = "select"
    /\ buffer' = NoLine
    /\ UNCHANGED <<engine, llm, threads, counts, history>>

(* Enter on a query: the cancel event is cleared for all threads alive and *)
(* a new thread starts.                                                    *)
Dispatch ==
    /\ NLInput /\ buffer # NoLine /\ Idle /\ ~IsLocal(buffer)
    /\ pending' = TRUE
    /\ ResetCancel
    /\ nQueries' = nQueries + 1
    /\ thread' = [thread EXCEPT ![nQueries + 1] = "started"]
    /\ line' = [line EXCEPT ![nQueries + 1] = buffer]
    /\ buffer' = NoLine
    /\ UNCHANGED <<modes, ptyRunning, results, loop, answer, terminal, counts, history>>

(* Enter on an empty line, or while a query is pending: the line is lost   *)
(* and a carriage return goes to the shell.                                *)
EnterPassesThrough ==
    /\ NLInput
    /\ buffer = NoLine \/ pending
    /\ ptyRunning' = TRUE
    /\ RunLine(IF buffer = NoLine THEN "enter" ELSE buffer)
    /\ buffer' = NoLine
    /\ UNCHANGED <<modes, llm, loop, threads, counts, history>>

(* Ctrl-C while a query is pending.  The newest query is the pending one.  *)
CancelQuery ==
    /\ NLInput /\ pending
    /\ cancel' = TRUE
    /\ pending' = FALSE
    /\ IF results = <<>> THEN UNCHANGED results ELSE TakeResult
    /\ cancelled' = cancelled \cup {nQueries}
    /\ UNCHANGED <<modes, buffer, ptyRunning, loop, threads, terminal, counts, handled>>

(* Ctrl-C otherwise: the line is cleared and ^C goes to the shell.         *)
ClearLine ==
    /\ NLInput /\ Idle
    /\ buffer' = NoLine
    /\ Interrupt
    /\ UNCHANGED <<modes, ptyRunning, llm, loop, threads, counts, history>>

(* Keys while a command is running go to the PTY: Enter and Ctrl-C.        *)
RawKey ==
    /\ loop = "select" /\ ptyRunning
    /\ RunLine("enter") \/ Interrupt
    /\ UNCHANGED <<modes, buffer, ptyRunning, llm, loop, threads, counts, history>>

User == \/ \E l \in LineKind : Type(l)
        \/ EnterLocal \/ EnterBlocks \/ Dispatch \/ EnterPassesThrough
        \/ CancelQuery \/ ClearLine \/ RawKey

-----------------------------------------------------------------------------
(* The other turns of the main loop.                                       *)

(* The answer of a query, only while one is pending.                       *)
DrainResult ==
    /\ loop = "select" /\ pending /\ results # <<>>
    /\ TakeResult
    /\ pending' = FALSE
    /\ handled' = Append(handled, Head(results)[1])
    /\ HandleResult(Head(results)[2], "answer")
    /\ UNCHANGED <<engine, buffer, cancel, loop, threads, counts, cancelled>>

(* handle_agent_suggest: a LOW or MEDIUM one is pasted, a HIGH one shown.  *)
DrainSuggest ==
    /\ loop = "select" /\ nSuggests < MaxSuggests
    /\ nSuggests' = nSuggests + 1
    /\ ShowSuggestion("agent") \/ UNCHANGED terminal
    /\ UNCHANGED <<modes, buffer, ptyRunning, llm, loop, threads, nLines, history>>

(* Input of a viewer or an agent goes to the PTY whatever the state of the *)
(* session.                                                                *)
DrainInput ==
    /\ loop = "select"
    /\ RunLine("remote") \/ Interrupt
    /\ UNCHANGED <<modes, buffer, ptyRunning, llm, loop, threads, counts, history>>

-----------------------------------------------------------------------------
(* A thread: _llm_thread.                                                  *)
Moves(q, from, to) == /\ thread[q] = from
                      /\ thread' = [thread EXCEPT ![q] = to]

(* It enters process_input and reads the state of the engine.              *)
ThreadReadsMode(q) ==
    /\ IF NeedsLLM(line[q], engine)
       THEN Moves(q, "started", "asking") /\ UNCHANGED answer
       ELSE /\ Moves(q, "started", "answered")
            /\ answer' = [answer EXCEPT ![q] = LocalResult(line[q])]
    /\ UNCHANGED <<modes, buffer, ptyRunning, llm, loop, nQueries, line, terminal,
                   counts, history>>

ThreadIsAnswered(q) ==
    /\ Moves(q, "asking", "answered")
    /\ \E r \in LLMResults(line[q]) : answer' = [answer EXCEPT ![q] = r]
    /\ UNCHANGED <<modes, buffer, ptyRunning, llm, loop, nQueries, line, terminal,
                   counts, history>>

(* It ends, and its locals with it.                                        *)
Ends(q) == /\ thread' = [thread EXCEPT ![q] = "finished"]
           /\ line' = [line EXCEPT ![q] = NoLine]
           /\ answer' = [answer EXCEPT ![q] = "NOOP"]

(* A chunk arrives after a cancellation: KeyboardInterrupt ends the thread.*)
ThreadInterrupted(q) ==
    /\ thread[q] = "asking" /\ Silenced
    /\ Ends(q)
    /\ UNCHANGED <<modes, buffer, ptyRunning, llm, loop, nQueries, terminal, counts,
                   history>>

(* `if _cancel.is_set(): return`, and later llm_q.put(res).                *)
ThreadChecksCancel(q) ==
    /\ IF Silenced THEN thread[q] = "answered" /\ Ends(q)
                   ELSE Moves(q, "answered", "answering") /\ UNCHANGED <<line, answer>>
    /\ UNCHANGED <<modes, buffer, ptyRunning, llm, loop, nQueries, terminal, counts,
                   history>>

ThreadPuts(q) ==
    /\ thread[q] = "answering"
    /\ results' = Append(results, <<q, answer[q]>>)
    /\ Ends(q)
    /\ UNCHANGED <<modes, buffer, ptyRunning, pending, cancel, loop, nQueries,
                   terminal, counts, history>>

Thread(q) == \/ ThreadReadsMode(q) \/ ThreadIsAnswered(q) \/ ThreadInterrupted(q)
             \/ ThreadChecksCancel(q) \/ ThreadPuts(q)

Next == \/ User \/ BlockedAnswer
        \/ DrainResult \/ DrainSuggest \/ DrainInput
        \/ PromptAppears \/ OutputLooksLikePrompt
        \/ \E q \in Query : Thread(q)

Spec == Init /\ [][Next]_vars

(* Threads run; the LLM call returns, by the timeout of its library, as    *)
(* the adapter keeps a timeout_seconds it passes to nothing; the main loop *)
(* wakes up every 50 ms.  The user and programs owe nothing.               *)
Fairness == /\ \A q \in Query : WF_vars(Thread(q))
            /\ WF_vars(DrainResult) /\ WF_vars(BlockedAnswer)
FairSpec == Spec /\ Fairness

-----------------------------------------------------------------------------
(* Properties.                                                             *)

TypeOK ==
    /\ mode \in Mode /\ engine \in Mode
    /\ buffer \in LineKind \cup {NoLine}
    /\ ptyRunning \in BOOLEAN /\ pending \in BOOLEAN /\ cancel \in BOOLEAN
    /\ results \in Seq(Query \X Result)
    /\ loop \in {"select", "llm"}
    /\ nQueries \in 0..MaxLines
    /\ thread \in [Query -> {"none", "started", "asking", "answered", "answering",
                             "finished"}]
    /\ line \in [Query -> LineKind \cup {NoLine}]
    /\ answer \in [Query -> Result]
    /\ shell \in {"prompt", "program"}
    /\ pasted \subseteq {"llm", "agent"}
    /\ nLines \in 0..MaxLines /\ nSuggests \in 0..MaxSuggests
    /\ handled \in Seq(Query) /\ cancelled \subseteq Query
    /\ ranBy \in LineKind \cup {NoLine, "enter", "answer", "remote", "newline"}

(* A session that says it is thinking has something to wait for: an answer *)
(* in the queue, or a thread that no cancellation will silence.            *)
PendingHasAnswerer ==
    pending => \/ results # <<>>
               \/ /\ nQueries \in Query
                  /\ thread[nQueries] \in {"started", "asking", "answered", "answering"}
                  /\ ~cancel

(* ... and so every query ends, by an answer or by Ctrl-C.                 *)
PendingEnds == pending ~> ~pending

(* Cancelled or not, no query is answered twice; and until the first Ctrl-C*)
(* answers are handled in the order of the queries and at most the newest  *)
(* is missing.                                                             *)
AnswersInOrder ==
    /\ \A i, j \in 1..Len(handled) : handled[i] = handled[j] => i = j
    /\ cancelled = {} => /\ \A i \in 1..Len(handled) : handled[i] = i
                         /\ nQueries - Len(handled) = IF pending THEN 1 ELSE 0

(* "Ctrl-C: cancela consulta LLM em andamento", output_renderer.py:164: the*)
(* answer of a cancelled query is never handled.                           *)
CancelledIsDiscarded ==
    \A i \in 1..Len(handled) : handled[i] \notin cancelled

(* The two copies of the mode part only when !<cmd> is entered in Bash     *)
(* Mode, which brings the engine alone "back to NL Mode"                   *)
(* (nl_mode_engine.py:99), and meet again only by the next one: a toggle   *)
(* turns both, whatever threads, cancellations and agents do.              *)
ModesPartByEscape ==
    [][(mode = engine) # (mode' = engine') => buffer = "escape" /\ engine' = "NL"]_vars

(* The steps in which a suggestion may arrive: an answer is handled, of a  *)
(* thread or of the main thread's own call, or an agent suggests.          *)
Arrival == \/ handled' # handled
           \/ loop = "llm" /\ loop' = "select"
           \/ nSuggests' # nSuggests

(* A suggestion waits for somebody's Enter: nothing that arrives runs what *)
(* stands in the input line, whatever stands there, but the user's own     *)
(* exit or Bash line, and a newline that a command itself contains.        *)
SuggestionWaits ==
    [][Arrival /\ ranBy' # ranBy
         => \/ ranBy' = "newline"
            \/ handled' # handled /\ Head(results)[2] = "EXEC_BASH"]_vars
=============================================================================
