# forge_shell in TLA+

forge_shell (`src/src/`) is a terminal that translates natural language into
shell commands, and shares the terminal with remote viewers and agents through
a WebSocket relay.  This directory models its concurrent parts in TLA+, checks
the models with TLC on small instances, and proves some of the properties with
TLAPS for every instance.  Paths below are relative to `src/src/` unless they
start with `project/`.

## 1. The system

| part | code | state it keeps | operations |
|---|---|---|---|
| Relay server | `infrastructure/collab/relay_handler.py` | per session: lists of host, viewer and agent connections, one token; per coroutine: its role, its place in a loop | join (host, viewer, agent), `terminal_output`, `terminal_input`, `suggest`, `chat`, end of a connection, `/session/<id>` |
| Host bridge | `infrastructure/collab/relay_bridge.py`, `host_relay_client.py` | five queues between two threads, a connected event, the socket | `start`, `wait_connected`, `send`, `send_chat`, `get_*`, `stop`, the background loop, the receive task |
| NL session | `application/usecases/terminal_session.py`, `nl_mode_engine.py`, `nl_interceptor.py`, `output_renderer.py` | mode (kept twice), line buffer, "thinking" flag, one cancel event, queue of answers, query threads, the PTY's input line | keys, Enter per kind of line, Ctrl-C, prompt detection, answers, suggestions of agents, remote input |
| Remote commands | `adapters/cli/main.py` (attach, exec, message), `infrastructure/collab/viewer_client.py` | the socket, a receive task, handshake buffer, chat panel | connect, `wait_for_host`, send, receive, close |
| Agent client | `infrastructure/collab/agent_client.py` | a socket and two loops | input, suggest, chat |
| Attached terminal | `_ViewerSession` and its loop in `adapters/cli/main.py`; `infrastructure/terminal_engine/` (`input_router`, `chat_panel`, `split_renderer`, `vt_screen`) | escape buffer, focus, chat line, messages, dirty flags, former frame, sizes of terminal, panes and emulated screen | read, F4, key, output, chat message, SIGWINCH |
| Host chat manager | `application/usecases/chat_manager.py`, `infrastructure/terminal_engine/alternate_screen.py` | active flag, alternate-screen flag | none: `activate` is called by tests only |
| PTY engine | `infrastructure/terminal_engine/pty_engine.py` | child pid, master descriptor | spawn, resize, read, write, close |
| Local terminal | `terminal_session.py`, `terminal_engine/alternate_screen.py` | who has the keyboard, password wait, depth of alternate screens, context lines | key, chunk of output |
| Line editor, history | `terminal_session.py` | line, cursor, history, browsing index | printable key, arrows, backspace, control keys |
| Session manager | `infrastructure/collab/session_manager.py`, `application/usecases/share_session.py` | sessions, token index, participants, expiry | create; join, leave, revoke and expire are called by tests only |
| In-memory relay | `infrastructure/collab/relay_server.py` | registered connections | none: instantiated by tests only |
| Prompt runner | `application/usecases/prompt_runner.py` | none between runs; in a run the steps executed, the engine's mode | ask, classify, compare, conclude, probe, choose the best result |
| LLM adapter | `infrastructure/intelligence/forge_llm_adapter.py` | the conversation | request (retried on a timeout when it does not stream), compaction, explain |
| Agent service, memory | `infrastructure/agent/` | the conversation, interactions since the last consolidation, their count; `MEMORY.md`, `HISTORY.md` shared by all terminals | process (record, trim, consolidate) |
| Risk engine, redactor, audit log, configuration, doctor | `infrastructure/intelligence/`, `infrastructure/audit/`, `infrastructure/config/`, `application/usecases/` | rules read once, an append-only list | classify, redact, append, load |

How they interact: the NL session's main loop reads the keyboard and the PTY,
hands each chunk of output to `RelayBridge.send`, and polls the bridge's
incoming queues; the bridge's thread carries both directions over a WebSocket to
the relay; the relay forwards output to the viewers and agents, input and
suggestions to the host, chat to everybody else; the viewer and agent clients
are at the other end.  Query threads of the NL session meet the main loop in a
queue of answers and in one cancel event.

Where the hard behaviour is:

* **Relay.**  Coroutines interleave at every `await`: a join waits for an
  eviction with a reference to a list that is rebound meanwhile, broadcasts
  walk a copy of a list that changes, a failing peer removes itself while the
  sender is about to remove it.
* **Bridge.**  Two threads, a thread-safe queue, a sentinel, a connection that
  fails or is lost at any point, `stop()` with a two second join, a process that
  exits while the thread (a daemon) still sends.
* **NL session.**  Threads read and test shared state in separate steps; the
  cancel event is one for all of them and is cleared by the next query; the mode
  is held by the session and by the engine; suggestions, keys, remote input and
  control sequences meet in the one input line of the shell.
* **Remote commands.**  The end of a session, a silent host and a lost
  connection look alike to a viewer; output arrives during the handshake.
* **Memory.**  Threads of one service record in lists without a lock; a memory
  file is read, an LLM asked, and the file emptied and rewritten, by threads of
  several processes that end with their process.
* **Prompt runner.**  A loop of at most a few attempts in which an LLM that may
  fail, a risk gate, a repetition, a conclusion, time-outs and the commands' own
  effects decide how the run ends and with which exit code.
* **Attached terminal.**  Escape sequences cut by reads anywhere; callbacks that
  run while the keyboard loop awaits a send; dirty flags and a former frame that
  decide what is drawn; sizes saved at one moment and used at another.

## 2. Modules

| module | models | used with |
|---|---|---|
| `RelayHandler` | the relay server | `MCRelayHandler`; proofs in `RelayHandlerProofs` |
| `OutputStream` | abstract: what sharing promises about the host's output | refined by `RelayBridge` |
| `RelayBridge` | the bridge, its thread and the network to the relay | `MCRelayBridge`; proofs in `RelayBridgeProofs` |
| `NLModeEngine` | pure: what the engine makes of a line, in each mode | `NLSession`, `PromptRunner` |
| `NLSession` | one NL session with its query threads | `MCNLSession`; proofs in `NLSessionProofs` |
| `PromptRunner` | `forge_shell -p`: the loop of probes | `MCPromptRunner`; proofs in `PromptRunnerProofs` |
| `ViewerCommands` | attach, exec and message: the connection | `MCViewerCommands`; proofs in `ViewerCommandsProofs` |
| `InputRouter` | pure: how bytes are cut into keys and routed | `AttachSplit` |
| `LineEditor` | the session's line editor and the row of the terminal | `LocalTerminal` |
| `LocalTerminal` | keyboard, shell and PTY output of a session in Bash Mode | `MCLocalTerminal`; proofs in `LocalTerminalProofs` |
| `AgentMemory` | what the assistant remembers: adapter or agent, of several terminals | `MCAgentMemory`; proofs in `AgentMemoryProofs` |
| `AttachSplit` | attach after the handshake: keyboard, chat panel, split screen | `MCAttachSplit`; proofs in `AttachSplitProofs` |

The `MC*` modules hold the instances for TLC and the one addition TLC needs:
stuttering in the states in which the system may really stop.

### RelayHandler

An action is the code of a coroutine between two awaits.  `pc[c]` is the await
the coroutine of connection `c` is suspended at: `recv` (the next frame),
`evict` (closing the former hosts), `to_viewers`, `to_agents`, `to_hosts`,
`to_all` (a send of a forwarding loop), `rejecting`, `done`.

| code | definition |
|---|---|
| `session_join` of a host, no former host | `JoinHost` |
| ... former hosts: the closes started, then the list rebound and the token stored | `EvictStart`, `EvictEnd` |
| `session_join` of a viewer or agent | `JoinPeer`, or `Reject` and `RejectEnd` |
| a forwarded frame: snapshot, one send per peer, removal of the dead | `HandleOutput`, `HandleInput`, `HandleChat`; `Send`, `SendFails`; `EndLoop`, or `RemoveRaises` when a dead peer has removed itself |
| `finally` | `Finally` in `EndOfStream`, `RejectEnd`, `RemoveRaises` |

One session is modelled, since a frame touches only its own session.  The list
of hosts is *rebound* by a join while other coroutines still hold the former
list, so `hostLists` keeps every list object and `ref[c]` says which one a loop
holds.  Frames are `<<sender, position>>`; what a client sends is fixed by its
`Script`.

### RelayBridge and OutputStream

`caller` is the host's main thread, `thread` the bridge's.  Outputs are numbered;
the sentinel of `stop()` travels through the same queue.  `wire` is the network,
`relayed` what the relay has.  The loop's turn is `Poll` (one item of the queue,
or the sentinel, or the stop flag), `SendOutput`, `SendChat`, `WakeUp`; `Close`
ends it.  The two bare `except: break` of the loop are the failing branches of
`SendOutput` and `SendChat`.  `Exit` is the process ending with a daemon thread
in any state.  `OutputStream` is a queue that may be cut; the mapping puts the
wire, the item in the thread's hands and the queue, in this order, in `pending`.

### NLSession

`mode` and `engine` are the two copies of the mode.  A query is a thread:
`started`, `asking`, `answered`, `answering`, `finished`; the tests of the cancel
event and the put are separate steps.  A line is reduced to its kind: text,
exit, `!command`, `!` (toggle), explain, and what the session answers itself.
`pasted` is whose text waits in the shell's input line and `ranBy` is what ran
it last.  The risk of a command and what the model answers are choices.  Nothing
strips newlines from a suggestion (`output_renderer.py:118`, 211, 233): `ShowSuggestion`
is `Paste`, which waits in the input line, or `PasteLines`, where a newline within the
text runs what stands before it as soon as it is written (`ranBy = "newline"`).

### PromptRunner

`forge_shell -p` is one thread; `pc` is the place in an iteration: `ask`, `llm`
inside the engine's call, `decide`, `run`, `done`.  A command is the string the
suggestion's commands are joined to; what the code asks about it, whether the risk
engine says HIGH (`High`) and whether it is taken for a conclusion (`Echo`), are sets.
A result keeps whether there is output and the return code; a time-out is the code
124 without output.  With a history the prompt begins with "Pedido original:", so
that it is text for the engine whatever it was before (`Enriched`).

| code | definition |
|---|---|
| the call of the engine, answered without the LLM | `AskEngine` |
| ... with it: a valid answer, or a failure and the next attempt | `AskLLM`; `Suggests`, `LLMFails` |
| the three early returns, in their order, and what is left | `StopHigh`, `Converge`, `ConcludeByEcho`, `GoAhead` |
| `subprocess.run` in `os.getcwd()`, and the exception nobody catches | `Probe`, `Raises` |
| after the loop: `_pick_best_result`, or no result | `ShowBest`, `GiveUp` |

### ViewerCommands

One command runs on an asyncio loop with its receive task.  The relay and the
host are what a viewer sees of them.  The relay checks the join against the password
of the last host that joined, which it keeps when that host leaves (`known`;
`relay_handler.py:132`, 199).  Frames are forwarded.  The host answers a key, at least
by its echo (`HostEchoes`), or keeps the answer to itself because it waits for a
password (`HostSuppresses`; `terminal_session.py:563-582` returns before the bridge).
Its leaving is not announced.  Timeouts are seconds long: a wait expires only when
nothing is on its way (`NothingComes`).

### AttachSplit and InputRouter

`_viewer_loop`, the callbacks of the client and the handler of SIGWINCH share one
asyncio loop: an action is the code between two awaits, and a callback needs the
loop suspended (`loop` is anything but `handling`).  A read takes any part of what
has been typed, and `Feed` cuts it into routing decisions that `handle_input` then
takes one after the other, suspended in each send.  Bytes are classes numbered in
the order of typing, so that the two sides' shares can be compared with what was
typed.  `Edited` is what one byte does to the line of the panel: Enter, Backspace,
Ctrl-C, an ESC, or another.  The screen is a line of the left pane, a line of the right one and the
cursor, each standing for the data it is drawn from; `frame` is the renderer's
former frame, `shown` what the terminal has really been sent.  A lost connection
and Ctrl+] are in `ViewerCommands`; what pyte makes of the output is left out.

### LineEditor and LocalTerminal

`LineEditor` has one action per key; beside the line and its history it keeps `row`,
the terminal's row as cells and a column, and `Echo` does to it what the bytes
written do.  A line is bytes and a cell a character, so that a character of two bytes
(`"char<"`, `"char>"`) is two columns for the editor and one for the terminal.
`LocalTerminal` decides who has the keyboard (`ToPTY`: a running command
or an alternate screen), and handles the output of a shell whose pieces a read may
cut anywhere.  A question for a password, the sequences of the alternate screen and a
character of two bytes are two pieces each, so that they can be cut in the middle;
`Decode` makes of half a character what `errors="replace"` does.  Lines and Ctrl-C wait in
`ttyInput` until a process reads them, which is what makes typing ahead possible.
The ghosts say when the properties have something to say: `clean`, that nothing has
been printed over the prompt's row and no key has moved by bytes within characters of
several (`Miscounts`); `cut`, the kinds of screen sequence a read has cut; `torn`, where
a chunk has ended within a character.

### AgentMemory

Each terminal has a service, `agent` or `adapter` as configured, and each query a
thread with a program counter.  `asking` covers the LLM call with its tools; what
follows are the accesses to what is shared: the two appends to the conversation, the
slice and its assignment (`RecordAssistant` takes it, `Trim` assigns it) or the
compactor's call, the interaction and its count (`Track`), the consolidation
(`Consolidate`, an LLM call, `Reply`) and its two files.  Emptying and writing
MEMORY.md are two steps, as in `write_text`.  A file is the set of exchanges it tells
of; that an updated memory has the former facts is assumed of the LLM.  The two
arguments of `save_memory` come independently of each other (`memory.py:122-144`): a
reply may have an entry, a memory, both or none, and without an entry HISTORY.md is not
written although the consolidation succeeds.  `Exit` ends a process and its daemon
threads; nobody calls `AgentService.shutdown`.

The ghosts record what a property may ask about and the code does not keep:
`unlogged` and `unentered`, the exchanges of consolidations that failed or had no entry;
`atRisk`, those that two threads of a terminal have hold of, one of them consolidating;
`kept`, those MEMORY.md is to tell of, and `unseen[q]`, those of them written since the
thread of `q` read the file.

## 3. Runs

| run | question | instance and bounds |
|---|---|---|
| `RelayStreams` | is the registry consistent and each viewer's copy of a stream whole, whatever interleaves? | a host with two outputs, its successor with one and another password, two viewers (symmetric); everybody may disconnect at any await |
| `RelayLive` | with every kind of frame, has everybody registered a handler, are closed connections forgotten, and evictions over some time? | a host, its successor, an agent with three frames |
| `RelayHosts` | does "only one active host" hold? **violated** | three hosts, one viewer |
| `RelayPeers` | do clients survive the leaving of their peers? **violated** | a host and two viewers |
| `Bridge` | order, flushing, refinement of `OutputStream`, and the liveness of the thread | three outputs, two chat messages, one incoming message |
| `NL` | no answer lost or doubled, and nothing run by an arrival but by a newline of its own or the user's own line; no query for ever; when do the two copies of the mode part? | either default mode, two lines of any kind, two suggestions, with and without a newline |
| `NLCancel` | does Ctrl-C cancel a query? **violated** | two lines |
| `Viewer` | the screen is faithful, attach finds its host unless the host keeps its answer to itself, waits end | three outputs, one chat message, one key, any command |
| `Terminal` | is the line shown, does the keyboard come back, does the context follow the output, wherever output is cut? | four reads of the keyboard and two prints of a program, with a character of two bytes among what is typed and what is printed |
| `Prompt` | is what is run new and harmless, the best result shown, are the documented exit codes those of their cases, and does every run end? | every kind of prompt, three iterations, five commands (two ordinary, one HIGH, a conclusion, a HIGH conclusion), return codes 0, 1, 2 and 124 |
| `Memory` | is the conversation whole, is every exchange kept until a consolidation has had it, and what do the two files tell of? | two terminals (symmetric), three queries of which two are at work at a time, one Ctrl-C, every exchange consolidated |
| `AttachSplit` | are keys routed, what depends on where reads cut them, and is the split current, whatever the interleaving of callbacks? | three keys out of F4, the Delete key, Escape, a letter, Enter, Backspace and Ctrl-C; one output, two chat messages, one resize; the first size fixed, since the two are interchangeable |

Why the bounds are enough to be interesting: two outputs and two viewers let one
broadcast overlap another's list and a viewer leave between its two sends; two
hosts exercise the eviction and three the race of two evictions; three outputs
fill the queue, the thread's hands and the wire at the same time, with the
sentinel behind them; two queries are what a cancellation and a revived thread
need; in `Viewer` one
output can be in the buffer, one on the wire and one still to come; in `AttachSplit`
three keys are a toggle, a letter and Enter (a message sent), or a sequence of four
bytes cut anywhere between two others, and a second chat message arrives in a panel
the first has opened; in `Terminal` four reads enter a command, recall it and edit it
in the middle, and two prints are a question behind a text, an alternate screen
entered and left, or a character cut by a read; in `Prompt` three iterations are
two different probes and the repetition of either, and commands of every pair of verdicts;
in `Memory` every query consolidates, so that three of them are two consolidations that
meet, in one terminal (behind a Ctrl-C) or in two, and one after them, and a
conversation of one exchange is trimmed by the second.

Fairness: coroutines and tasks of an event loop and threads that are ready run
(`WF` of the handler, of the bridge's `Sender`, of each query thread, of the
drains of the main loop, which wakes up every 50 ms); a closing handshake, an
LLM call and a wait end by their timeouts (`WF` of `CloseCompletes`, of
`ThreadIsAnswered` within `Thread`, `SF` of the expiring check of the handshake,
because a poll looks at it again and again).  The timeout of an LLM call is that of the
client library: the adapter keeps a `timeout_seconds` and passes it to nothing
(`forge_llm_adapter.py:96`), so that `PendingEnds` and `RunEnds` hold as far as the
library's own holds.  Further, the loop of an attached terminal turns
(`WF` of `Turn`, a read ends after 50 ms, and of `HandleResize`); a run of `-p` goes on
(`WF` of `Runner`: the LLM's call returns or fails, a probe is killed after 60 s); the
network delivers what is on a healthy connection.  Nobody has to type, print, connect, leave or stop.

## 4. What the checks show

They hold:

* **Relay.**  A session has one host in its list; everybody in the registry has a
  running handler with that role; the token is the registered host's; a viewer's copy of
  the stream has no gap, no repetition and ends only with the connection; a closed
  connection is always forgotten.
* **Bridge.**  The output reaches the relay in order and is flushed by `stop()` unless the
  connection fails or the join times out.  Chat reaches it when output pauses: outputs are
  finite in the instance, so that `ChatArrives` says nothing of chat behind an output that
  never pauses.
* **NL session.**  A pending query always has somebody who will answer it; no query is
  answered twice, and without Ctrl-C answers are handled in order and all of them; the two
  copies of the mode part only by `!command`; what arrives (an answer, or a suggestion of
  an agent) runs what stands in the input line only by a newline inside the suggestion, or
  because it answers the user's own Bash line.
* **`-p`.**  It runs no command of high risk, no conclusion and none twice in a row, shows
  the best of its results when the attempts are used up, returns 0 when a probe has
  succeeded with output and nothing of high risk stopped it, 1 when no attempt brought a
  command and 2 for a HIGH command, runs nothing for a prompt the engine answers itself,
  and ends.  Nothing is said of a run that ends by an exception.
* **Attached terminal.**  It shows what has arrived once and in order; each byte typed goes
  to one side and in order; where a read cuts the bytes changes no key, no toggle and
  nothing that is kept, and changes the side of what follows only when an F4 before the cut
  moves the focus; the split shows the present state whenever nothing is marked dirty; output
  and keys arrive.  `InputIsRouted` does not say which side a byte should be on, and
  `RenderedIsCurrent` compares with the sizes the renderer has, so that an emulated screen
  left at its former size by a resize while the chat is closed is not caught.
* **Remote commands.**  attach, over a healthy connection, gives up only on a host that has
  not been there all the time or has kept its answer to itself; no wait hangs.
* **Local terminal.**  The row shows the line being edited, characters of two bytes
  included, until a key moves, recalls or deletes by bytes within them; when the shell waits
  and its output is read, what is typed goes to the editor (`~ToPTY`), unless a read has cut
  a sequence that leaves the alternate screen; output is suppressed no longer than a program
  waits for a password; the detector knows the alternate screen unless a read has cut a
  sequence; the context of queries is the output, but for the halves of a character that a
  read has cut.
* **Memory.**  Where no query starts while a cancelled one is still at work, the
  conversation has the latest exchanges whole and in order (a concurrent recording is in
  the model, and excused).  An exchange waits, or is once in HISTORY.md, or was in a
  consolidation that failed or whose reply had no entry; only one that two threads have
  hold of, one of them consolidating, may be lost or written twice.  MEMORY.md tells of
  nothing that HISTORY.md does not but what had no entry; and it has all its updates but
  those that a later writer had not read, and those before a write cut short.

Three statements of the repository are refuted, each in `PROJECT.json` under `findings`:

* three hosts: two that wait for the same eviction both rebind the list, and the
  first stays connected, served and unregistered (`RelayHosts`);
* a viewer that leaves during a broadcast removes itself from the list, the
  sender's own removal raises, and the *host's* connection is dropped
  (`RelayPeers`);
* a query after a Ctrl-C clears the cancel event of the cancelled thread, whose
  answer is then handled as the new query's (`NLCancel`).

### Other divergences

Here the code and a text of the repository part as well.  The models have the
behaviour, and the property named says what is true instead.

* A suggestion is promised not to run by itself: "colado no prompt do Bash — não executado
  automaticamente" (`project/docs/PRD.md:119`), "Confirmação obrigatória (nunca
  auto-executar via NL)" (`PRD.md:159`; `SPEC.md:89` lists running it without confirmation
  among the non-goals), "Enter para executar" (`output_renderer.py:107`, 224).  A command
  that contains a newline runs on arrival (`output_renderer.py:118`, 211, 233); so does what
  waited in the input line before it.  `SuggestionWaits` has this as its exception.
* "`!<cmd>` → bash direto, volta ao NL Mode" (`nl_mode_engine.py:97`): only the engine goes
  back; the session stays in Bash Mode.  After a toggle that follows, the engine is left in
  the other mode, and a natural language line typed in NL Mode is run by bash.
  `ModesPartByEscape` says that nothing else parts them.
* "0: resolvido com sucesso", "1: erro (LLM falhou em TODAS as tentativas)", "2: risco HIGH"
  (`prompt_runner.py:15-18`): when the attempts are used up, the best result's own code is
  returned, so that a command's 1 or 2 reads like one of these; a repeated command returns 0
  although it failed.  `BestIsShown` says that the three documented cases have their codes,
  and not that a code tells its case.
* The answer to `:explain <command>` as a prompt of `-p` is taken for a suggestion and run,
  though it is asked for "sem executá-lo" (`forge_llm_adapter.py:223`).
* "Host não respondeu em 10s. Verifique se a máquina está …" (`main.py:710`): attach says so
  of a host that is there and waits for a password, since the output it suppresses is not
  shared either (`terminal_session.py:563-582`).  `AttachFindsHost` has `suppressed` as its
  exception.
* "Move cursor para o início da linha digitada" (`terminal_session.py:249`): the cursor goes
  back one column for each byte, so that a recall over a character of two bytes is written
  over the prompt, and a backspace deletes half of it.  `LineIsShown` ends there
  (`Miscounts`).
* "comando em execução: todo input vai direto para PTY" (`terminal_session.py:230`): the
  prompt of one command gives the keyboard to the line editor while the next one, typed
  ahead, already runs.  `KeyboardReturns` is about the other direction and does not catch
  it.
* An interaction counts as consolidated, and is cleared, when the reply had a memory and no
  entry (`memory.py:124-142`): MEMORY.md then tells of what HISTORY.md does not.
  `LayersAgree` and `KeptUntilSaved` have `unentered` as their exception.

Others contradict no sentence.  *NL session*: a line the session itself writes to the
PTY, such as the carriage return of a toggle, runs a suggestion that waits there.
*`-p`*: `echo x && y` is taken for a conclusion and not run; a probe that removes the
current directory ends the run by an exception and the results so far are not shown; an
`exit` or a `!command` given as the prompt is tried again until the attempts are used up.
*Attached terminal*: what is typed after an F4 goes to the old side when it was read with
the F4 and to the new one when it was not (`input_router.py:84`, 122 take the side at the
start, `main.py:518` turns it afterwards); an escape sequence that reaches the chat panel is
typed into the message except for its ESC; a resize while the chat is closed leaves the
emulated screen at its former size; a status line at the end of the handshake is written
over an open split.  *Remote commands*: `exec` waits for a first output before it sends
anything, so that an idle host looks absent; an attached viewer is not told that the host
has left.  *Local terminal*: the chunk that ends a wait for a password is dropped whole; a
sequence of the alternate screen that is cut by a read goes unseen, and a leave sequence
that does keeps the keyboard with the PTY from then on; a character cut by a read is two
unknown ones in the context.  *Memory*: two terminals that consolidate at a time lose one
update of MEMORY.md, and one that exits in the middle of the write leaves it empty; what
the next query records while a cancelled one consolidates is cleared unsaved; a failed
consolidation clears too; what has not been consolidated when the process ends is lost; and
the schema of `save_memory` is given to no LLM, so that the failing branch may be the usual
one.

## 5. Proofs

`RelayHandlerProofs` proves for any set of connections, any roles, tokens and
scripts (assumptions: `RoleAssumption`, `ScriptAssumption`):

* `TypeCorrect`: `Spec => []TypeOK`;
* `OneHostRegistered`: `Spec => []AtMostOneHost`;
* `RegistryIsLive`: `Spec => []RegisteredIsHandled`;
* `TokenFollowsHost`: `Spec => []TokenOfTheHost`;
* `StreamsReachViewers`: `Spec => []StreamIsContiguous`.

The first four follow from one inductive invariant, `IInv`.  The three properties are not
inductive: a step of `EvictEnd` puts a connection in the list whose role must be
known to be `host` (`Joined`), and a join puts a connection in one list that must
not be in another (`FreshIsUnregistered`: nobody is registered before its join,
and a connection joins once).  `TypeStep` and one lemma per conjunct show that
every action preserves `IInv`; `Invariance` combines them by PTL.

`StreamIsContiguous` is about what a viewer has; what makes it so is in the hands of the
host's coroutine.  `Follows` ties the two: the last frame a connected viewer has is the
one being sent, or the one before while the viewer is still in the loop's copy of the
list (`todo`), and a viewer that is in a stream stays in the list the next copy is taken
from.  That holds because nobody but a viewer itself, or a sender whose send to it
failed, takes it out (`DeadAreGone`: only what is no longer connected is noted as dead),
and because a connection keeps the role it joined with (`RolesKept`).  `NoGap` then
extends by one frame at a time.

`RelayBridgeProofs` proves for any numbers of outputs, messages and frames and any
set of incoming queues (assumptions: `ItemAssumption`, the stop item and the
absence of an item are not numbers; `BoundAssumption`):

* `TypeCorrect`: `Spec => []TypeOK`;
* `PrefixReceived`: `Spec => []RelayHasPrefix`;
* `StopFlushes`: `Spec => []StopFlushesOutput`;
* `Refinement`: `Spec => ImplementsStream`.

`RelayHasPrefix` speaks of the end of the pipeline only; the invariant follows the
numbers all the way back.  `NoGap` says that what the relay has, what is on the
wire, what the thread holds and what is queued are consecutive, and that the last
of them is the last output produced; it gives up the part behind the wire when the
connection is lost or the process ends.  `StopIsLast` (nothing follows the stop
item, and a thread that has ended well has left the queue empty) and
`ThreadSocket` (where the thread is decides what it holds of the socket and of the
queue) make it inductive and give `StopFlushes`.  For the refinement, `StreamStep`
maps each action to one of the stream or to a stutter: putting an output to
`Produce`, the relay's receipt to `Deliver`, the failures and the end of the process
to `Cut`, and the moves from queue to thread to wire to nothing, which rests on
lemmas about concatenation.

`PromptRunnerProofs` proves for any commands, verdicts, return codes and number of
iterations (assumptions: `CommandAssumption`, `CodeAssumption`,
`IterationAssumption`):

* `TypeCorrect`: `Spec => []TypeOK`;
* `ProbesNew`: `Spec => []ProbesAreNew`;
* `BestShown`: `Spec => []BestIsShown`;
* `BuiltinsRun`: `Spec => []BuiltinsRunNothing`.

The inductive invariant is the conjunction of the type invariant, `PCKnows` (what the
place in the loop implies: an iteration is left, the suggestion is there, and from
`run` on it is neither of high risk, nor a conclusion, nor the last command),
`ProbesAreNew`, `BestIsShown` and `BuiltinsStay` (a prompt answered by the engine never
leaves `ask` but for `done`).  `PickedIsBest` is the heart of `BestShown`: the two scans
of `_pick_best_result` find an element that is best by the worth the property defines;
it rests on `LatestExists`, that a set of positions that is not empty has a greatest.

`NLSessionProofs` proves for any number of lines and suggestions (assumption:
`BoundAssumption`):

* `TypeCorrect`: `Spec => []TypeOK`;
* `PendingIsAnswered`: `Spec => []PendingHasAnswerer`;
* `AnsweredInOrder`: `Spec => []AnswersInOrder`;
* `ModesPart`: `Spec => ModesPartByEscape`;
* `SuggestionStays`: `Spec => SuggestionWaits`.

The invariant numbers the queries: each has cost a line (`LinesPayForQueries`) and the
threads are exactly those up to the last (`ThreadsAreQueries`); an answer in the queue or
handled has left no thread and is in one place once (`AnsweredOnce`); without a
cancellation the last query is the only one at work and all former ones have been handled
in order (`OneAtATime`).  `ThreadsDoNotToggle` is what the two action properties need: a
toggle is handled where it is typed and never given to a thread, so no answer can move a
mode or write the toggle's carriage return into a waiting suggestion.  What is left for
`SuggestionStays`, of a thread's answer, of the main thread's own call and of an agent, is
the newline inside the suggestion and the user's own Bash line.

`LocalTerminalProofs` proves for any keyboard, context size and number of prints,
wherever a read cuts the output (no assumption but the module's own, and for the row the
hypothesis below):

* `KeyboardComesBack`: `Spec => []KeyboardReturns`;
* `SuppressionStops`: `Spec => []SuppressionEnds`;
* `ScreenIsTracked`: `Spec => []AltScreenIsTracked`;
* `ContextFollowsOutput`: `Spec => []ContextIsOutput`;
* `RowFollowsLine`: `Spec => []LineIsShown`, with the hypothesis `OneKeyReads(Plain)`:
  for some set `Plain` of bytes that begin a character, every read is one key of the
  editor, or text of such bytes, of those that continue a character (`Continuation`) and
  of carriage returns.

`PromptComes` says why the keyboard comes back: whoever believes that a command runs has
something in the foreground, a line waiting for the shell, or a prompt as the last piece
not yet read; every chunk that reads the rest therefore ends with it, however short.  The
other half of `ToPTY` is the detector's depth.  While no read has cut a leave sequence the
detector sees every one of them, though it may miss an enter sequence: `NoDeeper` says that
the depth and what is still to be counted come to no more than the screen has, from
wherever a read ends, and the shell waits with the alternate screen off (`ShellIsText`).
`NewlineComes` says why suppression ends: a newline follows each question that has been
answered, in what is not yet read.  The lemmas are about the end, the reverse and the
first matching position of a sequence.

The detector counts the sequences of a chunk by kind, not in their order, and stops at
zero.  `ScreenFollows` says why that is harmless: `Believed(n)`, the depth with the first
`n` pieces of what is not yet read counted in, is 0 or 1 wherever a read may end, so that
the count is never cut off at zero, and at the end of what has been printed it is the
screen.  `OccurrencesConcat` carries it through a read: a sequence is in one of two
consecutive chunks unless the first ends with its first half, which is what `cut` notes.

The context needs an induction over data, and the library's theorems for one take an
operator, so it is done with a set in its place: `Counting` (a set of numbers with 0 and
the successors of its members has them all, from the library's well-founded order) gives
`Appending` (the same of sequences), and these the equation of the recursive function of
`Lines` (`LinesRead`, `LinesOfAppended`) and `LinesOfConcat`: the lines of a text and more
are those of the text and then those of its rest and more.  With `LastLinesConcat`, that
forgetting early lines early loses none of the last, a chunk carries the invariant on.
Decoding chunk by chunk is followed in `Shared`, the output with `?` for each half of a
character that has lost the other: `SharedGrows` says that a chunk adds its own decoding to
it and changes nothing before, since a chunk that ends within a character is noted in
`torn`, and what comes next cannot complete it any more.

The row is the line because the editor never leaves the cells it writes: `Display` of
bytes is done one by one (`DisplayConcat`, by the same induction), so that the display of
a text is the row with those cells replaced (`DisplayText`, over `Over`) and that of
backspaces moves the column only (`DisplayBack`).  `CellsRewritten` then says that a text
which repeats the new line from where the cursor is, and blanks what the old one had
beyond it, leaves the cells of the new line; recalls, insertions and backspaces each write
such a text (`ReplaceFits`, `InsertFits`, `BackspaceFits`).

Those lemmas are of lines with a byte to a character.  For the others, two rows are `Alike`
when their cells begin with the same bytes: a byte that continues a character changes the
first byte of no cell, so that the display of a text is alike to that of its `Characters`
(`DisplayAlike`, again by induction).  Text of several bytes a character may therefore be
inserted at the end of a line, and recalled into one that has none before it (`InsertIs`,
`ReplaceIs`, which take the earlier lemmas to the row of characters); within such a line the
columns are wrong, which is what `Miscounts` excludes.  The invariant is `LineFits`: the
line, the history and what a recall has put aside are text, the cursor is in the line, and
while `clean` the row is alike to one that fits the characters of the line.  The hypothesis
is what the code takes for granted and nothing enforces: it recognises a key only when it is
the whole read.  The `Terminal` run meets it (`MCInput`, with `a`, `b` and `char<` for
`Plain`).

`AgentMemoryProofs` proves for any terminals, queries, cancellations, bounds of the
conversation and period of consolidation (assumptions: `BoundAssumption`, which has
`KEEP_RECENT` even, so that the compactor keeps whole exchanges, and
`TerminalAssumption`, that no terminal is the model's `Nobody`):

* `TypeCorrect`: the types of `TypeOK`, of the module of the proofs;
* `ConversationIsRecalled`: `Spec => []RecentAreRemembered`;
* `ExchangesAreKept`: `Spec => []KeptUntilSaved`;
* `FilesAgree`: `Spec => []LayersAgree`.

`Threads` (a thread at work has a terminal that runs, and two of them in one terminal
make it `overlapped`) and `RecordedOnce` (an exchange is recorded in one terminal, by its
own thread, and only what is recorded there is consolidated there) are what the others
rest on.  `Conversations` says of each place of a thread what its conversation tells:
`Recalls`, the last exchanges, as many as the bound admits, perhaps behind a summary, and
in the middle of a recording that and one message more.  `Layered` follows an exchange from
its tracking to the log, by what each thread that consolidates has hold of (`Holding`): what
waits, but for what is at risk, is all with it, and is stored (logged, or given to a
consolidation that failed or had no entry) before it is cleared.  No bound on the number of
consolidations of a terminal is needed, nor that they do not overlap: `atRisk` names the
exchanges two of them share, and nothing else is excused.  `Files` is the same for MEMORY.md:
`unseen` names what a thread could not have read, so that the rest of `kept` is known to
it, and is in the file whenever nobody is in the middle of a write.

`AttachSplitProofs` proves for any keys, sizes, outputs, messages and resizes (no
assumption but `KeyAssumption`, that a key is a sequence of classes of bytes):

* `SplitIsCurrent`: `Spec => []RenderedIsCurrent`;
* `KeysAreRouted`: `Spec => []InputIsRouted`;
* `ReadsMayCut`: `Spec => []CutsDoNotMatter`.

A frame may be out of date, so the invariant needs more than the property says:
`DrawnAsFramed`, that the terminal shows the last frame even when it is not current,
since `render` draws a line again only when it differs from that frame, and
`CleanIsCurrent` also between two decisions of one read, where the property does not
look.  `RenderDraws` says what a call of `render` leaves; every other action either
changes nothing that is drawn or sets the flag of the pane it changes (`RenderStays`).

For the keys, `Routing` says how the places of a byte follow each other (`Arranged`): what
has gone to either side precedes what decisions carry, that what the router keeps, that
what is unread; and that all of them and three for each toggle are what was typed.
`FeedRoutes` says that a call of `feed` preserves this, of any bytes: by induction from
the last token of the buffer to the first, each with at least a byte and an F4 with three
(`TokenEndType`).  The recursive functions of `Feed` and of `FlattenSeq` are handled like
those of `Lines`, by an existence lemma and `Counting`.

That cuts do not matter (`CutAnywhere`) is a fact about `Feed` alone, by induction on the
length of what is read first.  `FeedFirst` says that `feed` of a token and of what follows
it is the decision about the token and `feed` of what follows; its core is that the bytes
before a token do not change it (`ShiftedEnd`, `SuffixParsed`).  Then either all that was
read is kept (`AgreesKept`), or its first token is the same in the longer buffer
(`TokenStays`, `AgreesAfter`), or it is a run of plain bytes that goes on, which the cut
makes two decisions about the same bytes (`RunGrows`, `AgreesRun`).  That is for one side
having the keyboard in both reads.  In the program the second read has the focus that the
first one's toggles have left (`FocusAfter`), so `FeedAlike` says how far the side matters:
to the target of what is not a toggle and to nothing else; `ReadsAgree` puts the two together,
for any side at the second read, and the same sides when it is the one of the first.

`ViewerCommandsProofs` proves for any subset of the commands and any numbers of outputs,
messages and keys (assumptions: `CommandAssumption`, `BoundAssumption`):

* `TypeCorrect`: `Spec => []TypeOK`;
* `ScreenFaithful`: `Spec => []ScreenIsFaithful`;
* `AttachFinds`: `Spec => []AttachFindsHost`.

The screen is compared with the number of outputs received, so the invariant has to know
the numbers of the frames on their way: `Numbered` has a function that counts the outputs
up to each frame from those received to those sent, and three lemmas say what sending and
receiving do to it.  `BufferedThenShown` then follows the buffer to the screen.  For the
handshake, `EnterIsAnswered` follows the Enter of attach from the connection to the host
and, unless the host suppresses its answer, back as output; it would be lost where the viewer is
not in the relay's list, and `JoinComesFirst` says that the join precedes it and that only a closed connection ends the
receive task while attach waits.

Only model-checked: all liveness (fairness and `ENABLED` are outside what TLAPS proves
here).  Every invariant and every action property of the passing runs is a theorem.

## 6. Not modelled, and the plan

Not modelled because there is nothing to explore: rendering, the risk engine's
and the redactor's regular expressions (their verdicts are choices in the
models), configuration, doctor, command line parsing, the agent's tools, the
content of messages.  `PROJECT.json` lists every component with its status, and
the hazards of each, the uncovered ones with the reason.

What a program that runs never does is not modelled: `ChatManager.activate`,
`RelayServer`, and everything of `SessionManager` but `create_session` are called by
tests only; the token the relay checks is its own.

Of what is modelled in part: the PTY's life (Ctrl+X closes it within a turn of the
loop, which may then write to it and raise; the session ends either way and the
terminal is restored), the resize handler and the log of chunks in the local terminal;
`login` and the local commands among the remote ones; the stdin loops of the agent
client; the tools of the agent; `explain` of the adapter, which has no state.

Next, in this order:

1. The end of a session: Ctrl+X, `exit`, the PTY closed; the loop tests the child before
   it reads the PTY (`terminal_session.py:647`), so that the last output of a shell that
   has ended may never be shown.
2. `Collab`: bridge, relay and viewer composed, refining `OutputStream` from the
   PTY to the viewer.
