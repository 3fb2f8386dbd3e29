---------------------------- MODULE LocalTerminal ---------------------------
(***************************************************************************)
(* The local terminal of a session in Bash Mode: who has the keyboard, the *)
(* line editor or what runs in the PTY, and what becomes of the PTY's      *)
(* output, in TerminalSession (src/application/usecases/                   *)
(* terminal_session.py), AlternateScreenDetector and PTYEngine.  Queries,  *)
(* suggestions and remote input are in NLSession.                          *)
(*                                                                         *)
(* The output of the PTY is a sequence of pieces: "text", "nl", "prompt",  *)
(* and the two halves of a character of two bytes, of a question for a     *)
(* password and of the sequences that enter and leave the alternate        *)
(* screen.  A read may end between any two pieces.  Programs leave the     *)
(* alternate screen before they end, run in the foreground, and print      *)
(* nothing that looks like a prompt (such output is in NLSession).         *)
(***************************************************************************)
EXTENDS LineEditor

CONSTANTS
    Input,         \* what a read of the keyboard may return: one key, or text
    ContextLines,  \* nl_mode.context_lines
    MaxKeys, MaxPrints   \* bounds, for TLC

ASSUME ContextAssumption == ContextLines \in Nat \ {0}

VARIABLES
    nKeys,         \* number of reads of the keyboard
    running,       \* _pty_running
    depth,         \* AlternateScreenDetector._depth
    inPassword,    \* _in_password_entry
    outputLines,   \* _output_lines: the complete lines, the last ones
    partial,       \* _output_partial
    relayed,       \* what has been sent to the bridge
    foreground,    \* what reads the PTY: "shell", "program", "asking"
    altScreen,     \* the alternate screen is on
    ttyInput,      \* lines and interrupts written to the PTY and not yet read
    pty,           \* output not yet read by the session
    printed,       \* number of times a program has printed
    clean,         \* nothing has come over the prompt and the line (see Edit)
    cut,           \* the sequences of the screen that a read has ended within
    torn           \* where, in relayed, a chunk has ended within a character

session == <<running, depth, inPassword>>
context == <<outputLines, partial, relayed>>
shell == <<foreground, altScreen, ttyInput, pty, printed>>
ghosts == <<clean, cut, torn>>
vars == <<editor, row, nKeys, session, context, shell, ghosts>>

AtPrompt == [cells |-> <<<<"prompt">>>>, col |-> 1]

Init ==
    /\ line = <<>> /\ cursor = 0 /\ history = <<>> /\ idx = 0 /\ saved = <<>>
    /\ row = AtPrompt /\ nKeys = 0
    /\ running = FALSE /\ depth = 0 /\ inPassword = FALSE
    /\ outputLines = <<>> /\ partial = <<>> /\ relayed = <<>>
    /\ foreground = "shell" /\ altScreen = FALSE /\ ttyInput = <<>> /\ pty = <<>>
    /\ printed = 0
    /\ clean = TRUE /\ cut = {} /\ torn = {}

-----------------------------------------------------------------------------
(* The keyboard: _route_input and _route_input_to_pty.                     *)

ToPTY == depth > 0 \/ running

Read(data) == nKeys < MaxKeys /\ nKeys' = nKeys + 1

(* The columns of a line are counted in bytes (terminal_session.py:249),   *)
(* which only matters to a key that moves within characters of several.    *)
Miscounts(data) ==
    /\ \E i \in 1..Len(line) : line[i] \in Continuation
    /\ cursor < Len(line) \/ data \in {<<"up">>, <<"down">>, <<"left">>, <<"backspace">>}

Edit(data) ==
    /\ Read(data) /\ ~ToPTY
    /\ EditKey(data)
    /\ clean' = (clean /\ ~Miscounts(data))
    /\ UNCHANGED <<session, context, shell, cut, torn>>

(* Ctrl-C in the editor.                                                   *)
Interrupt(data) ==
    /\ Read(data) /\ ~ToPTY /\ data = <<"intr">>
    /\ ClearLine
    /\ ttyInput' = Append(ttyInput, "intr")
    /\ clean' = FALSE
    /\ UNCHANGED <<session, context, foreground, altScreen, pty, printed, cut, torn>>

(* Enter: a line is a command for the shell (InterceptAction.EXEC_BASH), an*)
(* empty one is passed on; what follows the newline in the read is lost.   *)
Enter(data) ==
    LET full == line \o SubSeq(data, 1, SelectInSeq(data, LAMBDA b : b = "cr") - 1)
    IN
    /\ Read(data) /\ ~ToPTY
    /\ Head(data) \notin {"up", "down", "right", "left"} /\ Contains(data, "cr")
    /\ TakeLine(full)
    /\ running' = TRUE
    /\ ttyInput' = Append(ttyInput, IF full = <<>> THEN "empty" ELSE "command")
    /\ clean' = FALSE
    /\ UNCHANGED <<depth, inPassword, context, foreground, altScreen, pty, printed, cut,
                   torn>>

(* The rest goes to the PTY, which cares for ends of lines and Ctrl-C; a   *)
(* line of text typed ahead may become a command.                          *)
PassThrough(data) ==
    /\ Read(data) /\ ToPTY
    /\ \/ Contains(data, "cr") /\ \E l \in {"empty", "command"} : ttyInput' = Append(ttyInput, l)
       \/ data = <<"intr">> /\ ttyInput' = Append(ttyInput, "intr")
    /\ UNCHANGED <<editor, row, session, context, foreground, altScreen, pty, printed,
                   ghosts>>

Keyboard == \E data \in Input :
    Edit(data) \/ Interrupt(data) \/ Enter(data) \/ PassThrough(data)

-----------------------------------------------------------------------------
(* The shell and its programs.                                             *)

Emit(pieces) == pty' = pty \o pieces

ShellReads ==
    /\ foreground = "shell" /\ ttyInput # <<>>
    /\ ttyInput' = Tail(ttyInput)
    /\ CASE Head(ttyInput) = "command" -> foreground' = "program" /\ Emit(<<"text", "nl">>)
         [] Head(ttyInput) = "empty"   -> foreground' = "shell" /\ Emit(<<"nl", "prompt">>)
         [] Head(ttyInput) = "intr"    -> foreground' = "shell" /\ Emit(<<"text", "nl", "prompt">>)
    /\ UNCHANGED <<altScreen, printed>>

Ends(pieces) ==
    /\ foreground' = "shell" /\ altScreen' = FALSE
    /\ Emit((IF altScreen THEN <<"leave<", "leave>">> ELSE <<>>) \o pieces \o <<"prompt">>)

ProgramEnds ==
    /\ foreground = "program"
    /\ Ends(<<>>)
    /\ UNCHANGED <<ttyInput, printed>>

ProgramIsInterrupted ==
    /\ foreground # "shell" /\ Contains(ttyInput, "intr")
    /\ ttyInput' = SubSeq(ttyInput, SelectInSeq(ttyInput, LAMBDA i : i = "intr") + 1, Len(ttyInput))
    /\ Ends(<<"nl">>)
    /\ UNCHANGED printed

ProgramPrints ==
    /\ foreground = "program" /\ printed < MaxPrints
    /\ printed' = printed + 1
    /\ \E text \in {<<"nl">>, <<"char<", "char>">>} : Emit(text)
    /\ UNCHANGED <<foreground, altScreen, ttyInput>>

ProgramAsks ==
    /\ foreground = "program" /\ printed < MaxPrints
    /\ printed' = printed + 1
    /\ foreground' = "asking" /\ Emit(<<"ask<", "ask>">>)
    /\ UNCHANGED <<altScreen, ttyInput>>

ProgramIsAnswered ==
    /\ foreground = "asking" /\ ttyInput # <<>> /\ Head(ttyInput) # "intr"
    /\ ttyInput' = Tail(ttyInput)
    /\ foreground' = "program" /\ Emit(<<"nl">>)
    /\ UNCHANGED <<altScreen, printed>>

ProgramSwitchesScreen ==
    /\ foreground = "program" /\ printed < MaxPrints
    /\ printed' = printed + 1
    /\ altScreen' = ~altScreen
    /\ Emit(IF altScreen THEN <<"leave<", "leave>">> ELSE <<"enter<", "enter>">>)
    /\ UNCHANGED <<foreground, ttyInput>>

Shell ==
    /\ \/ ShellReads \/ ProgramEnds \/ ProgramIsInterrupted \/ ProgramPrints
       \/ ProgramAsks \/ ProgramIsAnswered \/ ProgramSwitchesScreen
    /\ UNCHANGED <<editor, row, nKeys, session, context, ghosts>>

-----------------------------------------------------------------------------
(* A chunk of output: _handle_pty_output.                                  *)

EndsWith(chunk, pieces) == IsSuffix(pieces, chunk)

Occurrences(chunk, first, second) ==
    Cardinality({i \in 1..Len(chunk) - 1 : chunk[i] = first /\ chunk[i + 1] = second})

(* Mutant: leaving is counted before entering.                             *)
DepthLeaveFirst(chunk) ==
    LET left == Occurrences(chunk, "leave<", "leave>")
    IN (IF left > depth THEN 0 ELSE depth - left) + Occurrences(chunk, "enter<", "enter>")

DepthAfter(chunk) ==
    LET entered == depth + Occurrences(chunk, "enter<", "enter>")
        left == Occurrences(chunk, "leave<", "leave>")
    IN IF left > entered THEN 0 ELSE entered - left

(* Mutant: a prompt that follows other output in the chunk is not seen.    *)
RunningAfterLonePrompt(chunk) == running /\ chunk # <<"prompt">>

RunningAfter(chunk) == running /\ ~EndsWith(chunk, <<"prompt">>)

(* _accumulate_output_lines: the lines that chunk completes, without the   *)
(* empty ones, and what is left.                                           *)
LastLines(lines) ==
    IF Len(lines) <= ContextLines THEN lines
    ELSE SubSeq(lines, Len(lines) - ContextLines + 1, Len(lines))

AfterPiece(acc, piece) ==
    IF piece # "nl" THEN [acc EXCEPT !.rest = Append(@, piece)]
    ELSE [lines |-> IF acc.rest = <<>> THEN acc.lines ELSE Append(acc.lines, acc.rest),
          rest  |-> <<>>]

NoLines == [lines |-> <<>>, rest |-> <<>>]

Lines(text) ==
    LET upTo[n \in 0..Len(text)] ==
          IF n = 0 THEN NoLines ELSE AfterPiece(upTo[n - 1], text[n])
    IN upTo[Len(text)]

(* data.decode("utf-8", errors="replace"): half a character is not one.    *)
Decode(chunk) ==
    [i \in 1..Len(chunk) |->
        IF \/ chunk[i] = "char<" /\ (i = Len(chunk) \/ chunk[i + 1] # "char>")
           \/ chunk[i] = "char>" /\ (i = 1 \/ chunk[i - 1] # "char<")
        THEN "?" ELSE chunk[i]]

(* Mutant: a chunk begins a new line.                                      *)
ChunkOnly(chunk) == Decode(chunk)

WithPartial(chunk) == partial \o Decode(chunk)

Accumulate(chunk) ==
    LET all == Lines(WithPartial(chunk))
    IN /\ outputLines' = LastLines(outputLines \o all.lines)
       /\ partial' = all.rest

(* Of the chunk, what the terminal's row is changed by.                    *)
Written(chunk) == SelectSeq(chunk, LAMBDA p : p \in {"text", "nl", "prompt", "ask<", "ask>",
                                                    "char<", "char>"})

Show(chunk) ==
    /\ Echo(Written(chunk))
    /\ clean' = IF line = <<>> THEN row' = AtPrompt ELSE FALSE

(* Mutant: the newline is looked for at the beginning of the chunk.        *)
BeginsWithNewline(chunk) == chunk[1] = "nl"

HasNewline(chunk) == Contains(chunk, "nl")

(* The chunk with the newline that ends the wait is dropped as a whole.    *)
SuppressEcho(chunk) ==
    /\ inPassword
    /\ inPassword' = ~HasNewline(chunk)
    /\ UNCHANGED <<row, context, clean, torn>>

AskForPassword(chunk) ==
    /\ ~inPassword /\ EndsWith(chunk, <<"ask<", "ask>">>)
    /\ inPassword' = TRUE
    /\ Show(chunk)
    /\ UNCHANGED <<context, torn>>

PassOutput(chunk) ==
    /\ ~inPassword /\ ~EndsWith(chunk, <<"ask<", "ask>">>)
    /\ Show(chunk) /\ Accumulate(chunk)
    /\ relayed' = relayed \o chunk
    /\ torn' = torn \cup (IF Last(chunk) = "char<" THEN {Len(relayed')} ELSE {})
    /\ UNCHANGED inPassword

HandleOutput ==
    \E n \in 1..Len(pty) :
        LET chunk == SubSeq(pty, 1, n)
        IN /\ pty' = SubSeq(pty, n + 1, Len(pty))
           /\ depth' = DepthAfter(chunk) /\ running' = RunningAfter(chunk)
           /\ SuppressEcho(chunk) \/ AskForPassword(chunk) \/ PassOutput(chunk)
           /\ cut' = cut \cup ({Last(chunk)} \cap {"enter<", "leave<"})
           /\ UNCHANGED <<editor, nKeys, foreground, altScreen, ttyInput, printed>>

Next == Keyboard \/ Shell \/ HandleOutput

Spec == Init /\ [][Next]_vars

-----------------------------------------------------------------------------
Characters(bytes) ==
    LET upTo[n \in 0..Len(bytes)] ==
          IF n = 0 THEN <<>>
          ELSE IF bytes[n] \in Continuation THEN upTo[n - 1]
          ELSE Append(upTo[n - 1], bytes[n])
    IN upTo[Len(bytes)]

TypeOK ==
    /\ cursor \in 0..Len(line) /\ idx \in 0..Len(history)
    /\ row.col \in Nat /\ nKeys \in 0..MaxKeys
    /\ {running, inPassword, altScreen, clean} \subseteq BOOLEAN
    /\ cut \subseteq {"enter<", "leave<"} /\ torn \subseteq 1..Len(relayed)
    /\ depth \in Nat /\ Len(outputLines) <= ContextLines
    /\ foreground \in {"shell", "program", "asking"}

(* Until something is printed over the prompt, or a key moves by bytes     *)
(* within characters of several, the row of the terminal is the prompt and *)
(* the line, with the terminal's cursor where the line's is: the first     *)
(* bytes of the cells are those of the characters                          *)
(* (terminal_session.py:228-330, 445-462).                                 *)
FirstByte(r, i) == Head(IF i <= Len(r.cells) THEN r.cells[i] ELSE Blank)

RowShowsLine ==
    /\ row.col = 1 + Len(Characters(Before(cursor)))
    /\ FirstByte(row, 1) = "prompt"
    /\ \A i \in 1..Len(Characters(line)) : FirstByte(row, i + 1) = Characters(line)[i]
    /\ \A i \in Len(Characters(line)) + 2..Len(row.cells) : FirstByte(row, i) = " "

LineIsShown == clean => RowShowsLine

(* When the shell waits at its prompt and its output has been read, what is*)
(* typed goes to the editor again, however the reads have cut the output,  *)
(* unless one has cut a sequence that leaves the alternate screen          *)
(* (terminal_session.py:203-233, 557-561, alternate_screen.py:34-40).      *)
ShellHasWaited == foreground = "shell" /\ pty = <<>> /\ ttyInput = <<>>

KeyboardReturns == ShellHasWaited /\ ToPTY => "leave<" \in cut

(* Output is suppressed no longer than a program waits for a password      *)
(* (terminal_session.py:563-569).                                          *)
SuppressionEnds == inPassword /\ pty = <<>> => foreground = "asking"

(* When all output has been read, the detector knows whether the alternate *)
(* screen is on, unless a read has cut the sequence                        *)
(* (alternate_screen.py:39-46).                                            *)
AltScreenIsTracked == pty = <<>> /\ cut = {} => (depth > 0) = altScreen

(* The lines given to the model as context are those of the output shared, *)
(* however it has been cut, but for the halves of a character that a read  *)
(* has cut: each is shown as one that is not known                         *)
(* (terminal_session.py:507-517).                                          *)
Half(i) ==
    \/ relayed[i] = "char<" /\ (i \in torn \/ i = Len(relayed) \/ relayed[i + 1] # "char>")
    \/ relayed[i] = "char>" /\ (i = 1 \/ i - 1 \in torn \/ relayed[i - 1] # "char<")

Shared == [i \in 1..Len(relayed) |-> IF Half(i) THEN "?" ELSE relayed[i]]

ContextIsOutput ==
    LET all == Lines(Shared)
    IN outputLines = LastLines(all.lines) /\ partial = all.rest
=============================================================================
