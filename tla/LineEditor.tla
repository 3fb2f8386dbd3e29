------------------------------ MODULE LineEditor -----------------------------
(***************************************************************************)
(* The session's own line editor: the keys of _buffer_nl_input in          *)
(* src/application/usecases/terminal_session.py, and what it writes to the *)
(* terminal to keep the row of the prompt equal to the line.               *)
(*                                                                         *)
(* A byte is a member of a small set; "up", "left" and so on stand for     *)
(* whole escape sequences.  Of the terminal there is the row of the cursor:*)
(* a sequence of cells, each the bytes of one character, and the column.   *)
(***************************************************************************)
EXTENDS Naturals, FiniteSets, SequencesExt

CONSTANT Continuation   \* the bytes that continue a character of UTF-8

VARIABLES
    line,      \* _nl_buffer
    cursor,    \* _nl_cursor
    history,   \* _nl_history
    idx,       \* _nl_history_idx + 1: 0 when nothing is browsed
    saved,     \* _nl_saved_input
    row        \* the row of the terminal: its cells and the column

editor == <<line, cursor, history, idx, saved>>

Blank == <<" ">>

(* What a terminal does of a byte.                                         *)
Put(r, b) ==
    LET wide == r.cells \o [i \in 1..(r.col + 1 - Len(r.cells)) |-> Blank]
    IN CASE b \in {"backspace", "left"} ->
                [r EXCEPT !.col = IF @ = 0 THEN 0 ELSE @ - 1]
         [] b = "right" -> [r EXCEPT !.col = @ + 1]
         [] b = "nl" -> [cells |-> <<>>, col |-> 0]
         [] b \in Continuation ->
                IF r.col = 0 THEN r
                ELSE [r EXCEPT !.cells = [wide EXCEPT ![r.col] = Append(@, b)]]
         [] OTHER -> [cells |-> [wide EXCEPT ![r.col + 1] = <<b>>], col |-> r.col + 1]

Display(r, bytes) ==
    LET after[n \in 0..Len(bytes)] == IF n = 0 THEN r ELSE Put(after[n - 1], bytes[n])
    IN after[Len(bytes)]

Echo(bytes) == row' = Display(row, bytes)

Times(n, b) == [i \in 1..n |-> b]

Before(n) == SubSeq(line, 1, n)
After(n) == SubSeq(line, n + 1, Len(line))

-----------------------------------------------------------------------------
(* Mutant: as if the cursor were at the end of the line.                   *)
ToStartFromEnd == Times(Len(line), "backspace")

ToStart == Times(cursor, "backspace")

AtEnd(new) == Len(new)

(* _replace_nl_line and the assignments that follow it.                    *)
Replace(new) ==
    /\ Echo(ToStart \o Times(Len(line), " ") \o Times(Len(line), "backspace") \o new)
    /\ line' = new /\ cursor' = AtEnd(new)

KeyUp ==
    /\ IF idx = 0 THEN history # <<>> ELSE idx > 1
    /\ saved' = IF idx = 0 THEN line ELSE saved
    /\ idx' = IF idx = 0 THEN Len(history) ELSE idx - 1
    /\ Replace(history[idx'])
    /\ UNCHANGED history

KeyDown ==
    /\ idx # 0
    /\ idx' = IF idx < Len(history) THEN idx + 1 ELSE 0
    /\ Replace(IF idx' = 0 THEN saved ELSE history[idx'])
    /\ UNCHANGED <<history, saved>>

KeyRight ==
    /\ cursor < Len(line)
    /\ cursor' = cursor + 1 /\ Echo(<<"right">>)
    /\ UNCHANGED <<line, history, idx, saved>>

KeyLeft ==
    /\ cursor > 0
    /\ cursor' = cursor - 1 /\ Echo(<<"left">>)
    /\ UNCHANGED <<line, history, idx, saved>>

Backspace ==
    /\ cursor > 0
    /\ line' = Before(cursor - 1) \o After(cursor) /\ cursor' = cursor - 1
    /\ Echo(<<"backspace">> \o After(cursor) \o <<" ">>
              \o Times(Len(line) - cursor + 1, "backspace"))
    /\ UNCHANGED <<history, idx, saved>>

Insert(data) ==
    /\ line' = Before(cursor) \o data \o After(cursor)
    /\ cursor' = cursor + Len(data)
    /\ Echo(data \o After(cursor) \o Times(Len(line) - cursor, "backspace"))
    /\ idx' = 0
    /\ UNCHANGED <<history, saved>>

IsNew(full) == full # <<>> /\ (history = <<>> \/ Last(history) # full)

(* Enter: the line, with what precedes the newline in the same read.       *)
TakeLine(full) ==
    /\ line' = <<>> /\ cursor' = 0 /\ idx' = 0
    /\ history' = IF IsNew(full) THEN Append(history, full) ELSE history
    /\ Echo(<<"nl">>)
    /\ UNCHANGED saved

ClearLine ==
    /\ line' = <<>> /\ cursor' = 0
    /\ UNCHANGED <<history, idx, saved, row>>

(* A read that holds one key, or text.  A key that does nothing is a       *)
(* stutter.                                                                *)
EditKey(data) ==
    \/ data = <<"up">> /\ KeyUp
    \/ data = <<"down">> /\ KeyDown
    \/ data = <<"right">> /\ KeyRight
    \/ data = <<"left">> /\ KeyLeft
    \/ data = <<"backspace">> /\ Backspace
    \/ /\ Head(data) \notin {"up", "down", "right", "left"}
       /\ data \notin {<<"backspace">>, <<"intr">>} /\ ~Contains(data, "cr")
       /\ Insert(data)
=============================================================================
