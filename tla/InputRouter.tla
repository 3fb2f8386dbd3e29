----------------------------- MODULE InputRouter ----------------------------
(* How the bytes of a keyboard are cut into keys and routed, src/          *)
(* infrastructure/terminal_engine/input_router.py.  A byte is a record; its*)
(* field "c" is what the router tells apart: "esc", "[", "O", "S", "par"   *)
(* (parameter and intermediate bytes, 0x20-0x3F) and anything else.        *)
EXTENDS Naturals, Sequences, FiniteSetsExt

Class(buf, i) == IF i \in 1..Len(buf) THEN buf[i].c ELSE "none"

F4At(buf, i) == Class(buf, i) = "esc" /\ Class(buf, i + 1) = "O" /\ Class(buf, i + 2) = "S"

(* The end of a token that ends with the first byte of a set, or else with *)
(* the buffer or nowhere: 0 stands for a token of which more must come.    *)
FirstIn(ends, otherwise) == IF ends = {} THEN otherwise ELSE Min(ends)

PlainEnd(buf, i) ==
    FirstIn({j \in i..Len(buf) : Class(buf, j + 1) = "esc"}, Len(buf))

CsiEnd(buf, i) == FirstIn({j \in i + 2..Len(buf) : Class(buf, j) # "par"}, 0)

(* Mutant: an ESC that is the last byte of a read is a key.                *)
EscIsKey(i) == i

EscAwaitsMore(i) == 0

(* The last byte of the token that begins at i.                            *)
TokenEnd(buf, i) ==
    IF Class(buf, i) # "esc" THEN PlainEnd(buf, i)
    ELSE CASE Class(buf, i + 1) = "none" -> EscAwaitsMore(i)
           [] Class(buf, i + 1) = "["    -> CsiEnd(buf, i)
           [] Class(buf, i + 1) = "O"    -> IF i + 2 <= Len(buf) THEN i + 2 ELSE 0
           [] OTHER                      -> i + 1

Result(target, bytes) == [target |-> target, bytes |-> bytes]

Decision(buf, i, focus) ==
    IF F4At(buf, i) THEN Result("toggle", <<>>)
    ELSE Result(focus, SubSeq(buf, i, TokenEnd(buf, i)))

Parsed(results, escBuf) == [results |-> results, escBuf |-> escBuf]

(* What follows from i on, when "rest" is what follows from the next token *)
(* on: no more, a sequence to be completed, or a decision and the rest.    *)
FromToken(buf, focus, i, rest) ==
    CASE i > Len(buf) -> Parsed(<<>>, <<>>)
      [] i <= Len(buf) /\ TokenEnd(buf, i) = 0 -> Parsed(<<>>, SubSeq(buf, i, Len(buf)))
      [] OTHER -> Parsed(<<Decision(buf, i, focus)>> \o rest.results, rest.escBuf)

(* feed(): the routing decisions and the bytes kept in _esc_buf.           *)
Feed(buf, focus) ==
    LET parse[i \in 1..Len(buf) + 1] ==
          FromToken(buf, focus, i, parse[TokenEnd(buf, i) + 1])
    IN parse[1]
=============================================================================
