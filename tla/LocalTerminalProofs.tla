------------------------- MODULE LocalTerminalProofs -------------------------
(***************************************************************************)
(* What the local terminal owes the keyboard and the screen, wherever the  *)
(* reads cut the output and for any input and number of prints: the editor *)
(* has the keyboard when the shell waits, unless a read has cut a sequence *)
(* that leaves the alternate screen; output is suppressed no longer than a *)
(* program waits for a password; the detector knows the screen; and the    *)
(* context of queries is the output, but for characters that a read has    *)
(* cut.  While nothing is printed over the prompt, the row of the screen is*)
(* the line that is edited, whose characters may have several bytes.       *)
(***************************************************************************)
EXTENDS LocalTerminal, Integers, WellFoundedInduction, SequenceTheorems,
        FiniteSetTheorems, TLAPS

Piece == {"text", "nl", "prompt", "ask<", "ask>", "enter<", "enter>", "leave<", "leave>",
          "char<", "char>", "?"}

Types ==
    /\ running \in BOOLEAN /\ inPassword \in BOOLEAN /\ altScreen \in BOOLEAN
    /\ foreground \in {"shell", "program", "asking"}
    /\ ttyInput \in Seq({"empty", "command", "intr"})
    /\ pty \in Seq(Piece)

(* Whoever believes that a command runs will see a prompt: something is in *)
(* the foreground, or waits for the shell, or the prompt is the last thing *)
(* printed.                                                                *)
PromptComes ==
    running => \/ foreground # "shell"
               \/ ttyInput # <<>>
               \/ pty # <<>> /\ pty[Len(pty)] = "prompt"

(* A newline follows every question for a password that has been answered, *)
(* read or not.                                                            *)
NewlineComes ==
    /\ \A i \in 1..Len(pty) :
          pty[i] = "ask>" => \/ foreground = "asking"
                             \/ \E j \in i + 1..Len(pty) : pty[j] = "nl"
    /\ inPassword => \/ foreground = "asking"
                     \/ \E j \in 1..Len(pty) : pty[j] = "nl"

IInv == Types /\ PromptComes /\ NewlineComes

-----------------------------------------------------------------------------
(* Sequences.                                                              *)

(* A set of positions that is not empty has a first one.                   *)
LEMMA FirstExists ==
    ASSUME NEW n \in Nat, NEW S \in SUBSET (1..n), S # {}
    PROVE  Min(S) \in S /\ \A y \in S : Min(S) <= y
<1> DEFINE R == OpToRel(<, Nat)
<1>1. IsWellFoundedOn(R, Nat)
  BY NatLessThanWellFounded
<1>2. S \subseteq Nat /\ S # {}
  OBVIOUS
<1>3. \E x \in S : \A y \in S : ~ (<<y, x>> \in R)
  <2> HIDE DEF R
  <2> QED
    BY <1>1, <1>2, WFMin
<1>4. PICK x \in S : \A y \in S : ~ (<<y, x>> \in R)
  BY <1>3
<1>5. \A y \in S : ~ (y < x)
  BY <1>2, <1>4, Zenon DEF OpToRel
<1>6. \A y \in S : x <= y
  BY <1>2, <1>5
<1> QED
  BY <1>6 DEF Min

LEMMA LastOfAppended ==
    ASSUME NEW s \in Seq(Piece), NEW t \in Seq(Piece), t # <<>>
    PROVE  /\ s \o t \in Seq(Piece) /\ s \o t # <<>>
           /\ (s \o t)[Len(s \o t)] = t[Len(t)]
OBVIOUS

LEMMA ReverseOf ==
    ASSUME NEW s \in Seq(Piece)
    PROVE  /\ Reverse(s) \in Seq(Piece) /\ Len(Reverse(s)) = Len(s)
           /\ s # <<>> => Reverse(s)[1] = s[Len(s)]
BY DEF Reverse

(* A chunk ends with a piece when that is its last one.                    *)
LEMMA EndsWithOne ==
    ASSUME NEW s \in Seq(Piece), s # <<>>, NEW p \in Piece, s[Len(s)] = p
    PROVE  EndsWith(s, <<p>>)
<1>1. <<p>> \in Seq(Piece) /\ Len(<<p>>) = 1 /\ <<p>>[1] = p /\ <<p>> # <<>>
  OBVIOUS
<1>2. Reverse(<<p>>) \in Seq(Piece) /\ Len(Reverse(<<p>>)) = 1 /\ Reverse(<<p>>)[1] = p
  BY <1>1, ReverseOf
<1>3. /\ Reverse(s) \in Seq(Piece) /\ Len(Reverse(s)) = Len(s) /\ Len(s) >= 1
      /\ Reverse(s)[1] = p
  BY ReverseOf
<1>4. SubSeq(Reverse(<<p>>), 1, 1) = SubSeq(Reverse(s), 1, 1)
  BY <1>2, <1>3
<1> QED
  BY <1>2, <1>3, <1>4 DEF EndsWith, IsSuffix, IsPrefix

LEMMA EndsWithTwo ==
    ASSUME NEW s \in Seq(Piece), NEW p \in Piece, NEW q \in Piece,
           EndsWith(s, <<p, q>>)
    PROVE  s # <<>> /\ s[Len(s)] = q
<1>1. <<p, q>> \in Seq(Piece) /\ Len(<<p, q>>) = 2 /\ <<p, q>>[2] = q /\ <<p, q>> # <<>>
  OBVIOUS
<1>2. Reverse(<<p, q>>) \in Seq(Piece) /\ Len(Reverse(<<p, q>>)) = 2 /\ Reverse(<<p, q>>)[1] = q
  BY <1>1, ReverseOf
<1>3. Reverse(s) \in Seq(Piece) /\ Len(Reverse(s)) = Len(s)
  BY ReverseOf
<1>4. 2 <= Len(Reverse(s)) /\ SubSeq(Reverse(<<p, q>>), 1, 2) = SubSeq(Reverse(s), 1, 2)
  BY <1>2 DEF EndsWith, IsSuffix, IsPrefix
<1>5. SubSeq(Reverse(<<p, q>>), 1, 2)[1] = q /\ SubSeq(Reverse(s), 1, 2)[1] = Reverse(s)[1]
  BY <1>2, <1>3, <1>4
<1> QED
  BY <1>3, <1>4, <1>5, ReverseOf

-----------------------------------------------------------------------------
LEMMA InitInv == Init => IInv
<1> SUFFICES ASSUME Init PROVE IInv
  OBVIOUS
<1>1. /\ pty = <<>> /\ ttyInput = <<>> /\ running = FALSE /\ inPassword = FALSE
      /\ foreground = "shell" /\ altScreen = FALSE
  BY DEF Init
<1>2. Types
  <2>1. pty \in Seq(Piece) /\ ttyInput \in Seq({"empty", "command", "intr"})
    BY <1>1
  <2> QED
    BY <1>1, <2>1 DEF Types
<1>3. PromptComes /\ NewlineComes
  BY <1>1 DEF PromptComes, NewlineComes
<1> QED
  BY <1>2, <1>3 DEF IInv

(* The keyboard only adds to what waits in the PTY.                        *)
LEMMA KeyboardStep ==
    ASSUME IInv, Keyboard
    PROVE  IInv'
<1>1. PICK data \in Input : Edit(data) \/ Interrupt(data) \/ Enter(data) \/ PassThrough(data)
  BY DEF Keyboard
<1>2. CASE Edit(data)
  BY <1>2 DEF Edit, IInv, Types, PromptComes, NewlineComes, session, shell
<1>3. CASE ~Edit(data)
  <2>1. UNCHANGED <<pty, foreground, altScreen, inPassword>>
    BY <1>1, <1>3 DEF Interrupt, Enter, PassThrough, session
  <2>2. \E l \in {"empty", "command", "intr"} : ttyInput' = Append(ttyInput, l)
    BY <1>1, <1>3 DEF Interrupt, Enter, PassThrough
  <2>3. ttyInput' \in Seq({"empty", "command", "intr"}) /\ ttyInput' # <<>>
    BY <2>2 DEF IInv, Types
  <2>4. running' \in BOOLEAN
    BY <1>1, <1>3 DEF Interrupt, Enter, PassThrough, session, IInv, Types
  <2> QED
    BY <2>1, <2>3, <2>4 DEF IInv, Types, PromptComes, NewlineComes
<1> QED
  BY <1>2, <1>3

(* Output only adds to what has not been read: a newline that has been     *)
(* printed stays behind the questions it answers.                          *)
LEMMA NewlineStays ==
    ASSUME IInv, NEW t \in Seq(Piece), pty' = pty \o t, inPassword' = inPassword,
           \A i \in 1..Len(t) : t[i] # "ask>",
           \/ foreground # "asking"
           \/ foreground' = "asking"
           \/ \E j \in 1..Len(t) : t[j] = "nl"
    PROVE  NewlineComes'
<1>1. /\ Len(pty) \in Nat /\ Len(t) \in Nat /\ Len(pty') = Len(pty) + Len(t)
      /\ \A i \in 1..Len(pty) : pty'[i] = pty[i]
      /\ \A i \in 1..Len(t) : pty'[Len(pty) + i] = t[i]
  BY DEF IInv, Types
<1>2. ASSUME NEW i \in 1..Len(pty'), pty'[i] = "ask>"
      PROVE  i \in 1..Len(pty) /\ pty[i] = "ask>"
  <2>1. CASE i > Len(pty)
    <3> DEFINE k == i - Len(pty)
    <3>1. k \in 1..Len(t) /\ i = Len(pty) + k
      BY <1>1, <2>1
    <3> HIDE DEF k
    <3>2. pty'[i] = t[k]
      BY <1>1, <3>1
    <3> QED
      BY <1>2, <3>1, <3>2
  <2>2. CASE ~(i > Len(pty))
    <3>1. i \in 1..Len(pty)
      BY <1>1, <2>2
    <3> QED
      BY <1>1, <1>2, <3>1
  <2> QED
    BY <2>1, <2>2
<1>3. CASE foreground' = "asking"
  BY <1>3 DEF NewlineComes
<1>4. CASE \E j \in 1..Len(t) : t[j] = "nl"
  <2>1. PICK j \in 1..Len(t) : t[j] = "nl"
    BY <1>4
  <2>2. Len(pty) + j \in 1..Len(pty') /\ pty'[Len(pty) + j] = "nl"
    BY <1>1, <2>1
  <2>3. ASSUME NEW i \in 1..Len(pty'), pty'[i] = "ask>"
        PROVE  Len(pty) + j \in i + 1..Len(pty')
    <3>1. i \in 1..Len(pty) /\ Len(pty) \in Nat
      BY <1>1, <1>2, <2>3
    <3> QED
      BY <2>2, <3>1
  <2> QED
    BY <2>2, <2>3 DEF NewlineComes
<1>5. CASE foreground # "asking" /\ foreground' # "asking"
  <2>1. \A i \in 1..Len(pty') : pty'[i] = "ask>" => i \in 1..Len(pty) /\ pty[i] = "ask>"
    BY <1>1, <1>2
  <2>2. \A i \in 1..Len(pty), j \in 1..Len(pty) :
           j \in i + 1..Len(pty) => j \in i + 1..Len(pty')
    BY <1>1
  <2>3. \A j \in 1..Len(pty) : j \in 1..Len(pty')
    BY <1>1
  <2>4. \A i \in 1..Len(pty) : pty[i] = "ask>" => \E j \in i + 1..Len(pty) : pty[j] = "nl"
    BY <1>5 DEF IInv, NewlineComes
  <2>5. \A i \in 1..Len(pty') :
           pty'[i] = "ask>" => \E j \in i + 1..Len(pty') : pty'[j] = "nl"
    <3> SUFFICES ASSUME NEW i \in 1..Len(pty'), pty'[i] = "ask>"
                 PROVE  \E j \in i + 1..Len(pty') : pty'[j] = "nl"
      OBVIOUS
    <3>1. PICK j \in i + 1..Len(pty) : pty[j] = "nl"
      BY <2>1, <2>4
    <3>2. j \in 1..Len(pty) /\ j \in i + 1..Len(pty')
      BY <1>1, <2>1, <3>1
    <3> QED
      BY <1>1, <3>1, <3>2
  <2>6. inPassword' => \E j \in 1..Len(pty') : pty'[j] = "nl"
    BY <1>1, <1>5, <2>3 DEF IInv, NewlineComes
  <2> QED
    BY <2>5, <2>6 DEF NewlineComes
<1> QED
  BY <1>3, <1>4, <1>5

(* What a program or the shell prints leaves the invariant alone when it   *)
(* ends with a prompt or the shell is not left alone with nothing to read. *)
LEMMA Printed ==
    ASSUME IInv, NEW t \in Seq(Piece), pty' = pty \o t,
           inPassword' = inPassword, running' = running,
           \A i \in 1..Len(t) : t[i] # "ask>",
           \/ foreground # "asking"
           \/ foreground' = "asking"
           \/ \E j \in 1..Len(t) : t[j] = "nl",
           foreground' \in {"shell", "program", "asking"}, altScreen' \in BOOLEAN,
           ttyInput' \in Seq({"empty", "command", "intr"}),
           foreground' # "shell" \/ (t # <<>> /\ t[Len(t)] = "prompt")
    PROVE  IInv'
<1>1. pty' \in Seq(Piece)
  BY DEF IInv, Types
<1>2. Types'
  BY <1>1 DEF IInv, Types
<1>3. NewlineComes'
  BY NewlineStays
<1>4. PromptComes'
  <2>1. t # <<>> /\ t[Len(t)] = "prompt" => pty' # <<>> /\ pty'[Len(pty')] = "prompt"
    BY LastOfAppended DEF IInv, Types
  <2> QED
    BY <2>1 DEF PromptComes
<1> QED
  BY <1>2, <1>3, <1>4 DEF IInv

(* What ends prints a prompt at last.                                      *)
LEMMA EndsPrints ==
    ASSUME NEW pieces \in {<<>>, <<"nl">>}, Ends(pieces)
    PROVE  \E t \in Seq(Piece) :
              /\ pty' = pty \o t /\ t # <<>> /\ t[Len(t)] = "prompt"
              /\ \A i \in 1..Len(t) : t[i] # "ask>"
              /\ pieces = <<"nl">> => \E j \in 1..Len(t) : t[j] = "nl"
              /\ foreground' = "shell" /\ altScreen' = FALSE
<1> DEFINE first == IF altScreen THEN <<"leave<", "leave>">> ELSE <<>>
           t == first \o pieces \o <<"prompt">>
           Quiet == Piece \ {"ask>"}
<1>1. pty' = pty \o t /\ foreground' = "shell" /\ altScreen' = FALSE
  BY DEF Ends, Emit
<1>2. first \in Seq(Quiet) /\ pieces \in Seq(Quiet) /\ <<"prompt">> \in Seq(Quiet)
  <2>1. <<"leave<", "leave>">> \in Seq(Quiet) /\ <<>> \in Seq(Quiet) /\ <<"nl">> \in Seq(Quiet)
    BY DEF Piece
  <2>2. <<"prompt">> \in Seq(Quiet)
    BY DEF Piece
  <2> QED
    BY <2>1, <2>2
<1> HIDE DEF first, Quiet
<1>3. first \o pieces \in Seq(Quiet) /\ t \in Seq(Quiet)
  BY <1>2
<1>4. t # <<>> /\ t[Len(t)] = "prompt"
  BY <1>2, <1>3
<1>5. ASSUME pieces = <<"nl">> PROVE \E j \in 1..Len(t) : t[j] = "nl"
  <2>1. Len(first) + 1 \in 1..Len(t) /\ t[Len(first) + 1] = "nl"
    BY <1>2, <1>3, <1>5
  <2> QED
    BY <2>1
<1>6. t \in Seq(Piece) /\ \A i \in 1..Len(t) : t[i] # "ask>"
  BY <1>3 DEF Quiet
<1> QED
  BY <1>1, <1>4, <1>5, <1>6

(* Of what waits in the PTY an interrupt takes all before it.              *)
LEMMA InterruptTakes ==
    ASSUME IInv, ProgramIsInterrupted
    PROVE  ttyInput' \in Seq({"empty", "command", "intr"})
<1> DEFINE S == {i \in 1..Len(ttyInput) : ttyInput[i] = "intr"}
<1>1. ttyInput \in Seq({"empty", "command", "intr"}) /\ Len(ttyInput) \in Nat
  BY DEF IInv, Types
<1>2. S # {} /\ S \in SUBSET (1..Len(ttyInput))
  BY DEF ProgramIsInterrupted, Contains
<1>3. SelectInSeq(ttyInput, LAMBDA i : i = "intr") = Min(S)
  BY <1>2 DEF SelectInSeq
<1>4. Min(S) \in 1..Len(ttyInput)
  <2> HIDE DEF S
  <2> QED
    BY <1>1, <1>2, FirstExists
<1>5. ttyInput' = SubSeq(ttyInput, Min(S) + 1, Len(ttyInput))
  BY <1>3 DEF ProgramIsInterrupted
<1> QED
  <2> HIDE DEF S
  <2> QED
    BY <1>1, <1>4, <1>5

LEMMA ShellStep ==
    ASSUME IInv, Shell
    PROVE  IInv'
<1>0. /\ inPassword' = inPassword /\ running' = running
      /\ Types
  BY DEF Shell, session, IInv
<1>1. CASE ShellReads
  <2>1. foreground = "shell" /\ altScreen' = altScreen
    BY <1>1 DEF ShellReads
  <2>2. ttyInput' \in Seq({"empty", "command", "intr"})
        /\ Head(ttyInput) \in {"empty", "command", "intr"}
    BY <1>0, <1>1 DEF ShellReads, Types
  <2>3. CASE Head(ttyInput) = "command"
    <3>1. foreground' = "program" /\ pty' = pty \o <<"text", "nl">>
      BY <1>1, <2>3 DEF ShellReads, Emit
    <3>2. <<"text", "nl">> \in Seq(Piece) /\ \A i \in 1..Len(<<"text", "nl">>) : <<"text", "nl">>[i] # "ask>"
      BY DEF Piece
    <3> QED
      BY <1>0, <2>1, <2>2, <3>1, <3>2, Printed DEF Types
  <2>4. CASE Head(ttyInput) = "empty"
    <3> DEFINE t == <<"nl", "prompt">>
    <3>1. foreground' = "shell" /\ pty' = pty \o t
      BY <1>1, <2>4 DEF ShellReads, Emit
    <3>2. t \in Seq(Piece) /\ t # <<>> /\ t[Len(t)] = "prompt" /\ \A i \in 1..Len(t) : t[i] # "ask>"
      BY DEF Piece
    <3> QED
      BY <1>0, <2>1, <2>2, <3>1, <3>2, Printed DEF Types
  <2>5. CASE Head(ttyInput) = "intr"
    <3> DEFINE t == <<"text", "nl", "prompt">>
    <3>1. foreground' = "shell" /\ pty' = pty \o t
      BY <1>1, <2>5 DEF ShellReads, Emit
    <3>2. t \in Seq(Piece) /\ t # <<>> /\ t[Len(t)] = "prompt" /\ \A i \in 1..Len(t) : t[i] # "ask>"
      BY DEF Piece
    <3> QED
      BY <1>0, <2>1, <2>2, <3>1, <3>2, Printed DEF Types
  <2> QED
    BY <2>2, <2>3, <2>4, <2>5
<1>2. CASE ProgramEnds
  <2>1. foreground = "program" /\ Ends(<<>>) /\ ttyInput' = ttyInput
    BY <1>2 DEF ProgramEnds
  <2>2. PICK t \in Seq(Piece) :
              /\ pty' = pty \o t /\ t # <<>> /\ t[Len(t)] = "prompt"
              /\ \A i \in 1..Len(t) : t[i] # "ask>"
              /\ foreground' = "shell" /\ altScreen' = FALSE
    BY <2>1, EndsPrints
  <2> QED
    BY <1>0, <2>1, <2>2, Printed DEF Types
<1>3. CASE ProgramIsInterrupted
  <2>1. Ends(<<"nl">>) /\ ttyInput' \in Seq({"empty", "command", "intr"})
    BY <1>3, InterruptTakes DEF ProgramIsInterrupted
  <2>2. PICK t \in Seq(Piece) :
              /\ pty' = pty \o t /\ t # <<>> /\ t[Len(t)] = "prompt"
              /\ \A i \in 1..Len(t) : t[i] # "ask>"
              /\ \E j \in 1..Len(t) : t[j] = "nl"
              /\ foreground' = "shell" /\ altScreen' = FALSE
    BY <2>1, EndsPrints
  <2> QED
    BY <1>0, <2>1, <2>2, Printed DEF Types
<1>4. CASE ProgramPrints
  <2>1. PICK t \in {<<"nl">>, <<"char<", "char>">>} : pty' = pty \o t
    BY <1>4 DEF ProgramPrints, Emit
  <2>2. /\ foreground = "program" /\ foreground' = "program" /\ altScreen' = altScreen
        /\ ttyInput' = ttyInput
    BY <1>4 DEF ProgramPrints
  <2>3. t \in Seq(Piece) /\ \A i \in 1..Len(t) : t[i] # "ask>"
    <3>1. /\ <<"nl">> \in Seq(Piece) /\ \A i \in 1..Len(<<"nl">>) : <<"nl">>[i] # "ask>"
          /\ <<"char<", "char>">> \in Seq(Piece)
          /\ \A i \in 1..Len(<<"char<", "char>">>) : <<"char<", "char>">>[i] # "ask>"
      BY DEF Piece
    <3> QED
      BY <3>1
  <2> QED
    BY <1>0, <2>1, <2>2, <2>3, Printed DEF Types
<1>5. CASE ProgramAsks
  <2>1. /\ foreground' = "asking" /\ pty' = pty \o <<"ask<", "ask>">>
        /\ altScreen' = altScreen /\ ttyInput' = ttyInput
    BY <1>5 DEF ProgramAsks, Emit
  <2>2. pty' \in Seq(Piece)
    BY <1>0, <2>1 DEF Types, Piece
  <2> QED
    BY <1>0, <2>1, <2>2 DEF IInv, Types, PromptComes, NewlineComes
<1>6. CASE ProgramIsAnswered
  <2> DEFINE t == <<"nl">>
  <2>1. foreground' = "program" /\ pty' = pty \o t /\ altScreen' = altScreen
    BY <1>6 DEF ProgramIsAnswered, Emit
  <2>2. ttyInput' \in Seq({"empty", "command", "intr"})
    BY <1>0, <1>6 DEF ProgramIsAnswered, Types
  <2>3. /\ t \in Seq(Piece) /\ \A i \in 1..Len(t) : t[i] # "ask>"
        /\ \E j \in 1..Len(t) : t[j] = "nl"
    <3>1. 1 \in 1..Len(t) /\ t[1] = "nl"
      OBVIOUS
    <3> QED
      BY <3>1 DEF Piece
  <2> QED
    BY <1>0, <2>1, <2>2, <2>3, Printed DEF Types
<1>7. CASE ProgramSwitchesScreen
  <2> DEFINE t == IF altScreen THEN <<"leave<", "leave>">> ELSE <<"enter<", "enter>">>
  <2>1. /\ foreground = "program" /\ foreground' = "program" /\ pty' = pty \o t
        /\ ttyInput' = ttyInput /\ altScreen' \in BOOLEAN
    BY <1>0, <1>7 DEF ProgramSwitchesScreen, Emit, Types
  <2>2. t \in Seq(Piece) /\ \A i \in 1..Len(t) : t[i] # "ask>"
    <3> DEFINE enter == <<"enter<", "enter>">>
               leave == <<"leave<", "leave>">>
    <3>1. enter \in Seq(Piece) /\ \A i \in 1..Len(enter) : enter[i] # "ask>"
      BY DEF Piece
    <3>2. leave \in Seq(Piece) /\ \A i \in 1..Len(leave) : leave[i] # "ask>"
      BY DEF Piece
    <3>3. t = enter \/ t = leave
      OBVIOUS
    <3> HIDE DEF t, enter, leave
    <3> QED
      BY <3>1, <3>2, <3>3
  <2> HIDE DEF t
  <2> QED
    BY <1>0, <2>1, <2>2, Printed DEF Types
<1> QED
  BY <1>1, <1>2, <1>3, <1>4, <1>5, <1>6, <1>7 DEF Shell

-----------------------------------------------------------------------------
LEMMA OutputStep ==
    ASSUME IInv, HandleOutput
    PROVE  IInv'
<1> DEFINE chunk(n) == SubSeq(pty, 1, n)
<1>0. Types
  BY DEF IInv
<1>1. PICK n \in 1..Len(pty) :
         /\ pty' = SubSeq(pty, n + 1, Len(pty))
         /\ running' = RunningAfter(chunk(n))
         /\ SuppressEcho(chunk(n)) \/ AskForPassword(chunk(n)) \/ PassOutput(chunk(n))
         /\ UNCHANGED <<foreground, altScreen, ttyInput>>
  BY DEF HandleOutput
<1> DEFINE c == chunk(n)
<1>2. /\ Len(pty) \in Nat /\ n \in Nat /\ n >= 1 /\ n <= Len(pty)
      /\ c \in Seq(Piece) /\ Len(c) = n /\ c # <<>> /\ \A i \in 1..n : c[i] = pty[i]
  BY <1>0 DEF Types
<1>3. /\ pty' \in Seq(Piece) /\ Len(pty') = Len(pty) - n
      /\ \A i \in 1..Len(pty') : pty'[i] = pty[n + i] /\ n + i \in 1..Len(pty)
  BY <1>0, <1>1, <1>2 DEF Types
<1>4. /\ SuppressEcho(c) \/ AskForPassword(c) \/ PassOutput(c)
      /\ running' = RunningAfter(c)
  BY <1>1
<1> HIDE DEF c, chunk
<1>5. Types'
  <2>1. inPassword' \in BOOLEAN
    BY <1>0, <1>4 DEF SuppressEcho, AskForPassword, PassOutput, Types, HasNewline
  <2>2. running' \in BOOLEAN
    BY <1>0, <1>4 DEF RunningAfter, Types
  <2> QED
    BY <1>0, <1>1, <1>3, <2>1, <2>2 DEF Types
<1>6. PromptComes'
  <2> SUFFICES ASSUME running', foreground = "shell", ttyInput = <<>>
               PROVE  pty' # <<>> /\ pty'[Len(pty')] = "prompt"
    BY <1>1 DEF PromptComes
  <2>1. running /\ ~EndsWith(c, <<"prompt">>)
    BY <1>4 DEF RunningAfter
  <2>2. pty # <<>> /\ pty[Len(pty)] = "prompt"
    BY <2>1 DEF IInv, PromptComes
  <2>3. n # Len(pty)
    <3> SUFFICES ASSUME n = Len(pty) PROVE FALSE
      OBVIOUS
    <3>1. c[Len(c)] = "prompt"
      BY <1>2, <2>2
    <3> QED
      BY <1>2, <2>1, <3>1, EndsWithOne DEF Piece
  <2>4. Len(pty') >= 1 /\ pty'[Len(pty')] = pty[Len(pty)]
    <3>1. Len(pty') \in 1..Len(pty') /\ n + Len(pty') = Len(pty)
      BY <1>2, <1>3, <2>3
    <3>2. pty'[Len(pty')] = pty[n + Len(pty')]
      BY <1>3, <3>1
    <3> QED
      BY <3>1, <3>2
  <2> QED
    BY <2>2, <2>4, <1>3
<1>7. \A j \in 1..Len(pty) : j > n => j - n \in 1..Len(pty') /\ pty'[j - n] = pty[j]
  BY <1>2, <1>3
<1>8. NewlineComes'
  <2>1. \A i \in 1..Len(pty') :
           pty'[i] = "ask>" => \/ foreground = "asking"
                               \/ \E j \in i + 1..Len(pty') : pty'[j] = "nl"
    <3> SUFFICES ASSUME NEW i \in 1..Len(pty'), pty'[i] = "ask>", foreground # "asking"
                 PROVE  \E j \in i + 1..Len(pty') : pty'[j] = "nl"
      OBVIOUS
    <3>1. PICK j \in n + i + 1..Len(pty) : pty[j] = "nl"
      BY <1>3 DEF IInv, NewlineComes
    <3>2. j \in 1..Len(pty) /\ j > n
      BY <1>2, <3>1
    <3>3. j - n \in i + 1..Len(pty') /\ pty'[j - n] = "nl"
      BY <1>2, <1>3, <1>7, <3>1, <3>2
    <3> QED
      BY <3>3
  <2>2. inPassword' => \/ foreground = "asking"
                       \/ \E j \in 1..Len(pty') : pty'[j] = "nl"
    <3> SUFFICES ASSUME inPassword', foreground # "asking"
                 PROVE  \E j \in 1..Len(pty') : pty'[j] = "nl"
      OBVIOUS
    <3>1. CASE SuppressEcho(c)
      <4>1. inPassword /\ ~Contains(c, "nl")
        BY <3>1 DEF SuppressEcho, HasNewline
      <4>2. PICK j \in 1..Len(pty) : pty[j] = "nl"
        BY <4>1 DEF IInv, NewlineComes
      <4>3. j > n
        BY <1>2, <4>1, <4>2 DEF Contains
      <4> QED
        BY <1>7, <4>2, <4>3
    <3>2. CASE AskForPassword(c)
      <4>1. c[Len(c)] = "ask>"
        BY <1>2, <3>2, EndsWithTwo DEF AskForPassword, Piece
      <4>2. pty[n] = "ask>" /\ n \in 1..Len(pty)
        BY <1>2, <4>1
      <4>3. PICK j \in n + 1..Len(pty) : pty[j] = "nl"
        BY <4>2 DEF IInv, NewlineComes
      <4>4. j \in 1..Len(pty) /\ j > n
        BY <1>2, <4>3
      <4> QED
        BY <1>7, <4>3, <4>4
    <3>3. CASE PassOutput(c)
      BY <3>3 DEF PassOutput
    <3> QED
      BY <1>4, <3>1, <3>2, <3>3
  <2> QED
    BY <1>1, <2>1, <2>2 DEF NewlineComes
<1> QED
  BY <1>5, <1>6, <1>8 DEF IInv

-----------------------------------------------------------------------------
THEOREM Invariance == Spec => []IInv
<1>1. IInv /\ UNCHANGED vars => IInv'
  BY DEF IInv, Types, PromptComes, NewlineComes, vars, session, shell
<1>2. IInv /\ [Next]_vars => IInv'
  BY <1>1, KeyboardStep, ShellStep, OutputStep DEF Next
<1> QED
  BY InitInv, <1>2, PTL DEF Spec

(* Output is suppressed no longer than a program waits for a password      *)
(* (terminal_session.py:563-569).                                          *)
THEOREM SuppressionStops == Spec => []SuppressionEnds
<1>1. IInv => SuppressionEnds
  BY DEF IInv, Types, NewlineComes, SuppressionEnds
<1> QED
  BY <1>1, Invariance, PTL

-----------------------------------------------------------------------------
(* The alternate screen.                                                   *)

Opening == {"enter<", "leave<"}
Entered(s) == Occurrences(s, "enter<", "enter>")
Left(s) == Occurrences(s, "leave<", "leave>")

(* What the detector will believe when it has read n pieces more.          *)
Believed(n) == depth + Entered(SubSeq(pty, 1, n)) - Left(SubSeq(pty, 1, n))

(* If no sequence that leaves the screen has been cut, the detector will   *)
(* not believe more than there is, nor will it from any point on.          *)
Net(s) == Entered(s) - Left(s)

NoDeeper ==
    "leave<" \notin cut =>
        /\ depth + Net(pty) <= (IF altScreen THEN 1 ELSE 0)
        /\ \A n \in 0..Len(pty) :
              Net(pty) - Net(SubSeq(pty, 1, n)) <= (IF altScreen THEN 1 ELSE 0)

(* No sequence of the alternate screen is printed in part.  If none has    *)
(* been cut by a read either, what is to be read enters and leaves the     *)
(* screen in turns, so that the count is never clamped, and ends as the    *)
(* program has left the screen.                                            *)
ScreenFollows ==
    /\ pty # <<>> => pty[Len(pty)] \notin Opening
    /\ depth \in Nat
    /\ cut = {} => /\ \A n \in 0..Len(pty) : Believed(n) \in {0, 1}
                   /\ Believed(Len(pty)) = (IF altScreen THEN 1 ELSE 0)
    /\ NoDeeper

Places(s, first, second) ==
    {i \in 1..Len(s) - 1 : s[i] = first /\ s[i + 1] = second}

LEMMA OccurrencesType ==
    ASSUME NEW s \in Seq(Piece), NEW first, NEW second
    PROVE  /\ IsFiniteSet(Places(s, first, second))
           /\ Occurrences(s, first, second) = Cardinality(Places(s, first, second))
           /\ Occurrences(s, first, second) \in Nat
<1>1. 1 \in Int /\ Len(s) - 1 \in Int
  BY LenProperties
<1>2. IsFiniteSet(1..Len(s) - 1)
  BY <1>1, FS_Interval
<1>3. IsFiniteSet(Places(s, first, second))
  BY <1>2, FS_Subset DEF Places
<1> QED BY <1>3, FS_CardinalityType DEF Occurrences, Places

LEMMA NoOccurrence ==
    ASSUME NEW s \in Seq(Piece), NEW first, NEW second,
           \A i \in 1..Len(s) - 1 : s[i] # first \/ s[i + 1] # second
    PROVE  Occurrences(s, first, second) = 0
<1>1. Places(s, first, second) = {}
  BY DEF Places
<1> QED BY <1>1, OccurrencesType, FS_EmptySet

Straddles(s, t, first, second) ==
    s # <<>> /\ t # <<>> /\ s[Len(s)] = first /\ t[1] = second

(* A sequence counts what its two parts count, and what straddles them.    *)
LEMMA OccurrencesCut ==
    ASSUME NEW s \in Seq(Piece), NEW t \in Seq(Piece), NEW first, NEW second
    PROVE  Occurrences(s \o t, first, second)
             = Occurrences(s, first, second) + Occurrences(t, first, second)
                 + (IF Straddles(s, t, first, second) THEN 1 ELSE 0)
<1> DEFINE c == s \o t
           A == Places(s, first, second)
           B == Places(t, first, second)
           C == Places(c, first, second)
           m == Len(s)
           Shifted == {m + i : i \in B}
           f == [i \in B |-> m + i]
           X == IF Straddles(s, t, first, second) THEN {m} ELSE {}
<1>1. /\ c \in Seq(Piece) /\ Len(c) = m + Len(t) /\ m \in Nat /\ Len(t) \in Nat
      /\ \A i \in 1..m : c[i] = s[i]
      /\ \A i \in 1..Len(t) : c[m + i] = t[i]
  BY ConcatProperties, LenProperties
<1>2. /\ X = {m} <=> m \in X
      /\ m \in X <=> m # 0 /\ Len(t) # 0 /\ s[m] = first /\ t[1] = second
      /\ \A i \in X : i = m
  BY EmptySeq DEF Straddles
<1>card. IsFiniteSet(X) /\ Cardinality(X) = (IF Straddles(s, t, first, second) THEN 1 ELSE 0)
  BY FS_EmptySet, FS_Singleton
<1> HIDE DEF X
<1>3. ASSUME NEW i \in C PROVE i \in (A \cup Shifted) \cup X
  <2>1. i \in 1..Len(c) - 1 /\ c[i] = first /\ c[i + 1] = second
    BY DEF Places
  <2>2. CASE i <= m - 1
    <3>1. i \in 1..m - 1 /\ i \in 1..m /\ i + 1 \in 1..m
      BY <1>1, <2>1, <2>2
    <3> QED BY <3>1, <1>1, <2>1 DEF Places
  <2>3. CASE i = m
    <3>1. m \in 1..m /\ m # 0 /\ Len(t) # 0 /\ 1 \in 1..Len(t)
      BY <1>1, <2>1, <2>3
    <3>2. s[m] = first /\ t[1] = second
      BY <3>1, <1>1, <2>1, <2>3
    <3> QED BY <3>1, <3>2, <1>2, <2>3
  <2>4. CASE i > m
    <3> DEFINE j == i - m
    <3>1. j \in 1..Len(t) - 1 /\ j \in 1..Len(t) /\ j + 1 \in 1..Len(t) /\ i = m + j
          /\ i + 1 = m + (j + 1)
      BY <1>1, <2>1, <2>4
    <3> HIDE DEF j
    <3>2. c[i] = t[j] /\ c[i + 1] = t[j + 1]
      BY <3>1, <1>1
    <3>3. j \in B
      BY <3>1, <3>2, <2>1 DEF Places
    <3> QED BY <3>1, <3>3
  <2> QED BY <1>1, <2>1, <2>2, <2>3, <2>4
<1>4. ASSUME NEW i \in A PROVE i \in C /\ i < m
  <2>1. i \in 1..m - 1 /\ i \in 1..m /\ i + 1 \in 1..m /\ i \in 1..Len(c) - 1
    BY <1>1 DEF Places
  <2>2. s[i] = first /\ s[i + 1] = second
    BY DEF Places
  <2> QED BY <2>1, <2>2, <1>1 DEF Places
<1>5. ASSUME NEW j \in B PROVE m + j \in C /\ m + j > m
  <2>1. /\ j \in 1..Len(t) /\ j + 1 \in 1..Len(t) /\ m + j \in 1..Len(c) - 1
        /\ (m + j) + 1 = m + (j + 1) /\ m + j > m
    BY <1>1 DEF Places
  <2>2. t[j] = first /\ t[j + 1] = second
    BY DEF Places
  <2>3. c[m + j] = first /\ c[(m + j) + 1] = second
    BY <2>1, <2>2, <1>1
  <2> QED BY <2>1, <2>3 DEF Places
<1>x. ASSUME NEW i \in X PROVE i \in C /\ i = m
  <2>1. i = m /\ m # 0 /\ Len(t) # 0 /\ s[m] = first /\ t[1] = second
    BY <1>2
  <2>2. m \in 1..m /\ 1 \in 1..Len(t) /\ m \in 1..Len(c) - 1
    BY <1>1, <2>1
  <2>3. c[m] = first /\ c[m + 1] = second
    BY <1>1, <2>1, <2>2
  <2> QED BY <2>1, <2>2, <2>3 DEF Places
<1>6. C = (A \cup Shifted) \cup X
  BY <1>3, <1>4, <1>5, <1>x
<1>y. (A \cup Shifted) \cap X = {}
  <2>1. ASSUME NEW i \in A PROVE i \notin X
    <3>1. i < m /\ i \in Nat /\ m \in Nat
      BY <1>1, <1>4 DEF Places
    <3> QED BY <3>1, <1>2
  <2>2. ASSUME NEW j \in B PROVE m + j \notin X
    <3>1. m + j > m /\ j \in Nat /\ m \in Nat
      BY <1>1, <1>5 DEF Places
    <3> QED BY <3>1, <1>2
  <2> QED BY <2>1, <2>2
<1>7. A \cap Shifted = {}
  <2>1. ASSUME NEW i \in A, NEW j \in B PROVE i # m + j
    <3>1. i \in Nat /\ i < m /\ m + j \in Nat /\ m + j > m
      BY <1>1, <1>4, <1>5 DEF Places
    <3> QED BY <3>1, <1>1
  <2> QED BY <2>1
<1>8. /\ IsFiniteSet(A) /\ IsFiniteSet(B) /\ Cardinality(A) \in Nat /\ Cardinality(B) \in Nat
      /\ Occurrences(s, first, second) = Cardinality(A)
      /\ Occurrences(t, first, second) = Cardinality(B)
  BY OccurrencesType
<1>9. Occurrences(c, first, second) = Cardinality(C)
  BY <1>1, OccurrencesType
<1>10. IsFiniteSet(Shifted) /\ Cardinality(Shifted) = Cardinality(B)
  <2>1. B \subseteq Nat
    BY DEF Places
  <2>2. f \in [B -> Shifted] /\ \A i \in B : f[i] = m + i
    OBVIOUS
  <2>0. m \in Nat
    BY <1>1
  <2> HIDE DEF B, f, m
  <2>3. \A i, j \in B : f[i] = f[j] => i = j
    <3> SUFFICES ASSUME NEW i \in B, NEW j \in B, f[i] = f[j] PROVE i = j
      OBVIOUS
    <3>1. i \in Nat /\ j \in Nat
      BY <2>1
    <3>2. m + i = m + j
      BY <2>2
    <3> QED BY <2>0, <3>1, <3>2
  <2>4. \A k \in Shifted : \E i \in B : f[i] = k
    BY <2>2
  <2>5. f \in Bijection(B, Shifted)
    BY <2>2, <2>3, <2>4 DEF Bijection, Injection, Surjection, IsInjective
  <2>6. ExistsBijection(B, Shifted)
    BY <2>5 DEF ExistsBijection
  <2> QED BY <2>6, <1>8, FS_Bijection
<1> HIDE DEF A, B, C, Shifted
<1>11. Cardinality(A \cup Shifted) = Cardinality(A) + Cardinality(Shifted)
  <2>1. Cardinality(A \cup Shifted)
          = Cardinality(A) + Cardinality(Shifted) - Cardinality(A \cap Shifted)
    BY <1>8, <1>10, FS_Union
  <2>2. Cardinality(A \cap Shifted) = 0
    BY <1>7, FS_EmptySet
  <2> QED BY <2>1, <2>2, <1>8, <1>10
<1>12. /\ IsFiniteSet(A \cup Shifted)
       /\ Cardinality(C) = Cardinality(A \cup Shifted) + Cardinality(X)
  <2>1. IsFiniteSet(A \cup Shifted)
    BY <1>8, <1>10, FS_Union
  <2>2. Cardinality(C) = Cardinality(A \cup Shifted) + Cardinality(X)
                           - Cardinality((A \cup Shifted) \cap X)
    BY <2>1, <1>6, <1>card, FS_Union
  <2>3. Cardinality((A \cup Shifted) \cap X) = 0
    BY <1>y, FS_EmptySet
  <2>4. Cardinality(A \cup Shifted) \in Nat /\ Cardinality(X) \in Nat
    BY <2>1, <1>card, FS_CardinalityType
  <2> QED BY <2>1, <2>2, <2>3, <2>4
<1>13. Cardinality(C) = Cardinality(A) + Cardinality(B) + Cardinality(X)
  BY <1>8, <1>10, <1>11, <1>12
<1> QED BY <1>8, <1>9, <1>13, <1>card

LEMMA OccurrencesConcat ==
    ASSUME NEW s \in Seq(Piece), NEW t \in Seq(Piece), NEW first, NEW second,
           s # <<>> => s[Len(s)] # first
    PROVE  Occurrences(s \o t, first, second)
             = Occurrences(s, first, second) + Occurrences(t, first, second)
<1>1. ~Straddles(s, t, first, second)
  BY DEF Straddles
<1>2. Occurrences(s, first, second) \in Nat /\ Occurrences(t, first, second) \in Nat
  BY OccurrencesType
<1>3. Occurrences(s \o t, first, second)
        = Occurrences(s, first, second) + Occurrences(t, first, second) + 0
  BY <1>1, OccurrencesCut
<1> QED BY <1>2, <1>3

LEMMA ConcatOf ==
    ASSUME NEW s \in Seq(Piece), NEW t \in Seq(Piece)
    PROVE  /\ s \o t \in Seq(Piece) /\ Len(s \o t) = Len(s) + Len(t)
           /\ Len(s) \in Nat /\ Len(t) \in Nat
           /\ \A i \in 1..Len(s) : (s \o t)[i] = s[i]
           /\ \A i \in 1..Len(t) : (s \o t)[Len(s) + i] = t[i]
  BY ConcatProperties, LenProperties

LEMMA CountsConcat ==
    ASSUME NEW s \in Seq(Piece), NEW t \in Seq(Piece), s # <<>> => s[Len(s)] \notin Opening
    PROVE  Entered(s \o t) = Entered(s) + Entered(t) /\ Left(s \o t) = Left(s) + Left(t)
<1>1. s # <<>> => s[Len(s)] # "enter<" /\ s[Len(s)] # "leave<"
  BY DEF Opening
<1> QED BY <1>1, OccurrencesConcat DEF Entered, Left

LEMMA PairCounts ==
    ASSUME NEW s \in Seq(Piece), Len(s) = 2, NEW first, NEW second
    PROVE  Occurrences(s, first, second) = (IF s[1] = first /\ s[2] = second THEN 1 ELSE 0)
<1>1. 1..Len(s) - 1 = {1} /\ 1 + 1 = 2
  OBVIOUS
<1>2. CASE s[1] = first /\ s[2] = second
  <2>1. Places(s, first, second) = {1}
    BY <1>1, <1>2 DEF Places
  <2>2. Occurrences(s, first, second) = Cardinality({1})
    BY <2>1, OccurrencesType
  <2>3. Cardinality({1}) = 1
    BY FS_Singleton
  <2> QED BY <1>2, <2>2, <2>3
<1>3. CASE ~(s[1] = first /\ s[2] = second)
  <2>1. \A i \in 1..Len(s) - 1 : s[i] # first \/ s[i + 1] # second
    BY <1>1, <1>3
  <2>2. Occurrences(s, first, second) = 0
    BY <2>1, NoOccurrence
  <2> QED BY <1>3, <2>2
<1> QED BY <1>2, <1>3

LEMMA FunctionIsSequence ==
    ASSUME NEW T, NEW n \in Nat, NEW f \in [1..n -> T]
    PROVE  f \in Seq(T)
<1>1. f \in UNION {[1..m -> T] : m \in Nat}
  BY Zenon
<1> QED BY <1>1, SeqDef, Zenon

Reassociate(s, t, u) == (s \o t) \o u = s \o (t \o u)

LEMMA Reassociated ==
    ASSUME NEW T, NEW s \in Seq(T), NEW t \in Seq(T), NEW u \in Seq(T)
    PROVE  Reassociate(s, t, u)
  BY ConcatAssociative DEF Reassociate

LEMMA PrefixOf ==
    ASSUME NEW T, NEW s \in Seq(T), NEW n \in 0..Len(s)
    PROVE  /\ SubSeq(s, 1, n) \in Seq(T) /\ Len(SubSeq(s, 1, n)) = n
           /\ \A i \in 1..n : SubSeq(s, 1, n)[i] = s[i]
<1>1. Len(s) \in Nat /\ n \in Int /\ 1 \in Int /\ \A i \in 1..n : s[i] \in T
  BY LenProperties, ElementOfSeq
<1>2. /\ SubSeq(s, 1, n) \in Seq(T)
      /\ Len(SubSeq(s, 1, n)) = IF 1 <= n THEN n - 1 + 1 ELSE 0
      /\ \A i \in 1..n - 1 + 1 : SubSeq(s, 1, n)[i] = s[1 + i - 1]
  BY <1>1, SubSeqProperties
<1> QED BY <1>1, <1>2

LEMMA PrefixesConcat ==
    ASSUME NEW s \in Seq(Piece), NEW t \in Seq(Piece)
    PROVE  /\ \A n \in 0..Len(s) : SubSeq(s \o t, 1, n) = SubSeq(s, 1, n)
           /\ \A n \in 0..Len(t) : SubSeq(s \o t, 1, Len(s) + n) = s \o SubSeq(t, 1, n)
<1>1. /\ s \o t \in Seq(Piece) /\ Len(s \o t) = Len(s) + Len(t)
      /\ Len(s) \in Nat /\ Len(t) \in Nat
      /\ \A i \in 1..Len(s) : (s \o t)[i] = s[i]
      /\ \A i \in 1..Len(t) : (s \o t)[Len(s) + i] = t[i]
  BY ConcatProperties, LenProperties
<1>2. ASSUME NEW n \in 0..Len(s) PROVE SubSeq(s \o t, 1, n) = SubSeq(s, 1, n)
  <2>1. /\ SubSeq(s \o t, 1, n) \in Seq(Piece) /\ Len(SubSeq(s \o t, 1, n)) = n
        /\ \A i \in 1..n : SubSeq(s \o t, 1, n)[i] = (s \o t)[i]
    BY <1>1, PrefixOf
  <2>2. /\ SubSeq(s, 1, n) \in Seq(Piece) /\ Len(SubSeq(s, 1, n)) = n
        /\ \A i \in 1..n : SubSeq(s, 1, n)[i] = s[i]
    BY PrefixOf
  <2>3. \A i \in 1..n : SubSeq(s \o t, 1, n)[i] = SubSeq(s, 1, n)[i]
    BY <1>1, <2>1, <2>2
  <2> QED BY <2>1, <2>2, <2>3, SeqEqual
<1>3. ASSUME NEW n \in 0..Len(t) PROVE SubSeq(s \o t, 1, Len(s) + n) = s \o SubSeq(t, 1, n)
  <2> DEFINE m == Len(s) + n
             p == SubSeq(t, 1, n)
  <2>1. m \in 0..Len(s \o t)
    BY <1>1
  <2>2. /\ p \in Seq(Piece) /\ Len(p) = n /\ \A i \in 1..n : p[i] = t[i]
    BY PrefixOf
  <2> HIDE DEF m, p
  <2>3. /\ SubSeq(s \o t, 1, m) \in Seq(Piece) /\ Len(SubSeq(s \o t, 1, m)) = m
        /\ \A i \in 1..m : SubSeq(s \o t, 1, m)[i] = (s \o t)[i]
    BY <1>1, <2>1, PrefixOf
  <2>4. /\ s \o p \in Seq(Piece) /\ Len(s \o p) = m
        /\ \A i \in 1..m : (s \o p)[i] = IF i <= Len(s) THEN s[i] ELSE p[i - Len(s)]
    BY <2>2, ConcatProperties DEF m
  <2>5. ASSUME NEW i \in 1..m PROVE (s \o t)[i] = (s \o p)[i]
    <3>1. CASE i <= Len(s)
      BY <1>1, <2>4, <3>1
    <3>2. CASE ~(i <= Len(s))
      <4> DEFINE j == i - Len(s)
      <4>1. j \in 1..n /\ j \in 1..Len(t) /\ i = Len(s) + j
        BY <1>1, <3>2 DEF m
      <4> HIDE DEF j
      <4>2. (s \o t)[i] = t[j] /\ (s \o p)[i] = p[j]
        BY <1>1, <2>4, <3>2, <4>1 DEF j
      <4> QED BY <4>1, <4>2, <2>2
    <3> QED BY <3>1, <3>2
  <2>6. SubSeq(s \o t, 1, m) = s \o p
    BY <2>3, <2>4, <2>5, SeqEqual
  <2> QED BY <2>6 DEF m, p
<1> QED BY <1>2, <1>3

LEMMA Regrouped ==
    ASSUME NEW d \in Nat, NEW e \in Nat, NEW f \in Nat, NEW l \in Nat, NEW m \in Nat
    PROVE  d + (e + f) - (l + m) = (d + e - l) + f - m
  OBVIOUS

(* The arithmetic of the next lemmas.                                      *)
LEMMA DeeperBefore ==
    ASSUME NEW x \in Int, NEW y \in Int, NEW z \in Int, NEW a \in Int, NEW b \in Int,
           a + y = b, x - z <= a
    PROVE  (x + y) - z <= b
  OBVIOUS

LEMMA DeeperAfter ==
    ASSUME NEW x \in Int, NEW y \in Int, NEW p \in Int, NEW a \in Int, NEW b \in Int,
           a + y = b, a + p >= 0
    PROVE  (x + y) - (x + p) <= b
  OBVIOUS

LEMMA DeeperClamped ==
    ASSUME NEW d \in Nat, NEW c \in Int, NEW r \in Int, NEW s \in {0, 1}, NEW a \in {0, 1},
           (c + r + s) - c <= a, d + (c + r + s) <= a
    PROVE  (IF d + c >= 0 THEN d + c ELSE 0) + r <= a
  OBVIOUS

LEMMA DeeperShifted ==
    ASSUME NEW c \in Int, NEW r \in Int, NEW s \in {0, 1}, NEW p \in Int, NEW a \in {0, 1},
           (c + r + s) - (c + p + s) <= a
    PROVE  r - p <= a
  OBVIOUS

LEMMA NetsAdd ==
    ASSUME NEW e \in Nat, NEW f \in Nat, NEW l \in Nat, NEW m \in Nat, NEW s \in {0, 1}
    PROVE  (e + f + s) - (l + m) = (e - l) + (f - m) + s
  OBVIOUS

LEMMA NetOf ==
    ASSUME NEW s \in Seq(Piece)
    PROVE  /\ Entered(s) \in Nat /\ Left(s) \in Nat /\ Net(s) \in Int
           /\ Net(s) = Entered(s) - Left(s)
<1>1. Entered(s) \in Nat /\ Left(s) \in Nat
  BY OccurrencesType DEF Entered, Left
<1>2. Net(s) = Entered(s) - Left(s)
  BY DEF Net
<1> QED BY <1>1, <1>2

(* What is printed goes no deeper than the screen it leaves.               *)
LEMMA NoDeeperPrinted ==
    ASSUME Types, ScreenFollows, NEW t \in Seq(Piece),
           pty' = pty \o t, UNCHANGED <<depth, cut>>,
           NEW a \in {0, 1}, a = (IF altScreen THEN 1 ELSE 0),
           NEW b \in {0, 1}, b = (IF altScreen' THEN 1 ELSE 0),
           \A k \in 0..Len(t) : a + Entered(SubSeq(t, 1, k)) - Left(SubSeq(t, 1, k)) \in {0, 1},
           a + Entered(t) - Left(t) = b
    PROVE  NoDeeper'
<1>output. pty \in Seq(Piece)
  BY DEF Types
<1>1. pty' \in Seq(Piece) /\ Len(pty') = Len(pty) + Len(t) /\ Len(pty) \in Nat /\ Len(t) \in Nat
  BY <1>output, ConcatOf
<1>counts. \A s \in Seq(Piece) : Entered(s) \in Nat /\ Left(s) \in Nat
  BY OccurrencesType DEF Entered, Left
<1>nets. \A s \in Seq(Piece) : Net(s) \in Int
  BY <1>counts DEF Net
<1>2. ASSUME NEW s \in Seq(Piece)
      PROVE  Net(pty \o s) = Net(pty) + Net(s)
  <2>1. Entered(pty \o s) = Entered(pty) + Entered(s) /\ Left(pty \o s) = Left(pty) + Left(s)
    BY <1>output, CountsConcat DEF ScreenFollows
  <2> QED BY <2>1, <1>output, <1>counts DEF Net
<1>3. a + Net(t) = b
  BY <1>counts DEF Net
<1>4. ASSUME "leave<" \notin cut'
      PROVE  /\ depth' + Net(pty') <= b
             /\ \A n \in 0..Len(pty') : Net(pty') - Net(SubSeq(pty', 1, n)) <= b
  <2>1. /\ depth + Net(pty) <= a
        /\ \A n \in 0..Len(pty) : Net(pty) - Net(SubSeq(pty, 1, n)) <= a
    BY <1>4 DEF ScreenFollows, NoDeeper
  <2>2. Net(pty') = Net(pty) + Net(t)
    BY <1>2
  <2>3. Net(pty) \in Int /\ Net(t) \in Int /\ depth \in Nat /\ depth' = depth
    BY <1>output, <1>nets DEF ScreenFollows
  <2>4. depth' + Net(pty') <= b
    BY <1>3, <2>1, <2>2, <2>3
  <2>5. ASSUME NEW n \in 0..Len(pty')
        PROVE  Net(pty') - Net(SubSeq(pty', 1, n)) <= b
    <3>1. CASE n <= Len(pty)
      <4>1. n \in 0..Len(pty)
        BY <1>1, <3>1
      <4>2. SubSeq(pty', 1, n) = SubSeq(pty, 1, n)
        BY <1>output, <4>1, PrefixesConcat
      <4>3. Net(SubSeq(pty, 1, n)) \in Int
        BY <1>output, <1>nets, <4>1, PrefixOf
      <4>4. Net(pty) - Net(SubSeq(pty, 1, n)) <= a
        BY <2>1, <4>1
      <4> DEFINE x == Net(pty)
                 y == Net(t)
                 z == Net(SubSeq(pty, 1, n))
      <4>5. x \in Int /\ y \in Int /\ z \in Int /\ a + y = b /\ x - z <= a
        BY <1>3, <2>3, <4>3, <4>4
      <4>6. Net(pty') - Net(SubSeq(pty', 1, n)) = (x + y) - z
        BY <2>2, <4>2
      <4> HIDE DEF x, y, z
      <4>7. (x + y) - z <= b
        BY <4>5, DeeperBefore
      <4> QED BY <4>6, <4>7
    <3>2. CASE ~(n <= Len(pty))
      <4> DEFINE k == n - Len(pty)
                 p == SubSeq(t, 1, k)
      <4>1. k \in 0..Len(t) /\ n = Len(pty) + k
        BY <1>1, <3>2
      <4> HIDE DEF k
      <4>2. SubSeq(pty', 1, n) = pty \o p /\ p \in Seq(Piece)
        <5>1. SubSeq(pty \o t, 1, Len(pty) + k) = pty \o p
          BY <1>output, <4>1, PrefixesConcat
        <5>2. p \in Seq(Piece)
          BY <4>1, PrefixOf
        <5> QED BY <4>1, <5>1, <5>2
      <4>3. a + Entered(p) - Left(p) \in {0, 1}
        BY <4>1
      <4> HIDE DEF p
      <4>4. a + Net(p) >= 0 /\ Net(p) \in Int
        <5>1. Entered(p) \in Nat /\ Left(p) \in Nat /\ Net(p) = Entered(p) - Left(p)
          BY <4>2, NetOf
        <5> QED BY <4>3, <5>1
      <4>5. Net(SubSeq(pty', 1, n)) = Net(pty) + Net(p)
        BY <1>2, <4>2
      <4> DEFINE x == Net(pty)
                 y == Net(t)
                 z == Net(p)
      <4>6. x \in Int /\ y \in Int /\ z \in Int /\ a + y = b /\ a + z >= 0
        BY <1>3, <2>3, <4>4
      <4>7. Net(pty') - Net(SubSeq(pty', 1, n)) = (x + y) - (x + z)
        BY <2>2, <4>5
      <4> HIDE DEF x, y, z
      <4>8. (x + y) - (x + z) <= b
        BY <4>6, DeeperAfter
      <4> QED BY <4>7, <4>8
    <3> QED BY <3>1, <3>2
  <2> QED BY <2>4, <2>5
<1> QED BY <1>4 DEF NoDeeper

(* What is printed after a whole sequence counts by itself.                *)
LEMMA ScreenPrinted ==
    ASSUME Types, ScreenFollows, NEW t \in Seq(Piece), t # <<>>, t[Len(t)] \notin Opening,
           pty' = pty \o t, UNCHANGED <<depth, cut>>,
           NEW a \in {0, 1}, a = (IF altScreen THEN 1 ELSE 0),
           \A k \in 0..Len(t) : a + Entered(SubSeq(t, 1, k)) - Left(SubSeq(t, 1, k)) \in {0, 1},
           a + Entered(t) - Left(t) = (IF altScreen' THEN 1 ELSE 0)
    PROVE  ScreenFollows'
<1>output. pty \in Seq(Piece)
  BY DEF Types
<1>1. pty \in Seq(Piece) /\ pty' \in Seq(Piece) /\ Len(pty') = Len(pty) + Len(t)
      /\ Len(pty) \in Nat /\ Len(t) \in Nat
  BY <1>output, ConcatOf
<1>2. pty' # <<>> /\ pty'[Len(pty')] \notin Opening
  BY LastOfAppended DEF Types
<1>counts. \A s \in Seq(Piece) : Entered(s) \in Nat /\ Left(s) \in Nat
  BY OccurrencesType DEF Entered, Left
<1>3. ASSUME NEW s \in Seq(Piece)
      PROVE  /\ Entered(pty \o s) = Entered(pty) + Entered(s)
             /\ Left(pty \o s) = Left(pty) + Left(s)
  BY <1>1, CountsConcat DEF ScreenFollows
<1>4. SubSeq(pty, 1, Len(pty)) = pty /\ SubSeq(pty', 1, Len(pty')) = pty'
  BY <1>1, SubSeqFull
<1>5. ASSUME cut = {}
      PROVE  /\ \A n \in 0..Len(pty') :
                   depth + Entered(SubSeq(pty', 1, n)) - Left(SubSeq(pty', 1, n)) \in {0, 1}
             /\ depth + Entered(pty') - Left(pty') = (IF altScreen' THEN 1 ELSE 0)
  <2>1. /\ \A n \in 0..Len(pty) : Believed(n) \in {0, 1}
        /\ depth + Entered(pty) - Left(pty) = a
    BY <1>4, <1>5 DEF ScreenFollows, Believed
  <2>2. ASSUME NEW n \in 0..Len(pty')
        PROVE  depth + Entered(SubSeq(pty', 1, n)) - Left(SubSeq(pty', 1, n)) \in {0, 1}
    <3>1. CASE n <= Len(pty)
      <4>1. n \in 0..Len(pty)
        BY <1>1, <3>1
      <4>2. SubSeq(pty', 1, n) = SubSeq(pty, 1, n)
        BY <1>1, <4>1, PrefixesConcat
      <4>3. Believed(n) \in {0, 1}
        BY <2>1, <4>1
      <4> QED BY <4>2, <4>3 DEF Believed
    <3>2. CASE ~(n <= Len(pty))
      <4> DEFINE k == n - Len(pty)
                 p == SubSeq(t, 1, k)
      <4>1. k \in 0..Len(t) /\ n = Len(pty) + k
        BY <1>1, <3>2
      <4> HIDE DEF k
      <4>2. SubSeq(pty', 1, n) = pty \o p /\ p \in Seq(Piece)
        <5>1. SubSeq(pty \o t, 1, Len(pty) + k) = pty \o p
          BY <1>output, <4>1, PrefixesConcat
        <5>2. p \in Seq(Piece)
          BY <4>1, PrefixOf
        <5> QED BY <4>1, <5>1, <5>2
      <4>3. a + Entered(p) - Left(p) \in {0, 1}
        BY <4>1
      <4> HIDE DEF p
      <4>4. /\ Entered(pty \o p) = Entered(pty) + Entered(p)
            /\ Left(pty \o p) = Left(pty) + Left(p)
        BY <4>2, <1>3
      <4>5. /\ depth \in Nat /\ Entered(p) \in Nat /\ Left(p) \in Nat
            /\ Entered(pty) \in Nat /\ Left(pty) \in Nat
        BY <1>1, <1>counts, <4>2 DEF ScreenFollows
      <4>6. depth + Entered(pty) - Left(pty) = a
        BY <2>1
      <4>7. depth + Entered(pty \o p) - Left(pty \o p)
              = (depth + Entered(pty) - Left(pty)) + Entered(p) - Left(p)
        BY <4>4, <4>5, Regrouped
      <4> QED BY <4>2, <4>3, <4>6, <4>7
    <3> QED BY <3>1, <3>2
  <2>3. depth + Entered(pty') - Left(pty') = (IF altScreen' THEN 1 ELSE 0)
    <3>1. /\ depth \in Nat /\ Entered(t) \in Nat /\ Left(t) \in Nat
          /\ Entered(pty) \in Nat /\ Left(pty) \in Nat
      BY <1>1, <1>counts DEF ScreenFollows
    <3>2. Entered(pty') = Entered(pty) + Entered(t) /\ Left(pty') = Left(pty) + Left(t)
      BY <1>3
    <3>3. a + Entered(t) - Left(t) = (IF altScreen' THEN 1 ELSE 0)
      OBVIOUS
    <3> QED BY <2>1, <3>1, <3>2, <3>3
  <2> QED BY <2>2, <2>3
<1>6. NoDeeper'
  <2> DEFINE b == IF altScreen' THEN 1 ELSE 0
  <2>1. b \in {0, 1} /\ b = (IF altScreen' THEN 1 ELSE 0) /\ a + Entered(t) - Left(t) = b
    OBVIOUS
  <2> HIDE DEF b
  <2> QED BY <2>1, NoDeeperPrinted
<1>7. depth' \in Nat
  BY DEF ScreenFollows
<1> QED BY <1>2, <1>4, <1>5, <1>6, <1>7 DEF ScreenFollows, Believed

(* Text, newlines, prompts and questions do not count.                     *)
LEMMA PlainCounts ==
    ASSUME NEW t \in Seq(Piece), \A i \in 1..Len(t) : t[i] \notin Opening
    PROVE  /\ Entered(t) = 0 /\ Left(t) = 0
           /\ \A k \in 0..Len(t) : Entered(SubSeq(t, 1, k)) = 0 /\ Left(SubSeq(t, 1, k)) = 0
<1>1. ASSUME NEW s \in Seq(Piece), \A i \in 1..Len(s) : s[i] \notin Opening
      PROVE  Entered(s) = 0 /\ Left(s) = 0
  <2>1. Len(s) \in Nat
    BY LenProperties
  <2>2. \A i \in 1..Len(s) - 1 : s[i] # "enter<" /\ s[i] # "leave<"
    BY <1>1, <2>1 DEF Opening
  <2> QED BY <2>2, NoOccurrence DEF Entered, Left
<1>2. ASSUME NEW k \in 0..Len(t)
      PROVE  Entered(SubSeq(t, 1, k)) = 0 /\ Left(SubSeq(t, 1, k)) = 0
  <2>1. /\ SubSeq(t, 1, k) \in Seq(Piece) /\ Len(SubSeq(t, 1, k)) = k
        /\ \A i \in 1..k : SubSeq(t, 1, k)[i] = t[i] /\ i \in 1..Len(t)
    BY PrefixOf, LenProperties
  <2> QED BY <1>1, <2>1
<1> QED BY <1>1, <1>2

(* A switch of the screen counts when both its halves are there, whatever  *)
(* plain output follows it.                                                *)
LEMMA SwitchCounts ==
    ASSUME NEW enters \in BOOLEAN,
           NEW t \in Seq(Piece), \A i \in 1..Len(t) : t[i] \notin Opening,
           NEW w \in Seq(Piece), Len(w) = 2,
           w[1] = (IF enters THEN "enter<" ELSE "leave<"),
           w[2] = (IF enters THEN "enter>" ELSE "leave>")
    PROVE  /\ w \o t \in Seq(Piece) /\ w \o t # <<>> /\ (w \o t)[Len(w \o t)] \notin Opening
           /\ Entered(w \o t) = (IF enters THEN 1 ELSE 0)
           /\ Left(w \o t) = (IF enters THEN 0 ELSE 1)
           /\ \A k \in 0..Len(w \o t) :
                 \/ Entered(SubSeq(w \o t, 1, k)) = 0 /\ Left(SubSeq(w \o t, 1, k)) = 0
                 \/ /\ Entered(SubSeq(w \o t, 1, k)) = (IF enters THEN 1 ELSE 0)
                    /\ Left(SubSeq(w \o t, 1, k)) = (IF enters THEN 0 ELSE 1)
<1>1. Len(w) = 2 /\ w # <<>> /\ w[2] \notin Opening
  BY EmptySeq DEF Opening
<1>2. /\ w \o t \in Seq(Piece) /\ Len(w \o t) = 2 + Len(t) /\ Len(t) \in Nat
      /\ (w \o t)[2] = w[2]
      /\ \A i \in 1..Len(t) : (w \o t)[2 + i] = t[i]
  <2>1. /\ w \o t \in Seq(Piece) /\ Len(w \o t) = Len(w) + Len(t) /\ Len(t) \in Nat
        /\ \A i \in 1..Len(w) : (w \o t)[i] = w[i]
        /\ \A i \in 1..Len(t) : (w \o t)[Len(w) + i] = t[i]
    BY ConcatOf
  <2> QED BY <2>1, <1>1
<1>3. w \o t # <<>> /\ (w \o t)[Len(w \o t)] \notin Opening
  <2>1. w \o t # <<>>
    BY <1>2, EmptySeq
  <2>2. CASE Len(t) = 0
    BY <1>1, <1>2, <2>2
  <2>3. CASE Len(t) > 0
    <3>1. Len(t) \in 1..Len(t)
      BY <1>2, <2>3
    <3> QED BY <1>2, <3>1
  <2> QED BY <1>2, <2>1, <2>2, <2>3
<1>4. Entered(w) = (IF enters THEN 1 ELSE 0) /\ Left(w) = (IF enters THEN 0 ELSE 1)
  <2>1. /\ Entered(w) = (IF w[1] = "enter<" /\ w[2] = "enter>" THEN 1 ELSE 0)
        /\ Left(w) = (IF w[1] = "leave<" /\ w[2] = "leave>" THEN 1 ELSE 0)
    BY PairCounts DEF Entered, Left
  <2> QED BY <2>1
<1>5. ASSUME NEW s \in Seq(Piece), Entered(s) = 0, Left(s) = 0
      PROVE  Entered(w \o s) = Entered(w) /\ Left(w \o s) = Left(w)
  <2>1. w # <<>> => w[Len(w)] \notin Opening
    BY <1>1
  <2>2. Entered(w \o s) = Entered(w) + Entered(s) /\ Left(w \o s) = Left(w) + Left(s)
    BY <2>1, CountsConcat
  <2> QED BY <2>2, <1>4, <1>5
<1>6. Entered(w \o t) = Entered(w) /\ Left(w \o t) = Left(w)
  BY <1>5, PlainCounts
<1>7. ASSUME NEW k \in 0..Len(w \o t)
      PROVE  \/ Entered(SubSeq(w \o t, 1, k)) = 0 /\ Left(SubSeq(w \o t, 1, k)) = 0
             \/ /\ Entered(SubSeq(w \o t, 1, k)) = Entered(w)
                /\ Left(SubSeq(w \o t, 1, k)) = Left(w)
  <2>1. CASE k >= 2
    <3> DEFINE j == k - 2
    <3>1. j \in 0..Len(t) /\ k = 2 + j
      BY <1>2, <2>1
    <3> HIDE DEF j
    <3>2. SubSeq(w \o t, 1, Len(w) + j) = w \o SubSeq(t, 1, j) /\ SubSeq(t, 1, j) \in Seq(Piece)
      BY <3>1, PrefixesConcat, PrefixOf
    <3>3. Entered(SubSeq(t, 1, j)) = 0 /\ Left(SubSeq(t, 1, j)) = 0
      BY <3>1, PlainCounts
    <3> QED BY <1>1, <3>1, <3>2, <3>3, <1>5
  <2>2. CASE k < 2
    <3>1. SubSeq(w \o t, 1, k) \in Seq(Piece) /\ Len(SubSeq(w \o t, 1, k)) = k /\ k \in Nat
      BY <1>2, PrefixOf
    <3>2. 1..Len(SubSeq(w \o t, 1, k)) - 1 = {}
      BY <3>1, <2>2
    <3> QED BY <3>1, <3>2, NoOccurrence DEF Entered, Left
  <2> QED BY <1>2, <2>1, <2>2
<1> QED BY <1>2, <1>3, <1>4, <1>6, <1>7

LEMMA ScreenInit == Init => ScreenFollows
<1> SUFFICES ASSUME Init PROVE ScreenFollows
  OBVIOUS
<1>1. pty = <<>> /\ depth = 0 /\ cut = {} /\ altScreen = FALSE
  BY DEF Init
<1>2. pty \in Seq(Piece) /\ Len(pty) = 0 /\ \A i \in 1..Len(pty) : pty[i] \notin Opening
  BY <1>1
<1>3. \A n \in 0..Len(pty) : Entered(SubSeq(pty, 1, n)) = 0 /\ Left(SubSeq(pty, 1, n)) = 0
  BY <1>2, PlainCounts
<1>4. \A n \in 0..Len(pty) : Believed(n) = 0
  BY <1>1, <1>3 DEF Believed
<1>5. Believed(Len(pty)) = 0 /\ \A n \in 0..Len(pty) : Believed(n) \in {0, 1}
  BY <1>2, <1>4
<1>6. Believed(Len(pty)) = (IF altScreen THEN 1 ELSE 0)
  BY <1>1, <1>5
<1>7. depth \in Nat
  BY <1>1
<1>8. NoDeeper
  <2>1. Len(pty) \in 0..Len(pty) /\ SubSeq(pty, 1, Len(pty)) = pty
    BY <1>1, <1>2
  <2>2. \A n \in 0..Len(pty) : Net(SubSeq(pty, 1, n)) = 0
    BY <1>3 DEF Net
  <2>3. Net(pty) = 0
    BY <2>1, <2>2
  <2> QED BY <1>1, <2>2, <2>3 DEF NoDeeper
<1> QED BY <1>1, <1>5, <1>6, <1>7, <1>8 DEF ScreenFollows

LEMMA PlainPrinted ==
    ASSUME Types, ScreenFollows, NEW t \in Seq(Piece), t # <<>>,
           \A i \in 1..Len(t) : t[i] \notin Opening,
           pty' = pty \o t, UNCHANGED <<depth, cut, altScreen>>
    PROVE  ScreenFollows'
<1> DEFINE a == IF altScreen THEN 1 ELSE 0
<1>1. a \in {0, 1} /\ a = (IF altScreen THEN 1 ELSE 0) /\ a = (IF altScreen' THEN 1 ELSE 0)
  OBVIOUS
<1> HIDE DEF a
<1>2. t[Len(t)] \notin Opening
  <2>1. Len(t) \in 1..Len(t)
    BY EmptySeq, LenProperties
  <2> QED BY <2>1
<1>3. /\ \A k \in 0..Len(t) : a + Entered(SubSeq(t, 1, k)) - Left(SubSeq(t, 1, k)) \in {0, 1}
      /\ a + Entered(t) - Left(t) = (IF altScreen' THEN 1 ELSE 0)
  BY <1>1, PlainCounts
<1> QED BY <1>1, <1>2, <1>3, ScreenPrinted

LEMMA SwitchPrinted ==
    ASSUME Types, ScreenFollows, NEW t \in Seq(Piece),
           \A i \in 1..Len(t) : t[i] \notin Opening,
           NEW w \in Seq(Piece), Len(w) = 2,
           w[1] = (IF altScreen THEN "leave<" ELSE "enter<"),
           w[2] = (IF altScreen THEN "leave>" ELSE "enter>"),
           pty' = pty \o (w \o t), UNCHANGED <<depth, cut>>, altScreen' = ~altScreen
    PROVE  ScreenFollows'
<1> DEFINE a == IF altScreen THEN 1 ELSE 0
           enters == ~altScreen
           c == w \o t
<1>1. /\ a \in {0, 1} /\ a = (IF altScreen THEN 1 ELSE 0)
      /\ a = (IF enters THEN 0 ELSE 1) /\ enters \in BOOLEAN
      /\ (IF altScreen' THEN 1 ELSE 0) = (IF enters THEN 1 ELSE 0)
      /\ w[1] = (IF enters THEN "enter<" ELSE "leave<")
      /\ w[2] = (IF enters THEN "enter>" ELSE "leave>")
  BY DEF Types
<1> HIDE DEF a, enters
<1>2. /\ c \in Seq(Piece) /\ c # <<>> /\ c[Len(c)] \notin Opening
      /\ Entered(c) = (IF enters THEN 1 ELSE 0)
      /\ Left(c) = (IF enters THEN 0 ELSE 1)
      /\ \A k \in 0..Len(c) :
            \/ Entered(SubSeq(c, 1, k)) = 0 /\ Left(SubSeq(c, 1, k)) = 0
            \/ /\ Entered(SubSeq(c, 1, k)) = (IF enters THEN 1 ELSE 0)
               /\ Left(SubSeq(c, 1, k)) = (IF enters THEN 0 ELSE 1)
  BY <1>1, SwitchCounts
<1> HIDE DEF c
<1>3. ASSUME NEW e, NEW l,
             (e = 0 /\ l = 0) \/ (e = (IF enters THEN 1 ELSE 0) /\ l = (IF enters THEN 0 ELSE 1))
      PROVE  a + e - l \in {0, 1}
  BY <1>1, <1>3
<1>4. \A k \in 0..Len(c) : a + Entered(SubSeq(c, 1, k)) - Left(SubSeq(c, 1, k)) \in {0, 1}
  BY <1>2, <1>3
<1>5. a + Entered(c) - Left(c) = (IF altScreen' THEN 1 ELSE 0)
  BY <1>1, <1>2
<1>6. pty' = pty \o c
  BY DEF c
<1> QED BY <1>1, <1>2, <1>4, <1>5, <1>6, ScreenPrinted

(* A program that ends leaves the screen of text behind it.                *)
LEMMA EndsScreen ==
    ASSUME Types, ScreenFollows, NEW pieces \in {<<>>, <<"nl">>}, Ends(pieces),
           UNCHANGED <<depth, cut>>
    PROVE  ScreenFollows'
<1> DEFINE t == pieces \o <<"prompt">>
           w == <<"leave<", "leave>">>
<1>1. t \in Seq(Piece) /\ t # <<>> /\ \A i \in 1..Len(t) : t[i] \notin Opening
  <2>1. CASE pieces = <<>>
    BY <2>1 DEF Opening, Piece
  <2>2. CASE pieces = <<"nl">>
    BY <2>2 DEF Opening, Piece
  <2> QED BY <2>1, <2>2
<1>2. CASE ~altScreen
  <2>1. pty' = pty \o t
    BY <1>2 DEF Ends, Emit
  <2>2. altScreen' = altScreen
    BY <1>2 DEF Ends, Types
  <2> HIDE DEF t
  <2> QED BY <1>1, <2>1, <2>2, PlainPrinted
<1>3. CASE altScreen
  <2>1. pty' = pty \o (w \o pieces \o <<"prompt">>)
    BY <1>3 DEF Ends, Emit
  <2>2. w \o pieces \o <<"prompt">> = w \o t
    <3>1. CASE pieces = <<>>
      BY <3>1
    <3>2. CASE pieces = <<"nl">>
      BY <3>2
    <3> QED BY <3>1, <3>2
  <2>3. w \in Seq(Piece) /\ Len(w) = 2
    BY DEF Piece
  <2>4. w[1] = (IF altScreen THEN "leave<" ELSE "enter<")
        /\ w[2] = (IF altScreen THEN "leave>" ELSE "enter>")
    BY <1>3
  <2>5. altScreen' = ~altScreen
    BY <1>3 DEF Ends, Types
  <2>6. pty' = pty \o (w \o t)
    BY <2>1, <2>2
  <2> HIDE DEF t, w
  <2> QED BY <1>1, <2>3, <2>4, <2>5, <2>6, SwitchPrinted
<1> QED BY <1>2, <1>3

LEMMA ShellScreen ==
    ASSUME IInv, ScreenFollows, Shell
    PROVE  ScreenFollows'
<1>0. Types /\ UNCHANGED <<depth, cut>>
  BY DEF IInv, Shell, session, ghosts
<1>1. CASE ShellReads
  <2>1. altScreen' = altScreen
    BY <1>1 DEF ShellReads
  <2>2. Head(ttyInput) \in {"empty", "command", "intr"}
    BY <1>0, <1>1 DEF ShellReads, Types
  <2>3. \E t \in {<<"text", "nl">>, <<"nl", "prompt">>, <<"text", "nl", "prompt">>} :
           pty' = pty \o t
    BY <1>1, <2>2 DEF ShellReads, Emit
  <2>4. \A t \in {<<"text", "nl">>, <<"nl", "prompt">>, <<"text", "nl", "prompt">>} :
           t \in Seq(Piece) /\ t # <<>> /\ \A i \in 1..Len(t) : t[i] \notin Opening
    <3>1. /\ <<"text", "nl">> \in Seq(Piece) /\ <<"text", "nl">> # <<>>
          /\ \A i \in 1..Len(<<"text", "nl">>) : <<"text", "nl">>[i] \notin Opening
      BY DEF Piece, Opening
    <3>2. /\ <<"nl", "prompt">> \in Seq(Piece) /\ <<"nl", "prompt">> # <<>>
          /\ \A i \in 1..Len(<<"nl", "prompt">>) : <<"nl", "prompt">>[i] \notin Opening
      BY DEF Piece, Opening
    <3>3. /\ <<"text", "nl", "prompt">> \in Seq(Piece) /\ <<"text", "nl", "prompt">> # <<>>
          /\ \A i \in 1..Len(<<"text", "nl", "prompt">>) :
                <<"text", "nl", "prompt">>[i] \notin Opening
      BY DEF Piece, Opening
    <3> QED BY <3>1, <3>2, <3>3
  <2> QED BY <1>0, <2>1, <2>3, <2>4, PlainPrinted
<1>2. CASE ProgramEnds
  BY <1>0, <1>2, EndsScreen DEF ProgramEnds
<1>3. CASE ProgramIsInterrupted
  BY <1>0, <1>3, EndsScreen DEF ProgramIsInterrupted
<1>4. CASE ProgramPrints \/ ProgramAsks \/ ProgramIsAnswered
  <2>1. altScreen' = altScreen
    BY <1>4 DEF ProgramPrints, ProgramAsks, ProgramIsAnswered
  <2>2. \E t \in {<<"char<", "char>">>, <<"nl">>, <<"ask<", "ask>">>} : pty' = pty \o t
    BY <1>4 DEF ProgramPrints, ProgramAsks, ProgramIsAnswered, Emit
  <2>3. \A t \in {<<"char<", "char>">>, <<"nl">>, <<"ask<", "ask>">>} :
           t \in Seq(Piece) /\ t # <<>> /\ \A i \in 1..Len(t) : t[i] \notin Opening
    <3>1. /\ <<"char<", "char>">> \in Seq(Piece) /\ <<"char<", "char>">> # <<>>
          /\ \A i \in 1..Len(<<"char<", "char>">>) : <<"char<", "char>">>[i] \notin Opening
      BY DEF Piece, Opening
    <3>2. /\ <<"nl">> \in Seq(Piece) /\ <<"nl">> # <<>>
          /\ \A i \in 1..Len(<<"nl">>) : <<"nl">>[i] \notin Opening
      BY DEF Piece, Opening
    <3>3. /\ <<"ask<", "ask>">> \in Seq(Piece) /\ <<"ask<", "ask>">> # <<>>
          /\ \A i \in 1..Len(<<"ask<", "ask>">>) : <<"ask<", "ask>">>[i] \notin Opening
      BY DEF Piece, Opening
    <3> QED BY <3>1, <3>2, <3>3
  <2> QED BY <1>0, <2>1, <2>2, <2>3, PlainPrinted
<1>5. CASE ProgramSwitchesScreen
  <2> DEFINE enter == <<"enter<", "enter>">>
             leave == <<"leave<", "leave>">>
             w == IF altScreen THEN leave ELSE enter
             t == <<>>
  <2>1. pty' = pty \o w /\ altScreen' = ~altScreen
    BY <1>5 DEF ProgramSwitchesScreen, Emit
  <2>2. /\ enter \in Seq(Piece) /\ Len(enter) = 2 /\ enter[1] = "enter<" /\ enter[2] = "enter>"
        /\ leave \in Seq(Piece) /\ Len(leave) = 2 /\ leave[1] = "leave<" /\ leave[2] = "leave>"
    BY DEF Piece
  <2> HIDE DEF enter, leave
  <2>3. /\ w \in Seq(Piece) /\ Len(w) = 2
        /\ w[1] = (IF altScreen THEN "leave<" ELSE "enter<")
        /\ w[2] = (IF altScreen THEN "leave>" ELSE "enter>")
    BY <2>2
  <2> HIDE DEF w
  <2>4. t \in Seq(Piece) /\ w \o t = w /\ \A i \in 1..Len(t) : t[i] \notin Opening
    BY <2>3, ConcatEmptySeq, EmptySeq
  <2> HIDE DEF t
  <2>5. pty' = pty \o (w \o t)
    BY <2>1, <2>4
  <2> QED BY <1>0, <2>1, <2>3, <2>4, <2>5, SwitchPrinted
<1> QED BY <1>1, <1>2, <1>3, <1>4, <1>5 DEF Shell

(* What is read is what the prefix of the output counts.                   *)
LEMMA ReadSplits ==
    ASSUME NEW s \in Seq(Piece), NEW n \in 1..Len(s), NEW r, r = SubSeq(s, n + 1, Len(s))
    PROVE  /\ r \in Seq(Piece) /\ Len(r) = Len(s) - n
           /\ s = SubSeq(s, 1, n) \o r
           /\ \A m \in 0..Len(r) : /\ n + m \in 0..Len(s)
                                   /\ SubSeq(s, 1, n + m) = SubSeq(s, 1, n) \o SubSeq(r, 1, m)
<1> DEFINE c == SubSeq(s, 1, n)
<1>1. Len(s) \in Nat /\ n \in Nat /\ n >= 1 /\ n <= Len(s) /\ n \in 0..Len(s)
  BY LenProperties
<1>2. c \in Seq(Piece) /\ Len(c) = n /\ \A i \in 1..n : c[i] = s[i]
  BY <1>1, PrefixOf
<1>3. r \in Seq(Piece) /\ Len(r) = Len(s) - n /\ \A i \in 1..Len(r) : r[i] = s[n + i]
  BY <1>1
<1> HIDE DEF c
<1>4. /\ c \o r \in Seq(Piece) /\ Len(c \o r) = n + Len(r) /\ Len(r) \in Nat
      /\ \A i \in 1..n : (c \o r)[i] = c[i]
      /\ \A i \in 1..Len(r) : (c \o r)[n + i] = r[i]
  <2>1. /\ c \o r \in Seq(Piece) /\ Len(c \o r) = Len(c) + Len(r) /\ Len(r) \in Nat
        /\ \A i \in 1..Len(c) : (c \o r)[i] = c[i]
        /\ \A i \in 1..Len(r) : (c \o r)[Len(c) + i] = r[i]
    BY <1>2, <1>3, ConcatOf
  <2> QED BY <2>1, <1>2
<1>lengths. Len(r) = Len(s) - n /\ Len(c \o r) = n + Len(r) /\ Len(c) = n
  BY <1>2, <1>3, <1>4
<1>5. ASSUME NEW i \in 1..Len(s) PROVE s[i] = (c \o r)[i]
  <2>1. CASE i <= n
    <3>1. i \in 1..n
      BY <1>1, <2>1
    <3> QED BY <3>1, <1>2, <1>4
  <2>2. CASE ~(i <= n)
    <3> DEFINE j == i - n
    <3>1. j \in 1..Len(r) /\ i = n + j
      BY <1>1, <1>lengths, <2>2
    <3> HIDE DEF j
    <3> QED BY <3>1, <1>3, <1>4
  <2> QED BY <2>1, <2>2
<1>6. s = c \o r
  <2>1. Len(s) = Len(c \o r)
    BY <1>1, <1>lengths
  <2>2. c \o r \in Seq(Piece)
    BY <1>4
  <2> QED BY <2>1, <2>2, <1>5, SeqEqual
<1>7. ASSUME NEW m \in 0..Len(r)
      PROVE  n + m \in 0..Len(s) /\ SubSeq(s, 1, n + m) = c \o SubSeq(r, 1, m)
  <2>1. n + m \in 0..Len(s)
    BY <1>1, <1>lengths
  <2>2. SubSeq(c \o r, 1, Len(c) + m) = c \o SubSeq(r, 1, m)
    <3>1. c \in Seq(Piece) /\ r \in Seq(Piece)
      BY <1>2, <1>3
    <3> QED BY <3>1, PrefixesConcat
  <2> QED BY <2>1, <2>2, <1>lengths, <1>6
<1> QED BY <1>3, <1>6, <1>7 DEF c

(* What a read leaves counts what it did before, but for a sequence that   *)
(* has been cut by the read.                                               *)
LEMMA CountsCut ==
    ASSUME NEW c \in Seq(Piece), c # <<>>, c[Len(c)] # "leave<", NEW r \in Seq(Piece)
    PROVE  \E s \in {0, 1} :
              /\ Net(c \o r) = Net(c) + Net(r) + s
              /\ \A m \in 1..Len(r) :
                    Net(c \o SubSeq(r, 1, m)) = Net(c) + Net(SubSeq(r, 1, m)) + s
<1> DEFINE s == IF Straddles(c, r, "enter<", "enter>") THEN 1 ELSE 0
<1>1. ASSUME NEW t \in Seq(Piece), Straddles(c, t, "enter<", "enter>")
                                   <=> Straddles(c, r, "enter<", "enter>")
      PROVE  Net(c \o t) = Net(c) + Net(t) + s
  <2>1. Entered(c \o t) = Entered(c) + Entered(t) + s
    BY <1>1, OccurrencesCut DEF Entered
  <2>2. Left(c \o t) = Left(c) + Left(t)
    BY OccurrencesConcat DEF Left
  <2>3. /\ Entered(c) \in Nat /\ Entered(t) \in Nat /\ Left(c) \in Nat /\ Left(t) \in Nat
        /\ Net(c) = Entered(c) - Left(c) /\ Net(t) = Entered(t) - Left(t) /\ s \in {0, 1}
    BY NetOf
  <2>4. Net(c \o t) = Entered(c \o t) - Left(c \o t)
    BY DEF Net
  <2> HIDE DEF s
  <2>5. Net(c \o t) = (Entered(c) + Entered(t) + s) - (Left(c) + Left(t))
    BY <2>1, <2>2, <2>4
  <2>6. (Entered(c) + Entered(t) + s) - (Left(c) + Left(t))
          = (Entered(c) - Left(c)) + (Entered(t) - Left(t)) + s
    BY <2>3, NetsAdd
  <2> QED BY <2>3, <2>5, <2>6
<1>2. ASSUME NEW m \in 1..Len(r)
      PROVE  /\ SubSeq(r, 1, m) \in Seq(Piece)
             /\ Straddles(c, SubSeq(r, 1, m), "enter<", "enter>")
                  <=> Straddles(c, r, "enter<", "enter>")
  <2>1. m \in 0..Len(r) /\ 1 \in 1..m /\ m # 0 /\ Len(r) # 0
    BY LenProperties
  <2>2. /\ SubSeq(r, 1, m) \in Seq(Piece) /\ Len(SubSeq(r, 1, m)) = m
        /\ SubSeq(r, 1, m)[1] = r[1]
    BY <2>1, PrefixOf
  <2>3. SubSeq(r, 1, m) # <<>> /\ r # <<>>
    BY <2>1, <2>2, EmptySeq
  <2> QED BY <2>2, <2>3 DEF Straddles
<1>3. \A m \in 1..Len(r) : Net(c \o SubSeq(r, 1, m)) = Net(c) + Net(SubSeq(r, 1, m)) + s
  BY <1>1, <1>2
<1>4. Net(c \o r) = Net(c) + Net(r) + s
  BY <1>1
<1>5. s \in {0, 1}
  OBVIOUS
<1> HIDE DEF s
<1> QED BY <1>3, <1>4, <1>5

LEMMA NothingNets == Net(<<>>) = 0
<1>1. <<>> \in Seq(Piece) /\ Len(<<>>) = 0 /\ 1..Len(<<>>) = {}
  BY EmptySeq
<1>2. Entered(<<>>) = 0 /\ Left(<<>>) = 0
  BY <1>1, PlainCounts
<1> QED BY <1>2 DEF Net

LEMMA NoDeeperRead ==
    ASSUME IInv, ScreenFollows, HandleOutput
    PROVE  NoDeeper'
<1>0. pty \in Seq(Piece)
  BY DEF IInv, Types
<1>1. PICK n \in 1..Len(pty) :
         /\ pty' = SubSeq(pty, n + 1, Len(pty))
         /\ depth' = DepthAfter(SubSeq(pty, 1, n))
         /\ cut' = cut \cup ({Last(SubSeq(pty, 1, n))} \cap {"enter<", "leave<"})
         /\ altScreen' = altScreen
  BY DEF HandleOutput
<1> DEFINE c == SubSeq(pty, 1, n)
           a == IF altScreen THEN 1 ELSE 0
<1>2. Len(pty) \in Nat /\ n \in Nat /\ n >= 1 /\ n <= Len(pty) /\ n \in 0..Len(pty)
  BY <1>0, LenProperties
<1>3. c \in Seq(Piece) /\ Len(c) = n /\ c # <<>>
  BY <1>0, <1>2, PrefixOf, EmptySeq
<1>4. /\ pty' \in Seq(Piece) /\ Len(pty') = Len(pty) - n /\ pty = c \o pty'
      /\ \A m \in 0..Len(pty') : /\ n + m \in 0..Len(pty)
                                 /\ SubSeq(pty, 1, n + m) = c \o SubSeq(pty', 1, m)
  BY <1>0, <1>1, ReadSplits
<1>5. depth' = DepthAfter(c) /\ cut' = cut \cup ({Last(c)} \cap {"enter<", "leave<"})
  BY <1>1
<1>last. Last(c) = c[Len(c)]
  BY DEF Last
<1>a. a \in {0, 1} /\ a = (IF altScreen' THEN 1 ELSE 0) /\ a = (IF altScreen THEN 1 ELSE 0)
  BY <1>1
<1>full. SubSeq(pty, 1, n) = c
  OBVIOUS
<1> HIDE DEF c, a
<1>6. SUFFICES ASSUME "leave<" \notin cut'
               PROVE  /\ depth' + Net(pty') <= a
                      /\ \A m \in 0..Len(pty') : Net(pty') - Net(SubSeq(pty', 1, m)) <= a
  BY <1>a DEF NoDeeper
<1>7. "leave<" \notin cut /\ c[Len(c)] # "leave<"
  BY <1>5, <1>6, <1>last
<1>8. PICK s \in {0, 1} :
              /\ Net(c \o pty') = Net(c) + Net(pty') + s
              /\ \A m \in 1..Len(pty') :
                    Net(c \o SubSeq(pty', 1, m)) = Net(c) + Net(SubSeq(pty', 1, m)) + s
  BY <1>3, <1>4, <1>7, CountsCut
<1>9. /\ depth + Net(pty) <= a
      /\ \A m \in 0..Len(pty) : Net(pty) - Net(SubSeq(pty, 1, m)) <= a
  BY <1>7, <1>a DEF ScreenFollows, NoDeeper
<1>10. depth \in Nat
  BY DEF ScreenFollows
<1>11. Net(pty) = Net(c) + Net(pty') + s /\ Net(pty) - Net(c) <= a
  <2>1. Net(pty) - Net(c) <= a
    BY <1>2, <1>9, <1>full
  <2> QED BY <2>1, <1>4, <1>8
<1>12. Net(c) \in Int /\ Net(pty') \in Int /\ Net(pty) \in Int
  BY <1>0, <1>3, <1>4, NetOf
<1>13. depth' = (IF depth + Net(c) >= 0 THEN depth + Net(c) ELSE 0)
  <2>1. Entered(c) \in Nat /\ Left(c) \in Nat
    BY <1>3, NetOf
  <2>2. depth' = (IF Left(c) > depth + Entered(c) THEN 0 ELSE depth + Entered(c) - Left(c))
    BY <1>5, <1>10, <2>1 DEF DepthAfter, Entered, Left
  <2>3. Net(c) = Entered(c) - Left(c) /\ depth \in Nat
    BY <1>3, <1>10, NetOf
  <2> DEFINE e == Entered(c)
             l == Left(c)
  <2>4. e \in Nat /\ l \in Nat /\ Net(c) = e - l
        /\ depth' = (IF l > depth + e THEN 0 ELSE depth + e - l)
    BY <2>1, <2>2, <2>3
  <2> HIDE DEF e, l
  <2> QED BY <2>3, <2>4
<1>14. depth' + Net(pty') <= a
  <2> DEFINE d == depth
             x == Net(c)
             r == Net(pty')
  <2>1. d \in Nat /\ x \in Int /\ r \in Int
        /\ (x + r + s) - x <= a /\ d + (x + r + s) <= a
    BY <1>9, <1>10, <1>11, <1>12
  <2>2. depth' + Net(pty') = (IF d + x >= 0 THEN d + x ELSE 0) + r
    BY <1>13
  <2> HIDE DEF d, x, r
  <2>3. (IF d + x >= 0 THEN d + x ELSE 0) + r <= a
    BY <2>1, <1>a, DeeperClamped
  <2> QED BY <2>2, <2>3
<1>15. ASSUME NEW m \in 0..Len(pty')
       PROVE  Net(pty') - Net(SubSeq(pty', 1, m)) <= a
  <2>1. SubSeq(pty', 1, m) \in Seq(Piece) /\ Net(SubSeq(pty', 1, m)) \in Int
    <3>1. SubSeq(pty', 1, m) \in Seq(Piece)
      BY <1>4, PrefixOf
    <3> QED BY <3>1, NetOf
  <2>2. CASE m = 0
    <3>1. Len(SubSeq(pty', 1, m)) = 0
      BY <1>4, <2>2, PrefixOf
    <3>2. SubSeq(pty', 1, m) = <<>> /\ <<>> \in Seq(Piece)
      BY <2>1, <3>1, EmptySeq
    <3>3. Net(SubSeq(pty', 1, m)) = 0
      BY <3>2, NothingNets
    <3>4. Net(pty') <= a
      <4> DEFINE x == Net(c)
                 r == Net(pty')
      <4>1. x \in Int /\ r \in Int /\ (x + r + s) - x <= a
        BY <1>11, <1>12
      <4> HIDE DEF x, r
      <4>2. r <= a
        BY <4>1, <1>a
      <4> QED BY <4>2 DEF r
    <3>5. Net(pty') \in Int /\ a \in Int
      BY <1>12, <1>a
    <3> QED BY <3>3, <3>4, <3>5
  <2>3. CASE m # 0
    <3>1. m \in 1..Len(pty')
      BY <2>3
    <3>2. Net(SubSeq(pty, 1, n + m)) = Net(c) + Net(SubSeq(pty', 1, m)) + s
      BY <1>4, <1>8, <3>1
    <3>3. Net(pty) - Net(SubSeq(pty, 1, n + m)) <= a
      BY <1>4, <1>9
    <3> DEFINE x == Net(c)
               r == Net(pty')
               q == Net(SubSeq(pty', 1, m))
    <3>4. x \in Int /\ r \in Int /\ q \in Int /\ (x + r + s) - (x + q + s) <= a
      BY <1>11, <1>12, <2>1, <3>2, <3>3
    <3> HIDE DEF x, r, q
    <3>5. r - q <= a
      BY <3>4, <1>a, DeeperShifted
    <3> QED BY <3>5 DEF r, q
  <2> QED BY <2>2, <2>3
<1> QED BY <1>14, <1>15

LEMMA OutputScreen ==
    ASSUME IInv, ScreenFollows, HandleOutput
    PROVE  ScreenFollows'
<1>0. pty \in Seq(Piece)
  BY DEF IInv, Types
<1>1. PICK n \in 1..Len(pty) :
         /\ pty' = SubSeq(pty, n + 1, Len(pty))
         /\ depth' = DepthAfter(SubSeq(pty, 1, n))
         /\ cut' = cut \cup ({Last(SubSeq(pty, 1, n))} \cap {"enter<", "leave<"})
         /\ altScreen' = altScreen
  BY DEF HandleOutput
<1> DEFINE c == SubSeq(pty, 1, n)
<1>2. Len(pty) \in Nat /\ n \in Nat /\ n >= 1 /\ n <= Len(pty) /\ n \in 0..Len(pty)
  BY <1>0, LenProperties
<1>3. c \in Seq(Piece) /\ Len(c) = n /\ \A i \in 1..n : c[i] = pty[i]
  BY <1>0, <1>2, PrefixOf
<1>4. /\ pty' \in Seq(Piece) /\ Len(pty') = Len(pty) - n /\ pty = c \o pty'
      /\ \A m \in 0..Len(pty') : /\ n + m \in 0..Len(pty)
                                 /\ SubSeq(pty, 1, n + m) = c \o SubSeq(pty', 1, m)
  BY <1>0, <1>1, ReadSplits
<1>5. depth' = DepthAfter(c) /\ cut' = cut \cup ({c[n]} \cap Opening)
  BY <1>1, <1>3 DEF Last, Opening
<1>6. Believed(n) = depth + Entered(c) - Left(c)
  BY DEF Believed
<1> HIDE DEF c
<1>7. depth \in Nat /\ Entered(c) \in Nat /\ Left(c) \in Nat
  BY <1>3, OccurrencesType DEF ScreenFollows, Entered, Left
<1>8. depth' \in Nat
  BY <1>5, <1>7 DEF DepthAfter, Entered, Left
<1>9. pty' # <<>> => pty'[Len(pty')] \notin Opening
  <2> SUFFICES ASSUME pty' # <<>> PROVE pty'[Len(pty')] \notin Opening
    OBVIOUS
  <2>1. Len(pty') \in 1..Len(pty')
    BY <1>4, EmptySeq
  <2>2. (c \o pty')[Len(c) + Len(pty')] = pty'[Len(pty')]
    BY <2>1, <1>3, <1>4, ConcatOf
  <2>3. Len(c) + Len(pty') = Len(pty) /\ pty # <<>>
    BY <1>2, <1>3, <1>4
  <2>4. pty[Len(pty)] = pty'[Len(pty')]
    BY <2>2, <2>3, <1>4
  <2> QED BY <2>3, <2>4 DEF ScreenFollows
<1>10. ASSUME cut' = {}
       PROVE  /\ \A m \in 0..Len(pty') : Believed(m)' = Believed(n + m)
              /\ \A m \in 0..Len(pty') : Believed(n + m) \in {0, 1}
              /\ Believed(n + Len(pty')) = (IF altScreen' THEN 1 ELSE 0)
  <2>1. cut = {} /\ c[n] \notin Opening
    BY <1>5, <1>10
  <2>2. /\ \A m \in 0..Len(pty) : Believed(m) \in {0, 1}
        /\ Believed(Len(pty)) = (IF altScreen THEN 1 ELSE 0)
    BY <2>1 DEF ScreenFollows
  <2>3. depth + Entered(c) - Left(c) \in {0, 1}
    BY <1>2, <1>6, <2>2
  <2>4. depth' = depth + Entered(c) - Left(c)
    BY <1>5, <1>7, <2>3 DEF DepthAfter, Entered, Left
  <2>5. ASSUME NEW m \in 0..Len(pty') PROVE Believed(m)' = Believed(n + m)
    <3> DEFINE p == SubSeq(pty', 1, m)
    <3>1. p \in Seq(Piece) /\ Entered(p) \in Nat /\ Left(p) \in Nat
      BY <1>4, PrefixOf, OccurrencesType DEF Entered, Left
    <3>2. SubSeq(pty, 1, n + m) = c \o p
      BY <1>4
    <3>3. Believed(m)' = depth' + Entered(p) - Left(p)
      BY DEF Believed
    <3> HIDE DEF p
    <3>4. c # <<>> => c[Len(c)] \notin Opening
      BY <1>3, <2>1
    <3>5. Entered(c \o p) = Entered(c) + Entered(p) /\ Left(c \o p) = Left(c) + Left(p)
      BY <1>3, <3>1, <3>4, CountsConcat
    <3>6. Believed(n + m) = depth + Entered(c \o p) - Left(c \o p)
      BY <3>2 DEF Believed
    <3>7. Believed(n + m) = (depth + Entered(c) - Left(c)) + Entered(p) - Left(p)
      BY <1>7, <3>1, <3>5, <3>6, Regrouped
    <3> QED BY <2>4, <3>3, <3>7
  <2>6. \A m \in 0..Len(pty') : Believed(n + m) \in {0, 1}
    BY <1>4, <2>2
  <2>7. n + Len(pty') = Len(pty)
    BY <1>2, <1>4
  <2> QED BY <1>1, <2>2, <2>5, <2>6, <2>7
<1>11. Len(pty') \in 0..Len(pty')
  BY <1>4, LenProperties
<1>12. ASSUME cut' = {}
       PROVE  /\ \A m \in 0..Len(pty') : Believed(m)' \in {0, 1}
              /\ Believed(Len(pty))' = (IF altScreen' THEN 1 ELSE 0)
  BY <1>10, <1>11, <1>12
<1>13. NoDeeper'
  BY NoDeeperRead
<1> QED BY <1>8, <1>9, <1>12, <1>13 DEF ScreenFollows

LEMMA KeyboardScreen ==
    ASSUME ScreenFollows, Keyboard \/ UNCHANGED vars
    PROVE  ScreenFollows'
<1>1. UNCHANGED <<pty, depth, cut, altScreen>>
  <2>1. CASE UNCHANGED vars
    BY <2>1 DEF vars, session, shell, ghosts
  <2>2. CASE Keyboard
    BY <2>2 DEF Keyboard, Edit, Interrupt, Enter, PassThrough, session, shell, ghosts
  <2> QED BY <2>1, <2>2
<1> QED BY <1>1 DEF ScreenFollows, Believed, NoDeeper

THEOREM ScreenInvariance == Spec => []ScreenFollows
<1>1. IInv /\ ScreenFollows /\ [Next]_vars => ScreenFollows'
  BY KeyboardScreen, ShellScreen, OutputScreen DEF Next
<1> QED BY ScreenInit, Invariance, <1>1, PTL DEF Spec

(* The shell's own screen is that of text.                                 *)
ShellIsText == altScreen \in BOOLEAN /\ (foreground = "shell" => ~altScreen)

LEMMA TextStays ==
    ASSUME ShellIsText, [Next]_vars
    PROVE  ShellIsText'
<1>1. CASE Keyboard \/ HandleOutput \/ UNCHANGED vars
  <2>1. UNCHANGED <<altScreen, foreground>>
    BY <1>1 DEF Keyboard, Edit, Interrupt, Enter, PassThrough, HandleOutput, shell, vars
  <2> QED BY <2>1 DEF ShellIsText
<1>2. CASE ShellReads
  BY <1>2 DEF ShellReads, ShellIsText
<1>3. CASE ProgramEnds \/ ProgramIsInterrupted
  BY <1>3 DEF ProgramEnds, ProgramIsInterrupted, Ends, ShellIsText
<1>4. CASE ProgramPrints \/ ProgramAsks \/ ProgramIsAnswered \/ ProgramSwitchesScreen
  <2>1. foreground' # "shell" /\ altScreen' \in BOOLEAN
    BY <1>4 DEF ProgramPrints, ProgramAsks, ProgramIsAnswered, ProgramSwitchesScreen, ShellIsText
  <2> QED BY <2>1 DEF ShellIsText
<1> QED BY <1>1, <1>2, <1>3, <1>4 DEF Next, Shell

(* With nothing more to read, the detector believes what it has counted.   *)
LEMMA NothingCounts ==
    ASSUME pty = <<>>
    PROVE  Net(pty) = 0 /\ Believed(Len(pty)) = depth + 0 - 0
<1>1. pty \in Seq(Piece) /\ Len(pty) = 0 /\ \A i \in 1..Len(pty) : pty[i] \notin Opening
  OBVIOUS
<1>2. \A k \in 0..Len(pty) : Entered(SubSeq(pty, 1, k)) = 0 /\ Left(SubSeq(pty, 1, k)) = 0
  BY <1>1, PlainCounts
<1>3. Entered(SubSeq(pty, 1, Len(pty))) = 0 /\ Left(SubSeq(pty, 1, Len(pty))) = 0
  BY <1>1, <1>2
<1>4. Entered(pty) = 0 /\ Left(pty) = 0
  BY <1>1, PlainCounts
<1> QED BY <1>3, <1>4 DEF Believed, Net

(* When the shell waits at its prompt and its output has been read, what is*)
(* typed goes to the editor again, however the reads have cut the output,  *)
(* unless one has cut a sequence that leaves the alternate screen          *)
(* (terminal_session.py:203-233, 557-561, alternate_screen.py:34-40).      *)
THEOREM KeyboardComesBack == Spec => []KeyboardReturns
<1>1. IInv /\ ScreenFollows /\ ShellIsText => KeyboardReturns
  <2> SUFFICES ASSUME IInv, ScreenFollows, ShellIsText, ShellHasWaited, "leave<" \notin cut
               PROVE  ~(depth > 0) /\ ~running
    BY DEF KeyboardReturns, ToPTY
  <2>1. ~running
    BY DEF IInv, Types, PromptComes, ShellHasWaited
  <2>2. ~altScreen /\ pty = <<>>
    BY DEF ShellIsText, ShellHasWaited
  <2>3. depth + Net(pty) <= 0 /\ depth \in Nat
    BY <2>2 DEF ScreenFollows, NoDeeper
  <2>4. Net(pty) = 0
    BY <2>2, NothingCounts
  <2> QED BY <2>1, <2>3, <2>4
<1>2. Init => ShellIsText
  BY DEF Init, ShellIsText
<1>3. Spec => []ShellIsText
  BY <1>2, TextStays, PTL DEF Spec
<1> QED BY <1>1, <1>3, Invariance, ScreenInvariance, PTL

(* When all output has been read, the detector knows whether the alternate *)
(* screen is on, unless a read has cut one of its sequences                *)
(* (alternate_screen.py:39-46).                                            *)
THEOREM ScreenIsTracked == Spec => []AltScreenIsTracked
<1>1. IInv /\ ScreenFollows => AltScreenIsTracked
  <2> SUFFICES ASSUME IInv, ScreenFollows, pty = <<>>, cut = {} PROVE (depth > 0) = altScreen
    BY DEF AltScreenIsTracked
  <2>1. Believed(Len(pty)) = depth /\ depth \in Nat
    BY NothingCounts DEF ScreenFollows
  <2>2. depth = (IF altScreen THEN 1 ELSE 0) /\ altScreen \in BOOLEAN
    BY <2>1 DEF ScreenFollows, IInv, Types
  <2> QED BY <2>2
<1> QED BY <1>1, Invariance, ScreenInvariance, PTL

-----------------------------------------------------------------------------
(* The context of queries.                                                 *)

(* A set of numbers with 0 and the successors of its members has them all. *)
LEMMA Counting ==
    ASSUME NEW S \in SUBSET Nat, 0 \in S, \A n \in S : n + 1 \in S
    PROVE  S = Nat
<1> SUFFICES ASSUME Nat \ S # {} PROVE FALSE
  OBVIOUS
<1> DEFINE R == OpToRel(<, Nat)
           T == Nat \ S
<1>1. IsWellFoundedOn(R, Nat)
  BY NatLessThanWellFounded
<1>2. T \subseteq Nat /\ T # {}
  OBVIOUS
<1>3. \E x \in T : \A y \in T : ~ (<<y, x>> \in R)
  <2> HIDE DEF R, T
  <2> QED BY <1>1, <1>2, WFMin
<1>4. PICK x \in T : \A y \in T : ~ (<<y, x>> \in R)
  BY <1>3
<1>5. \A y \in T : ~ (y < x)
  BY <1>2, <1>4, Zenon DEF OpToRel
<1>6. x # 0 /\ x \in Nat
  OBVIOUS
<1>7. x - 1 \in Nat /\ x - 1 < x /\ (x - 1) + 1 = x
  BY <1>6
<1>8. x - 1 \in S
  BY <1>5, <1>7
<1> QED BY <1>7, <1>8

LEMMA AppendPieceConcat ==
    \A s, t \in Seq(Piece) : \A x \in Piece : Append(s \o t, x) = s \o Append(t, x)
  OBVIOUS

TextLine == Seq(Piece)

LEMMA AppendLineConcat ==
    \A s, t \in Seq(TextLine) : \A x \in TextLine : Append(s \o t, x) = s \o Append(t, x)
  OBVIOUS

(* So has a set of sequences with the empty one that is closed under       *)
(* appending a member.                                                     *)
LEMMA Appending ==
    ASSUME NEW T, NEW S \in SUBSET Seq(T), <<>> \in S,
           \A t \in S : \A x \in T : Append(t, x) \in S
    PROVE  S = Seq(T)
<1> DEFINE N == {n \in Nat : \A t \in Seq(T) : Len(t) = n => t \in S}
<1>1. 0 \in N
  <2>1. \A t \in Seq(T) : Len(t) = 0 => t = <<>>
    BY EmptySeq
  <2> QED BY <2>1
<1>2. ASSUME NEW n \in N PROVE n + 1 \in N
  <2> SUFFICES ASSUME NEW t \in Seq(T), Len(t) = n + 1 PROVE t \in S
    OBVIOUS
  <2>1. n \in Nat /\ t # <<>>
    BY EmptySeq
  <2>2. PICK s \in Seq(T) : Len(s) = n /\ \A i \in 1..n : s[i] = t[i]
    <3>1. n \in 0..Len(t)
      BY <2>1
    <3>2. /\ SubSeq(t, 1, n) \in Seq(T) /\ Len(SubSeq(t, 1, n)) = n
          /\ \A i \in 1..n : SubSeq(t, 1, n)[i] = t[i]
      BY <3>1, PrefixOf
    <3> QED BY <3>2, Zenon
  <2>3. PICK x \in T : t[n + 1] = x
    BY <2>1, ElementOfSeq
  <2>4. s \in S /\ Append(s, x) \in S
    BY <2>1, <2>2
  <2>5. /\ Append(s, x) \in Seq(T) /\ Len(Append(s, x)) = n + 1
        /\ Append(s, x)[n + 1] = x /\ \A i \in 1..n : Append(s, x)[i] = s[i]
    <3>1. /\ Append(s, x) \in Seq(T) /\ Len(Append(s, x)) = Len(s) + 1
          /\ \A i \in 1..Len(s) : Append(s, x)[i] = s[i]
          /\ Append(s, x)[Len(s) + 1] = x
      BY AppendProperties
    <3> QED BY <3>1, <2>2
  <2>6. ASSUME NEW i \in 1..Len(t) PROVE t[i] = Append(s, x)[i]
    <3>1. i \in 1..n \/ i = n + 1
      BY <2>1
    <3> QED BY <3>1, <2>2, <2>3, <2>5
  <2>7. t = Append(s, x)
    BY <2>5, <2>6, SeqEqual
  <2> QED BY <2>4, <2>7
<1>3. N = Nat
  <2> HIDE DEF N
  <2>1. N \in SUBSET Nat
    BY DEF N
  <2> QED BY <1>1, <1>2, <2>1, Counting
<1>4. ASSUME NEW t \in Seq(T) PROVE t \in S
  <2>1. Len(t) \in N
    BY <1>3, LenProperties
  <2> QED BY <2>1
<1> QED BY <1>4

(* What Lines computes, piece by piece.                                    *)
IsReading(f, text, m) ==
    f = [n \in 0..m |-> IF n = 0 THEN NoLines ELSE AfterPiece(f[n - 1], text[n])]

LEMMA ReadingExists ==
    ASSUME NEW text, NEW m \in Nat
    PROVE  \E f : IsReading(f, text, m)
<1> DEFINE S == {n \in Nat : \E f : IsReading(f, text, n)}
<1>1. 0 \in S
  <2> DEFINE f == [n \in 0..0 |-> NoLines]
  <2>1. f = [n \in 0..0 |-> IF n = 0 THEN NoLines ELSE AfterPiece(f[n - 1], text[n])]
    OBVIOUS
  <2> QED BY <2>1 DEF IsReading
<1>2. ASSUME NEW n \in S PROVE n + 1 \in S
  <2>1. n \in Nat
    OBVIOUS
  <2>2. PICK f : IsReading(f, text, n)
    OBVIOUS
  <2> DEFINE g == [k \in 0..n + 1 |-> IF k = n + 1 THEN AfterPiece(f[n], text[n + 1]) ELSE f[k]]
  <2>3. \A k \in 0..n : f[k] = IF k = 0 THEN NoLines ELSE AfterPiece(f[k - 1], text[k])
    BY <2>2 DEF IsReading
  <2>4. ASSUME NEW k \in 0..n + 1
        PROVE  g[k] = IF k = 0 THEN NoLines ELSE AfterPiece(g[k - 1], text[k])
    <3>1. CASE k = n + 1
      <4>1. k # 0 /\ k - 1 = n /\ n \in 0..n + 1 /\ n # n + 1
        BY <2>1, <3>1
      <4>2. g[k] = AfterPiece(f[n], text[n + 1]) /\ g[n] = f[n]
        BY <3>1, <4>1
      <4> QED BY <3>1, <4>1, <4>2
    <3>2. CASE k # n + 1
      <4>1. k \in 0..n /\ g[k] = f[k]
        BY <2>1, <3>2
      <4>2. k # 0 => k - 1 \in 0..n + 1 /\ k - 1 # n + 1
        BY <2>1, <4>1
      <4>3. k # 0 => g[k - 1] = f[k - 1]
        BY <4>2
      <4> QED BY <2>3, <4>1, <4>3
    <3> QED BY <3>1, <3>2
  <2>5. IsReading(g, text, n + 1)
    <3>1. g = [k \in 0..n + 1 |-> g[k]]
      OBVIOUS
    <3> HIDE DEF g
    <3> QED BY <2>4, <3>1 DEF IsReading
  <2> HIDE DEF g
  <2> QED BY <2>1, <2>5
<1>3. S = Nat
  <2> HIDE DEF S
  <2>1. S \in SUBSET Nat
    BY DEF S
  <2> QED BY <1>1, <1>2, <2>1, Counting
<1> QED BY <1>3

LEMMA LinesRead ==
    ASSUME NEW text \in Seq(Piece)
    PROVE  \E f : IsReading(f, text, Len(text)) /\ Lines(text) = f[Len(text)]
<1> DEFINE g == CHOOSE f : f = [n \in 0..Len(text) |->
                    IF n = 0 THEN NoLines ELSE AfterPiece(f[n - 1], text[n])]
<1>1. IsReading(g, text, Len(text))
  <2>0. Len(text) \in Nat
    BY LenProperties
  <2>1. \E f : f = [n \in 0..Len(text) |-> IF n = 0 THEN NoLines ELSE AfterPiece(f[n - 1], text[n])]
    BY <2>0, ReadingExists DEF IsReading
  <2> QED BY <2>1 DEF IsReading
<1>2. Lines(text) = g[Len(text)]
  BY DEF Lines
<1> QED BY <1>1, <1>2

LEMMA LinesOfNothing == Lines(<<>>) = NoLines
<1>1. <<>> \in Seq(Piece) /\ Len(<<>>) = 0
  BY EmptySeq
<1>2. PICK f : IsReading(f, <<>>, 0) /\ Lines(<<>>) = f[0]
  BY <1>1, LinesRead
<1> QED BY <1>2 DEF IsReading

LEMMA LinesOfAppended ==
    ASSUME NEW t \in Seq(Piece), NEW x \in Piece
    PROVE  Lines(Append(t, x)) = AfterPiece(Lines(t), x)
<1> DEFINE u == Append(t, x)
           m == Len(t)
<1>1. m \in Nat /\ u \in Seq(Piece) /\ Len(u) = m + 1 /\ u[m + 1] = x
      /\ \A i \in 1..m : u[i] = t[i]
  BY AppendProperties, LenProperties
<1> HIDE DEF u, m
<1>2. PICK f : IsReading(f, t, m) /\ Lines(t) = f[m]
  BY LinesRead DEF m
<1>3. PICK g : IsReading(g, u, m + 1) /\ Lines(u) = g[m + 1]
  BY <1>1, LinesRead
<1>4. \A k \in 0..m : f[k] = IF k = 0 THEN NoLines ELSE AfterPiece(f[k - 1], t[k])
  BY <1>2 DEF IsReading
<1>5. \A k \in 0..m + 1 : g[k] = IF k = 0 THEN NoLines ELSE AfterPiece(g[k - 1], u[k])
  BY <1>3 DEF IsReading
<1> DEFINE S == {k \in Nat : k <= m => f[k] = g[k]}
<1>6. 0 \in S
  BY <1>1, <1>4, <1>5
<1>7. ASSUME NEW k \in S PROVE k + 1 \in S
  <2> SUFFICES ASSUME k + 1 <= m PROVE f[k + 1] = g[k + 1]
    OBVIOUS
  <2>1. /\ k \in Nat /\ k + 1 \in 0..m /\ k + 1 \in 0..m + 1 /\ k + 1 # 0 /\ (k + 1) - 1 = k
        /\ k + 1 \in 1..m /\ f[k] = g[k]
    BY <1>1
  <2>2. f[k + 1] = AfterPiece(f[k], t[k + 1])
    BY <1>4, <2>1
  <2>3. g[k + 1] = AfterPiece(g[k], u[k + 1])
    BY <1>5, <2>1
  <2>4. u[k + 1] = t[k + 1]
    BY <1>1, <2>1
  <2> QED BY <2>1, <2>2, <2>3, <2>4
<1>8. S = Nat
  <2> HIDE DEF S
  <2>1. S \in SUBSET Nat
    BY DEF S
  <2> QED BY <1>6, <1>7, <2>1, Counting
<1>9. f[m] = g[m]
  BY <1>1, <1>8
<1>10. g[m + 1] = AfterPiece(g[m], u[m + 1])
  <2>1. m + 1 \in 0..m + 1 /\ m + 1 # 0 /\ (m + 1) - 1 = m
    BY <1>1
  <2> QED BY <1>5, <2>1
<1> QED BY <1>1, <1>2, <1>3, <1>9, <1>10 DEF u

LinesType == [lines : Seq(TextLine), rest : Seq(Piece \ {"nl"})]

(* The rest of a text has no newline, and so completes no line by itself.  *)
LEMMA LinesTyped ==
    ASSUME NEW text \in Seq(Piece)
    PROVE  Lines(text) \in LinesType
<1> DEFINE S == {t \in Seq(Piece) : Lines(t) \in LinesType}
<1>1. <<>> \in S
  <2>1. /\ <<>> \in Seq(Piece) /\ <<>> \in Seq(TextLine) /\ <<>> \in Seq(Piece \ {"nl"})
    BY EmptySeq
  <2>2. NoLines \in LinesType
    BY <2>1 DEF NoLines, LinesType
  <2> QED BY <2>1, <2>2, LinesOfNothing
<1>2. ASSUME NEW t \in S, NEW x \in Piece PROVE Append(t, x) \in S
  <2>1. Append(t, x) \in Seq(Piece) /\ Lines(Append(t, x)) = AfterPiece(Lines(t), x)
    BY LinesOfAppended
  <2>2. \A acc \in LinesType : AfterPiece(acc, x) \in LinesType
    <3> SUFFICES ASSUME NEW acc \in LinesType PROVE AfterPiece(acc, x) \in LinesType
      OBVIOUS
    <3>1. /\ acc.lines \in Seq(TextLine) /\ acc.rest \in Seq(Piece \ {"nl"})
          /\ acc.rest \in Seq(Piece)
      BY DEF LinesType
    <3>2. CASE x # "nl"
      <4>1. Append(acc.rest, x) \in Seq(Piece \ {"nl"})
        BY <3>1, <3>2
      <4> QED BY <3>1, <3>2, <4>1 DEF AfterPiece, LinesType
    <3>3. CASE x = "nl"
      <4>1. Append(acc.lines, acc.rest) \in Seq(TextLine) /\ <<>> \in Seq(Piece \ {"nl"})
        BY <3>1 DEF TextLine
      <4> QED BY <3>1, <3>3, <4>1 DEF AfterPiece, LinesType
    <3> QED BY <3>2, <3>3
  <2> QED BY <2>1, <2>2
<1>3. S = Seq(Piece)
  <2> HIDE DEF S
  <2>1. S \in SUBSET Seq(Piece)
    BY DEF S
  <2> QED BY <1>1, <1>2, <2>1, Appending
<1> QED BY <1>3

LEMMA LinesOfRest ==
    ASSUME NEW r \in Seq(Piece \ {"nl"})
    PROVE  Lines(r) = [lines |-> <<>>, rest |-> r]
<1> DEFINE S == {t \in Seq(Piece) :
                    t \in Seq(Piece \ {"nl"}) => Lines(t) = [lines |-> <<>>, rest |-> t]}
<1>1. <<>> \in S
  BY LinesOfNothing, EmptySeq DEF NoLines
<1>2. ASSUME NEW t \in S, NEW x \in Piece PROVE Append(t, x) \in S
  <2>1. Append(t, x) \in Seq(Piece) /\ Lines(Append(t, x)) = AfterPiece(Lines(t), x)
    BY LinesOfAppended
  <2>2. ASSUME Append(t, x) \in Seq(Piece \ {"nl"})
        PROVE  t \in Seq(Piece \ {"nl"}) /\ x # "nl"
    <3> DEFINE u == Append(t, x)
               m == Len(t)
    <3>1. /\ m \in Nat /\ Len(u) = m + 1 /\ u[m + 1] = x /\ \A i \in 1..m : u[i] = t[i]
      BY AppendProperties, LenProperties
    <3>2. u \in Seq(Piece \ {"nl"})
      BY <2>2
    <3> HIDE DEF u, m
    <3>3. \A i \in 1..m + 1 : u[i] \in Piece \ {"nl"}
      BY <3>1, <3>2, ElementOfSeq
    <3>4. \A i \in 1..m : t[i] \in Piece \ {"nl"}
      BY <3>1, <3>3
    <3>5. t \in Seq(Piece \ {"nl"})
      BY <3>1, <3>4 DEF m
    <3>6. x # "nl"
      BY <3>1, <3>3
    <3> QED BY <3>5, <3>6
  <2>3. ASSUME Append(t, x) \in Seq(Piece \ {"nl"})
        PROVE  Lines(Append(t, x)) = [lines |-> <<>>, rest |-> Append(t, x)]
    <3>1. Lines(t) = [lines |-> <<>>, rest |-> t] /\ x # "nl"
      BY <2>2, <2>3
    <3>2. AfterPiece([lines |-> <<>>, rest |-> t], x) = [lines |-> <<>>, rest |-> Append(t, x)]
      BY <3>1 DEF AfterPiece
    <3> QED BY <2>1, <3>1, <3>2
  <2> QED BY <2>1, <2>3
<1>3. S = Seq(Piece)
  <2> HIDE DEF S
  <2>1. S \in SUBSET Seq(Piece)
    BY DEF S
  <2> QED BY <1>1, <1>2, <2>1, Appending
<1>4. r \in Seq(Piece)
  OBVIOUS
<1> QED BY <1>3, <1>4

LEMMA PieceCompletes ==
    ASSUME NEW l \in Seq(TextLine), NEW a \in LinesType, NEW b \in LinesType,
           a.lines = l \o b.lines, a.rest = b.rest, NEW x \in Piece
    PROVE  /\ AfterPiece(a, x).lines = l \o AfterPiece(b, x).lines
           /\ AfterPiece(a, x).rest = AfterPiece(b, x).rest
<1>1. PICK k \in Seq(TextLine), y \in Seq(Piece \ {"nl"}) : b = [lines |-> k, rest |-> y]
  BY DEF LinesType
<1>2. y \in Seq(Piece) /\ y \in TextLine /\ b.lines = k /\ b.rest = y
  BY <1>1 DEF TextLine
<1>3. a = [lines |-> l \o k, rest |-> y]
  BY <1>2 DEF LinesType
<1>4. CASE x # "nl"
  <2>1. /\ AfterPiece(a, x) = [lines |-> l \o k, rest |-> Append(y, x)]
        /\ AfterPiece(b, x) = [lines |-> k, rest |-> Append(y, x)]
    BY <1>1, <1>3, <1>4 DEF AfterPiece
  <2> QED BY <2>1
<1>5. CASE x = "nl"
  <2>1. Append(l \o k, y) = l \o Append(k, y)
    BY <1>2, AppendLineConcat, Zenon
  <2>2. /\ AfterPiece(a, x) = [lines |-> IF y = <<>> THEN l \o k ELSE Append(l \o k, y),
                               rest |-> <<>>]
        /\ AfterPiece(b, x) = [lines |-> IF y = <<>> THEN k ELSE Append(k, y), rest |-> <<>>]
    BY <1>1, <1>3, <1>5 DEF AfterPiece
  <2>3. CASE y = <<>>
    <3>1. AfterPiece(a, x) = [lines |-> l \o k, rest |-> <<>>]
      BY <2>2, <2>3
    <3>2. AfterPiece(b, x) = [lines |-> k, rest |-> <<>>]
      BY <2>2, <2>3
    <3> QED BY <3>1, <3>2
  <2>4. CASE y # <<>>
    <3>1. AfterPiece(a, x) = [lines |-> Append(l \o k, y), rest |-> <<>>]
      BY <2>2, <2>4
    <3>2. AfterPiece(b, x) = [lines |-> Append(k, y), rest |-> <<>>]
      BY <2>2, <2>4
    <3>3. AfterPiece(a, x).lines = Append(l \o k, y) /\ AfterPiece(a, x).rest = <<>>
      BY <3>1
    <3>4. AfterPiece(b, x).lines = Append(k, y) /\ AfterPiece(b, x).rest = <<>>
      BY <3>2
    <3> QED BY <2>1, <3>3, <3>4, Zenon
  <2> QED BY <2>3, <2>4
<1> QED BY <1>4, <1>5

(* The lines of a text do not depend on where it is cut.                   *)
LEMMA LinesOfConcat ==
    ASSUME NEW p \in Seq(Piece), NEW c \in Seq(Piece)
    PROVE  /\ Lines(p \o c).lines = Lines(p).lines \o Lines(Lines(p).rest \o c).lines
           /\ Lines(p \o c).rest = Lines(Lines(p).rest \o c).rest
<1> DEFINE L == Lines(p).lines
           r == Lines(p).rest
           Holds(t) == /\ Lines(p \o t).lines = L \o Lines(r \o t).lines
                       /\ Lines(p \o t).rest = Lines(r \o t).rest
           S == {t \in Seq(Piece) : Holds(t)}
<1>0. L \in Seq(TextLine) /\ r \in Seq(Piece) /\ r \in Seq(Piece \ {"nl"})
  BY LinesTyped DEF LinesType
<1> HIDE DEF L, r
<1>1. <<>> \in S
  <2>1. p \o <<>> = p /\ r \o <<>> = r /\ L \o <<>> = L /\ <<>> \in Seq(Piece)
    BY <1>0, ConcatEmptySeq, EmptySeq
  <2>2. Lines(r).lines = <<>> /\ Lines(r).rest = r
    BY <1>0, LinesOfRest
  <2> QED BY <2>1, <2>2 DEF L, r
<1>2. ASSUME NEW t \in S, NEW x \in Piece PROVE Append(t, x) \in S
  <2>0. t \in Seq(Piece) /\ Holds(t) /\ Append(t, x) \in Seq(Piece)
    BY AppendProperties
  <2>1. p \o Append(t, x) = Append(p \o t, x) /\ r \o Append(t, x) = Append(r \o t, x)
    <3>1. r \in Seq(Piece) /\ t \in Seq(Piece)
      BY <1>0, <2>0
    <3> QED BY <3>1, AppendPieceConcat, Zenon
  <2>2. p \o t \in Seq(Piece) /\ r \o t \in Seq(Piece)
    BY <1>0, <2>0, ConcatProperties
  <2> DEFINE a == Lines(p \o t)
             b == Lines(r \o t)
  <2>3. /\ Lines(p \o Append(t, x)) = AfterPiece(a, x)
        /\ Lines(r \o Append(t, x)) = AfterPiece(b, x)
    BY <2>1, <2>2, LinesOfAppended
  <2>4. a \in LinesType /\ b \in LinesType /\ a.lines = L \o b.lines /\ a.rest = b.rest
    BY <2>0, <2>2, LinesTyped
  <2> HIDE DEF a, b
  <2>6. /\ AfterPiece(a, x).lines = L \o AfterPiece(b, x).lines
        /\ AfterPiece(a, x).rest = AfterPiece(b, x).rest
    BY <1>0, <2>4, PieceCompletes
  <2>7. Holds(Append(t, x))
    BY <2>3, <2>6
  <2> QED BY <2>0, <2>7
<1>3. S = Seq(Piece)
  <2> HIDE DEF S, Holds
  <2>1. S \in SUBSET Seq(Piece)
    BY DEF S
  <2> QED BY <1>1, <1>2, <2>1, Appending
<1>4. Holds(c)
  BY <1>3
<1> QED BY <1>4 DEF L, r

(* Of the last lines, and those that follow, the last ones.                *)
LEMMA LastLinesConcat ==
    ASSUME NEW T, NEW a \in Seq(T), NEW b \in Seq(T)
    PROVE  LastLines(LastLines(a) \o b) = LastLines(a \o b)
<1>0. ContextLines \in Nat /\ ContextLines >= 1
  BY ContextAssumption
<1>1. ASSUME NEW s \in Seq(T)
      PROVE  \E d \in 0..Len(s) :
                /\ d = (IF Len(s) <= ContextLines THEN 0 ELSE Len(s) - ContextLines)
                /\ LastLines(s) \in Seq(T) /\ Len(LastLines(s)) = Len(s) - d
                /\ \A i \in 1..Len(s) - d : LastLines(s)[i] = s[d + i]
  <2>1. Len(s) \in Nat
    BY LenProperties
  <2>2. CASE Len(s) <= ContextLines
    <3>1. LastLines(s) = s
      BY <2>2 DEF LastLines
    <3>2. 0 \in 0..Len(s) /\ Len(s) = Len(s) - 0 /\ \A i \in 1..Len(s) - 0 : s[i] = s[0 + i]
      BY <2>1
    <3> QED BY <2>2, <3>1, <3>2
  <2>3. CASE ~(Len(s) <= ContextLines)
    <3> DEFINE d == Len(s) - ContextLines
    <3>1. d \in 0..Len(s) /\ d \in Nat /\ d + 1 \in Int /\ Len(s) \in Int /\ d + 1 <= Len(s)
      BY <1>0, <2>1, <2>3
    <3>2. LastLines(s) = SubSeq(s, d + 1, Len(s))
      BY <2>3 DEF LastLines
    <3> HIDE DEF d
    <3>3. \A i \in d + 1..Len(s) : s[i] \in T
      BY <2>1, <3>1, ElementOfSeq
    <3> DEFINE m == d + 1
    <3>4. m \in Int /\ \A i \in m..Len(s) : s[i] \in T
      BY <3>1, <3>3
    <3> HIDE DEF m
    <3>5. /\ SubSeq(s, m, Len(s)) \in Seq(T)
          /\ Len(SubSeq(s, m, Len(s))) = IF m <= Len(s) THEN Len(s) - m + 1 ELSE 0
          /\ \A i \in 1..Len(s) - m + 1 : SubSeq(s, m, Len(s))[i] = s[m + i - 1]
      BY <3>1, <3>4, SubSeqProperties
    <3>6. /\ LastLines(s) = SubSeq(s, m, Len(s)) /\ m <= Len(s)
          /\ Len(s) - m + 1 = Len(s) - d /\ \A i \in Int : m + i - 1 = d + i
      BY <2>1, <3>1, <3>2 DEF m
    <3>7. /\ LastLines(s) \in Seq(T) /\ Len(LastLines(s)) = Len(s) - d
          /\ \A i \in 1..Len(s) - d : LastLines(s)[i] = s[d + i]
      <4>1. Len(LastLines(s)) = Len(s) - d
        BY <3>5, <3>6
      <4>2. \A i \in 1..Len(s) - d : LastLines(s)[i] = s[m + i - 1]
        BY <3>5, <3>6
      <4>3. \A i \in 1..Len(s) - d : m + i - 1 = d + i
        BY <3>1, <3>6
      <4> QED BY <3>5, <3>6, <4>1, <4>2, <4>3
    <3>8. d = (IF Len(s) <= ContextLines THEN 0 ELSE Len(s) - ContextLines)
      BY <2>3 DEF d
    <3> QED BY <3>1, <3>7, <3>8
  <2> QED BY <2>2, <2>3
<1>2. PICK d \in 0..Len(a) :
                /\ d = (IF Len(a) <= ContextLines THEN 0 ELSE Len(a) - ContextLines)
                /\ LastLines(a) \in Seq(T) /\ Len(LastLines(a)) = Len(a) - d
                /\ \A i \in 1..Len(a) - d : LastLines(a)[i] = a[d + i]
  BY <1>1
<1> DEFINE l == LastLines(a)
           c == a \o b
           s == l \o b
<1>3. /\ Len(a) \in Nat /\ Len(b) \in Nat /\ d \in Nat /\ l \in Seq(T) /\ Len(l) = Len(a) - d
      /\ \A i \in 1..Len(a) - d : l[i] = a[d + i]
  BY <1>2, LenProperties
<1> HIDE DEF l
<1>4. /\ c \in Seq(T) /\ Len(c) = Len(a) + Len(b)
      /\ \A i \in 1..Len(a) + Len(b) : c[i] = IF i <= Len(a) THEN a[i] ELSE b[i - Len(a)]
  BY ConcatProperties
<1>5. /\ s \in Seq(T) /\ Len(s) = Len(l) + Len(b)
      /\ \A i \in 1..Len(l) + Len(b) : s[i] = IF i <= Len(l) THEN l[i] ELSE b[i - Len(l)]
  BY <1>3, ConcatProperties
<1> HIDE DEF c, s
<1>6. Len(s) = Len(c) - d /\ Len(c) \in Nat /\ Len(s) \in Nat
  BY <1>3, <1>4, <1>5, LenProperties
<1>7. ASSUME NEW i \in 1..Len(s) PROVE s[i] = c[d + i]
  <2>0. i \in 1..Len(l) + Len(b) /\ d + i \in 1..Len(a) + Len(b)
    BY <1>3, <1>4, <1>5, <1>6
  <2>1. CASE i <= Len(l)
    <3>1. i \in 1..Len(a) - d /\ d + i <= Len(a)
      BY <1>3, <2>0, <2>1
    <3> QED BY <2>0, <2>1, <3>1, <1>3, <1>4, <1>5
  <2>2. CASE ~(i <= Len(l))
    <3>1. ~(d + i <= Len(a)) /\ (d + i) - Len(a) = i - Len(l)
      BY <1>3, <2>0, <2>2
    <3> QED BY <2>0, <2>2, <3>1, <1>4, <1>5
  <2> QED BY <2>1, <2>2
<1>8. PICK e \in 0..Len(s) :
                /\ e = (IF Len(s) <= ContextLines THEN 0 ELSE Len(s) - ContextLines)
                /\ LastLines(s) \in Seq(T) /\ Len(LastLines(s)) = Len(s) - e
                /\ \A i \in 1..Len(s) - e : LastLines(s)[i] = s[e + i]
  BY <1>1, <1>5
<1>9. PICK f \in 0..Len(c) :
                /\ f = (IF Len(c) <= ContextLines THEN 0 ELSE Len(c) - ContextLines)
                /\ LastLines(c) \in Seq(T) /\ Len(LastLines(c)) = Len(c) - f
                /\ \A i \in 1..Len(c) - f : LastLines(c)[i] = c[f + i]
  BY <1>1, <1>4
<1>10. f = d + e /\ e \in Nat /\ f \in Nat
  <2>1. Len(c) = Len(a) + Len(b) /\ Len(s) = Len(a) + Len(b) - d
    BY <1>4, <1>6
  <2>2. d = (IF Len(a) <= ContextLines THEN 0 ELSE Len(a) - ContextLines)
    BY <1>2
  <2>3. e = (IF Len(s) <= ContextLines THEN 0 ELSE Len(s) - ContextLines)
    BY <1>8
  <2>4. f = (IF Len(c) <= ContextLines THEN 0 ELSE Len(c) - ContextLines)
    BY <1>9
  <2>5. Len(a) \in Nat /\ Len(b) \in Nat /\ d \in Nat
    BY <1>3
  <2>6. e = (IF Len(a) + Len(b) - d <= ContextLines THEN 0
             ELSE (Len(a) + Len(b) - d) - ContextLines)
    BY <2>1, <2>3
  <2>7. f = (IF Len(a) + Len(b) <= ContextLines THEN 0 ELSE Len(a) + Len(b) - ContextLines)
    BY <1>0, <2>1, <2>4, <2>5
  <2>8. f = d + e
    <3>1. CASE Len(a) <= ContextLines
      BY <1>0, <2>2, <2>5, <2>6, <2>7, <3>1
    <3>2. CASE ~(Len(a) <= ContextLines)
      <4>1. d = Len(a) - ContextLines
        BY <2>2, <3>2
      <4>2. e = IF Len(b) <= 0 THEN 0 ELSE Len(b)
        BY <1>0, <2>5, <2>6, <4>1
      <4>3. f = Len(a) + Len(b) - ContextLines
        BY <1>0, <2>5, <2>7, <3>2
      <4> QED BY <1>0, <2>5, <4>1, <4>2, <4>3
    <3> QED BY <3>1, <3>2
  <2>9. e \in Nat
    BY <1>6
  <2> QED BY <2>5, <2>8, <2>9
<1>11. Len(LastLines(s)) = Len(LastLines(c)) /\ Len(s) - e = Len(c) - f
  <2>0. Len(s) = Len(c) - d /\ Len(c) \in Nat /\ f = d + e /\ d \in Nat /\ e \in Nat
    BY <1>3, <1>6, <1>10
  <2>1. Len(s) - e = Len(c) - f
    BY <2>0
  <2> QED BY <2>1, <1>8, <1>9
<1>12. ASSUME NEW i \in 1..Len(LastLines(s)) PROVE LastLines(s)[i] = LastLines(c)[i]
  <2>1. i \in 1..Len(s) - e /\ i \in 1..Len(c) - f /\ e + i \in 1..Len(s) /\ d + (e + i) = f + i
    <3>1. Len(s) \in Nat /\ d \in Nat /\ e \in Nat /\ f = d + e
      BY <1>3, <1>6, <1>10
    <3>2. i \in 1..Len(s) - e /\ i \in 1..Len(c) - f
      BY <1>8, <1>11
    <3>3. e + i \in 1..Len(s) /\ d + (e + i) = f + i
      BY <3>1, <3>2
    <3> QED BY <3>2, <3>3
  <2>2. LastLines(s)[i] = s[e + i] /\ LastLines(c)[i] = c[f + i]
    BY <1>8, <1>9, <2>1
  <2>3. s[e + i] = c[d + (e + i)]
    BY <1>7, <2>1
  <2> QED BY <2>1, <2>2, <2>3
<1>13. LastLines(s) = LastLines(c)
  BY <1>8, <1>9, <1>11, <1>12, SeqEqual
<1> QED BY <1>13 DEF s, c, l

(* The output shared, of what has been relayed and where it has been torn. *)
HalfOf(r, t, i) ==
    \/ r[i] = "char<" /\ (i \in t \/ i = Len(r) \/ r[i + 1] # "char>")
    \/ r[i] = "char>" /\ (i = 1 \/ i - 1 \in t \/ r[i - 1] # "char<")

SharedOf(r, t) == [i \in 1..Len(r) |-> IF HalfOf(r, t, i) THEN "?" ELSE r[i]]

(* A character that the output ends within has been noted.                 *)
IsNoted(r, t) ==
    /\ t \subseteq Nat /\ \A k \in t : k <= Len(r)
    /\ r # <<>> /\ r[Len(r)] = "char<" => Len(r) \in t

ContextFollows == relayed \in Seq(Piece) /\ IsNoted(relayed, torn) /\ ContextIsOutput

IsShared(f, r, t) ==
    /\ f \in Seq(Piece) /\ Len(f) = Len(r)
    /\ \A i \in 1..Len(r) : f[i] = (IF HalfOf(r, t, i) THEN "?" ELSE r[i])

LEMMA SharedIs == Shared = SharedOf(relayed, torn)
  BY DEF Shared, SharedOf, Half, HalfOf

LEMMA SharedTyped ==
    ASSUME NEW r \in Seq(Piece), NEW t
    PROVE  IsShared(SharedOf(r, t), r, t)
<1> DEFINE n == Len(r)
           f == SharedOf(r, t)
<1>1. n \in Nat /\ \A i \in 1..n : r[i] \in Piece
  BY LenProperties, ElementOfSeq
<1>2. "?" \in Piece
  BY DEF Piece
<1>3. \A i \in 1..n : (IF HalfOf(r, t, i) THEN "?" ELSE r[i]) \in Piece
  BY <1>1, <1>2
<1>4. f = [i \in 1..n |-> IF HalfOf(r, t, i) THEN "?" ELSE r[i]]
  BY DEF SharedOf
<1> HIDE DEF n, f
<1>5. f \in [1..n -> Piece] /\ DOMAIN f = 1..n
  BY <1>3, <1>4, Zenon
<1>6. f \in Seq(Piece)
  BY <1>1, <1>5, FunctionIsSequence
<1>7. Len(f) = n
  BY <1>1, <1>5, <1>6, LenProperties
<1> QED BY <1>4, <1>6, <1>7 DEF n, f, IsShared

(* Half of a character, in a chunk by itself.                              *)
Lone(c, k) ==
    \/ c[k] = "char<" /\ (k = Len(c) \/ c[k + 1] # "char>")
    \/ c[k] = "char>" /\ (k = 1 \/ c[k - 1] # "char<")

LEMMA DecodeTyped ==
    ASSUME NEW c \in Seq(Piece)
    PROVE  /\ Decode(c) \in Seq(Piece) /\ Len(Decode(c)) = Len(c)
           /\ \A k \in 1..Len(c) : Decode(c)[k] = (IF Lone(c, k) THEN "?" ELSE c[k])
<1> DEFINE n == Len(c)
<1>1. n \in Nat /\ \A i \in 1..n : c[i] \in Piece
  BY LenProperties, ElementOfSeq
<1>2. "?" \in Piece
  BY DEF Piece
<1>3. \A k \in 1..n : (IF Lone(c, k) THEN "?" ELSE c[k]) \in Piece
  BY <1>1, <1>2
<1>4. Decode(c) = [k \in 1..n |-> IF Lone(c, k) THEN "?" ELSE c[k]]
  BY DEF Decode, Lone
<1> HIDE DEF n
<1>5. Decode(c) \in [1..n -> Piece] /\ DOMAIN Decode(c) = 1..n
  BY <1>3, <1>4, Zenon
<1>6. Decode(c) \in Seq(Piece)
  BY <1>1, <1>5, FunctionIsSequence
<1>7. Len(Decode(c)) = n
  BY <1>1, <1>5, <1>6, LenProperties
<1> QED BY <1>4, <1>6, <1>7 DEF n

TornBy(t, c, q) == t \cup (IF Last(c) = "char<" THEN {Len(q)} ELSE {})

(* What is shared of one more chunk is what is shown of that chunk: half a *)
(* character at its ends is one whatever comes before or after.            *)
LEMMA SharedGrows ==
    ASSUME NEW r \in Seq(Piece), NEW t, IsNoted(r, t), NEW c \in Seq(Piece), c # <<>>,
           NEW q, q = r \o c, NEW u, u = TornBy(t, c, q)
    PROVE  SharedOf(q, u) = SharedOf(r, t) \o Decode(c) /\ IsNoted(q, u)
<1> DEFINE n == Len(r)
           m == Len(c)
<1>1. /\ n \in Nat /\ m \in Nat /\ m >= 1 /\ q \in Seq(Piece) /\ Len(q) = n + m
      /\ \A i \in 1..n : q[i] = r[i]
      /\ \A k \in 1..m : q[n + k] = c[k]
  BY ConcatOf, EmptySeq, LenProperties
<1>2. /\ t \subseteq Nat /\ \A k \in t : k <= n
      /\ n # 0 /\ r[n] = "char<" => n \in t
  BY EmptySeq DEF IsNoted
<1>3. /\ u = t \cup (IF c[m] = "char<" THEN {n + m} ELSE {})
  BY <1>1 DEF Last, TornBy
<1>4. \A k \in Nat : k < n + m => (k \in u <=> k \in t)
  BY <1>1, <1>3
<1>5. n + m \in u <=> c[m] = "char<"
  BY <1>1, <1>2, <1>3
<1>len. Len(r) = n /\ Len(c) = m
  OBVIOUS
<1> HIDE DEF n, m
<1>6. IsNoted(q, u)
  <2>1. u \subseteq Nat /\ \A k \in u : k <= n + m
    BY <1>1, <1>2, <1>3
  <2>2. q[n + m] = c[m]
    BY <1>1
  <2> QED BY <2>1, <2>2, <1>1, <1>5 DEF IsNoted
<1>7. ASSUME NEW i \in 1..n PROVE HalfOf(q, u, i) <=> HalfOf(r, t, i)
  <2>1. q[i] = r[i] /\ i \in Nat /\ i < n + m
    BY <1>1
  <2>2. (/\ q[i] = "char<"
         /\ (i \in u \/ i = n + m \/ q[i + 1] # "char>"))
        <=> (r[i] = "char<" /\ (i \in t \/ i = n \/ r[i + 1] # "char>"))
    <3>1. CASE i = n
      <4>1. r[i] = "char<" => i \in t /\ i \in u
        BY <1>1, <1>2, <1>3, <3>1
      <4> QED BY <4>1, <2>1, <3>1
    <3>2. CASE i # n
      <4>1. i + 1 \in 1..n /\ i # n + m
        BY <1>1, <3>2
      <4> QED BY <4>1, <2>1, <3>2, <1>1, <1>4
    <3> QED BY <3>1, <3>2
  <2>3. (/\ q[i] = "char>"
         /\ (i = 1 \/ i - 1 \in u \/ q[i - 1] # "char<"))
        <=> (r[i] = "char>" /\ (i = 1 \/ i - 1 \in t \/ r[i - 1] # "char<"))
    <3>1. CASE i # 1
      <4>1. i - 1 \in 1..n /\ i - 1 \in Nat /\ i - 1 < n + m
        BY <1>1, <3>1
      <4> QED BY <4>1, <2>1, <1>1, <1>4
    <3> QED BY <3>1, <2>1
  <2> QED BY <2>2, <2>3, <1>1, <1>len DEF HalfOf
<1>8. ASSUME NEW k \in 1..m PROVE HalfOf(q, u, n + k) <=> Lone(c, k)
  <2>1. q[n + k] = c[k]
    BY <1>1
  <2>2. (/\ q[n + k] = "char<"
         /\ (n + k \in u \/ n + k = n + m \/ q[n + k + 1] # "char>"))
        <=> (c[k] = "char<" /\ (k = m \/ c[k + 1] # "char>"))
    <3>1. CASE k = m
      BY <2>1, <3>1
    <3>2. CASE k # m
      <4>1. /\ k + 1 \in 1..m /\ n + k + 1 = n + (k + 1) /\ n + k \in Nat /\ n + k < n + m
            /\ ~(n + k <= n)
        BY <1>1, <3>2
      <4>2. n + k \notin u /\ q[n + k + 1] = c[k + 1] /\ n + k # n + m
        BY <4>1, <1>1, <1>2, <1>4
      <4> QED BY <4>2, <2>1, <3>2
    <3> QED BY <3>1, <3>2
  <2>3. (/\ q[n + k] = "char>"
         /\ (n + k = 1 \/ (n + k) - 1 \in u \/ q[(n + k) - 1] # "char<"))
        <=> (c[k] = "char>" /\ (k = 1 \/ c[k - 1] # "char<"))
    <3>1. CASE k = 1
      <4>1. n # 0 => n \in 1..n /\ (n + k) - 1 = n
        BY <1>1, <3>1
      <4>2. n # 0 /\ q[n] = "char<" => n \in u
        BY <4>1, <1>1, <1>2, <1>3
      <4>3. n + k = 1 \/ (n + k) - 1 \in u \/ q[(n + k) - 1] # "char<"
        BY <4>1, <4>2, <1>1, <3>1
      <4> QED BY <4>3, <2>1, <3>1
    <3>2. CASE k # 1
      <4>1. /\ k - 1 \in 1..m /\ (n + k) - 1 = n + (k - 1) /\ (n + k) - 1 \in Nat
            /\ (n + k) - 1 < n + m /\ ~((n + k) - 1 <= n) /\ n + k # 1
        BY <1>1, <3>2
      <4>2. (n + k) - 1 \notin u /\ q[(n + k) - 1] = c[k - 1]
        BY <4>1, <1>1, <1>2, <1>4
      <4> QED BY <4>1, <4>2, <2>1, <3>2
    <3> QED BY <3>1, <3>2
  <2>4. Len(q) = n + m
    BY <1>1
  <2>5. HalfOf(q, u, n + k) <=>
           \/ /\ q[n + k] = "char<"
              /\ (n + k \in u \/ n + k = n + m \/ q[n + k + 1] # "char>")
           \/ /\ q[n + k] = "char>"
              /\ (n + k = 1 \/ (n + k) - 1 \in u \/ q[(n + k) - 1] # "char<")
    BY <2>4, Zenon DEF HalfOf
  <2>6. Lone(c, k) <=>
           \/ c[k] = "char<" /\ (k = m \/ c[k + 1] # "char>")
           \/ c[k] = "char>" /\ (k = 1 \/ c[k - 1] # "char<")
    BY <1>len, Zenon DEF Lone
  <2> QED BY <2>2, <2>3, <2>5, <2>6, Zenon
<1>9. /\ SharedOf(r, t) \in Seq(Piece) /\ Len(SharedOf(r, t)) = n
      /\ \A i \in 1..n : SharedOf(r, t)[i] = (IF HalfOf(r, t, i) THEN "?" ELSE r[i])
  <2>1. IsShared(SharedOf(r, t), r, t)
    BY SharedTyped
  <2> QED BY <2>1, <1>len, Zenon DEF IsShared
<1>10. /\ SharedOf(q, u) \in Seq(Piece) /\ Len(SharedOf(q, u)) = n + m
       /\ \A i \in 1..n + m : SharedOf(q, u)[i] = (IF HalfOf(q, u, i) THEN "?" ELSE q[i])
  <2>1. q \in Seq(Piece) /\ Len(q) = n + m
    BY <1>1
  <2>2. IsShared(SharedOf(q, u), q, u)
    BY <2>1, SharedTyped, Zenon
  <2> QED BY <2>1, <2>2, Zenon DEF IsShared
<1>11. /\ Decode(c) \in Seq(Piece) /\ Len(Decode(c)) = m
       /\ \A k \in 1..m : Decode(c)[k] = (IF Lone(c, k) THEN "?" ELSE c[k])
  BY <1>len, DecodeTyped
<1> DEFINE old == SharedOf(r, t)
           new == SharedOf(q, u)
           d == Decode(c)
<1>12. /\ old \o d \in Seq(Piece) /\ Len(old \o d) = n + m
       /\ \A i \in 1..n : (old \o d)[i] = old[i]
       /\ \A k \in 1..m : (old \o d)[n + k] = d[k]
  <2>1. /\ old \o d \in Seq(Piece) /\ Len(old \o d) = Len(old) + Len(d)
        /\ \A i \in 1..Len(old) : (old \o d)[i] = old[i]
        /\ \A k \in 1..Len(d) : (old \o d)[Len(old) + k] = d[k]
    BY <1>9, <1>11, ConcatOf
  <2> QED BY <2>1, <1>9, <1>11
<1>13. ASSUME NEW i \in 1..n + m PROVE new[i] = (old \o d)[i]
  <2>1. CASE i <= n
    <3>1. i \in 1..n
      BY <1>1, <2>1
    <3>2. /\ new[i] = (IF HalfOf(q, u, i) THEN "?" ELSE q[i])
          /\ old[i] = (IF HalfOf(r, t, i) THEN "?" ELSE r[i])
          /\ (old \o d)[i] = old[i] /\ q[i] = r[i]
      BY <3>1, <1>1, <1>9, <1>10, <1>12
    <3>3. HalfOf(q, u, i) <=> HalfOf(r, t, i)
      BY <3>1, <1>7
    <3> HIDE DEF new, old, d
    <3> QED BY <3>2, <3>3, Zenon
  <2>2. CASE ~(i <= n)
    <3> DEFINE k == i - n
    <3>1. k \in 1..m /\ i = n + k
      BY <1>1, <2>2
    <3> HIDE DEF k
    <3>2. new[n + k] = (IF Lone(c, k) THEN "?" ELSE c[k])
      <4>1. n + k \in 1..n + m /\ q[n + k] = c[k]
        BY <3>1, <1>1
      <4>2. new[n + k] = (IF HalfOf(q, u, n + k) THEN "?" ELSE q[n + k])
        BY <4>1, <1>10
      <4>3. HalfOf(q, u, n + k) <=> Lone(c, k)
        BY <3>1, <1>8
      <4> HIDE DEF new
      <4> QED BY <4>1, <4>2, <4>3, Zenon
    <3>3. (old \o d)[n + k] = (IF Lone(c, k) THEN "?" ELSE c[k])
      BY <3>1, <1>11, <1>12
    <3> QED BY <3>1, <3>2, <3>3
  <2> QED BY <2>1, <2>2
<1>14. new = old \o d
  <2> HIDE DEF new, old, d
  <2>1. new \in Seq(Piece) /\ Len(new) = n + m
    BY <1>10 DEF new
  <2> QED BY <2>1, <1>12, <1>13, SeqEqual
<1> QED BY <1>6, <1>14

Grows(r, t, c) ==
    /\ SharedOf(r \o c, TornBy(t, c, r \o c)) = SharedOf(r, t) \o Decode(c)
    /\ IsNoted(r \o c, TornBy(t, c, r \o c))

LEMMA SharedGrowsOf ==
    \A r \in Seq(Piece), c \in Seq(Piece) : \A t : IsNoted(r, t) /\ c # <<>> => Grows(r, t, c)
  BY SharedGrows DEF Grows

LEMMA ContextStays ==
    ASSUME ContextFollows, UNCHANGED <<context, torn>>
    PROVE  ContextFollows'
<1>1. relayed' = relayed /\ torn' = torn /\ outputLines' = outputLines /\ partial' = partial
  BY DEF context
<1>2. Shared' = Shared
  BY <1>1 DEF Shared, Half
<1> QED BY <1>1, <1>2 DEF ContextFollows, ContextIsOutput

LEMMA ContextOfOutput ==
    ASSUME IInv, ContextFollows, HandleOutput
    PROVE  ContextFollows'
<1>1. PICK n \in 1..Len(pty) :
         \/ SuppressEcho(SubSeq(pty, 1, n))
         \/ AskForPassword(SubSeq(pty, 1, n))
         \/ PassOutput(SubSeq(pty, 1, n))
  BY DEF HandleOutput
<1>2. PICK c \in Seq(Piece) :
         c # <<>> /\ (SuppressEcho(c) \/ AskForPassword(c) \/ PassOutput(c))
  <2>1. pty \in Seq(Piece) /\ n \in 0..Len(pty) /\ n # 0
    BY DEF IInv, Types
  <2>2. SubSeq(pty, 1, n) \in Seq(Piece) /\ SubSeq(pty, 1, n) # <<>>
    BY <2>1, PrefixOf, EmptySeq
  <2> QED BY <1>1, <2>2
<1>3. CASE UNCHANGED <<context, torn>>
  BY <1>3, ContextStays
<1>4. CASE PassOutput(c)
  <2> DEFINE old == Lines(Shared)
             new == Lines(old.rest \o Decode(c))
             all == Lines(Shared \o Decode(c))
  <2>1. /\ relayed \in Seq(Piece) /\ outputLines = LastLines(old.lines) /\ partial = old.rest
        /\ old.lines \in Seq(TextLine) /\ old.rest \in Seq(Piece)
    <3>1. old \in LinesType
      BY SharedIs, SharedTyped, LinesTyped DEF ContextFollows, IsShared
    <3>2. old.lines \in Seq(TextLine) /\ old.rest \in Seq(Piece \ {"nl"})
      BY <3>1 DEF LinesType
    <3>3. old.rest \in Seq(Piece)
      BY <3>2
    <3> QED BY <3>2, <3>3 DEF ContextFollows, ContextIsOutput
  <2>2. relayed' = relayed \o c /\ relayed' \in Seq(Piece)
    BY <1>4, <2>1, ConcatOf DEF PassOutput
  <2>shared. /\ Shared \in Seq(Piece) /\ Decode(c) \in Seq(Piece)
             /\ Shared' = Shared \o Decode(c) /\ IsNoted(relayed, torn)'
    <3>1. torn' = torn \cup (IF Last(c) = "char<" THEN {Len(relayed')} ELSE {})
      BY <1>4 DEF PassOutput
    <3>torn. torn' = TornBy(torn, c, relayed')
      BY <3>1 DEF TornBy
    <3>2. IsNoted(relayed, torn)
      BY DEF ContextFollows
    <3>3. /\ SharedOf(relayed', torn') = SharedOf(relayed, torn) \o Decode(c)
          /\ IsNoted(relayed', torn')
      <4>1. relayed \in Seq(Piece) /\ c # <<>> /\ relayed' = relayed \o c
        BY <1>2, <2>1, <2>2
      <4>2. Grows(relayed, torn, c)
        BY <4>1, <3>2, SharedGrowsOf, Zenon
      <4> QED BY <4>1, <4>2, <3>torn, Zenon DEF Grows
    <3>4. Shared = SharedOf(relayed, torn) /\ Shared' = SharedOf(relayed', torn')
      BY DEF Shared, SharedOf, Half, HalfOf
    <3>5. SharedOf(relayed, torn) \in Seq(Piece)
      BY <2>1, SharedTyped DEF IsShared
    <3> QED BY <3>3, <3>4, <3>5, DecodeTyped
  <2>3. outputLines' = LastLines(outputLines \o new.lines) /\ partial' = new.rest
    BY <1>4, <2>1 DEF PassOutput, Accumulate, WithPartial
  <2>4. all.lines = old.lines \o new.lines /\ all.rest = new.rest
    BY <2>shared, LinesOfConcat
  <2>5. new.lines \in Seq(TextLine)
    <3>1. old.rest \o Decode(c) \in Seq(Piece)
      BY <2>1, <2>shared, ConcatOf
    <3> QED BY <3>1, LinesTyped DEF LinesType
  <2>6. Lines(Shared') = all
    BY <2>shared
  <2> HIDE DEF old, new, all
  <2>7. LastLines(LastLines(old.lines) \o new.lines) = LastLines(old.lines \o new.lines)
    BY <2>1, <2>5, LastLinesConcat
  <2>8. outputLines' = LastLines(all.lines) /\ partial' = all.rest
    BY <2>1, <2>3, <2>4, <2>7
  <2> QED BY <2>2, <2>shared, <2>6, <2>8 DEF ContextFollows, ContextIsOutput, LastLines
<1> QED BY <1>2, <1>3, <1>4 DEF SuppressEcho, AskForPassword, context

(* The lines given to the model as context are the last lines of the       *)
(* output shared, however it has been cut into chunks, but for the halves  *)
(* of a character that has been cut (terminal_session.py:507-517).         *)
THEOREM ContextFollowsOutput == Spec => []ContextIsOutput
<1>1. Init => ContextFollows
  <2> SUFFICES ASSUME Init PROVE ContextFollows
    OBVIOUS
  <2>1. outputLines = <<>> /\ partial = <<>> /\ relayed = <<>> /\ relayed \in Seq(Piece)
    BY EmptySeq DEF Init
  <2>2. Lines(Shared) = NoLines /\ IsNoted(relayed, torn)
    <3>1. Shared = <<>>
      BY <2>1, SharedIs, SharedTyped, EmptySeq DEF IsShared
    <3> QED BY <3>1, <2>1, LinesOfNothing DEF Init, IsNoted
  <2>3. LastLines(<<>>) = <<>>
    <3>1. Len(<<>>) = 0 /\ 0 <= ContextLines
      BY ContextAssumption
    <3> QED BY <3>1 DEF LastLines
  <2> QED BY <2>1, <2>2, <2>3 DEF ContextFollows, ContextIsOutput, NoLines
<1>2. IInv /\ ContextFollows /\ [Next]_vars => ContextFollows'
  <2> SUFFICES ASSUME IInv, ContextFollows, [Next]_vars PROVE ContextFollows'
    OBVIOUS
  <2>1. CASE Keyboard \/ Shell \/ UNCHANGED vars
    <3>1. UNCHANGED <<context, torn>>
      BY <2>1 DEF Keyboard, Edit, Interrupt, Enter, PassThrough, Shell, vars, ghosts
    <3> QED BY <3>1, ContextStays
  <2> QED BY <2>1, ContextOfOutput DEF Next
<1>3. Spec => []ContextFollows
  BY <1>1, <1>2, Invariance, PTL DEF Spec
<1> QED BY <1>3, PTL DEF ContextFollows

-----------------------------------------------------------------------------
(* The row of the editor.                                                  *)

(* What Display computes, byte by byte.                                    *)
IsShowing(f, r, bytes, m) ==
    f = [n \in 0..m |-> IF n = 0 THEN r ELSE Put(f[n - 1], bytes[n])]

LEMMA ShowingExists ==
    ASSUME NEW r, NEW bytes, NEW m \in Nat
    PROVE  \E f : IsShowing(f, r, bytes, m)
<1> DEFINE S == {n \in Nat : \E f : IsShowing(f, r, bytes, n)}
<1>1. 0 \in S
  <2> DEFINE f == [n \in 0..0 |-> r]
  <2>1. f = [n \in 0..0 |-> IF n = 0 THEN r ELSE Put(f[n - 1], bytes[n])]
    OBVIOUS
  <2> QED BY <2>1 DEF IsShowing
<1>2. ASSUME NEW n \in S PROVE n + 1 \in S
  <2>1. n \in Nat
    OBVIOUS
  <2>2. PICK f : IsShowing(f, r, bytes, n)
    OBVIOUS
  <2> DEFINE g == [k \in 0..n + 1 |-> IF k = n + 1 THEN Put(f[n], bytes[n + 1]) ELSE f[k]]
  <2>3. \A k \in 0..n : f[k] = IF k = 0 THEN r ELSE Put(f[k - 1], bytes[k])
    BY <2>2 DEF IsShowing
  <2>4. ASSUME NEW k \in 0..n + 1
        PROVE  g[k] = IF k = 0 THEN r ELSE Put(g[k - 1], bytes[k])
    <3>1. CASE k = n + 1
      <4>1. k # 0 /\ k - 1 = n /\ n \in 0..n + 1 /\ n # n + 1
        BY <2>1, <3>1
      <4>2. g[k] = Put(f[n], bytes[n + 1]) /\ g[n] = f[n]
        BY <3>1, <4>1
      <4> QED BY <3>1, <4>1, <4>2
    <3>2. CASE k # n + 1
      <4>1. k \in 0..n /\ g[k] = f[k]
        BY <2>1, <3>2
      <4>2. k # 0 => k - 1 \in 0..n + 1 /\ k - 1 # n + 1
        BY <2>1, <4>1
      <4>3. k # 0 => g[k - 1] = f[k - 1]
        BY <4>2
      <4> QED BY <2>3, <4>1, <4>3
    <3> QED BY <3>1, <3>2
  <2>5. IsShowing(g, r, bytes, n + 1)
    <3>1. g = [k \in 0..n + 1 |-> g[k]]
      OBVIOUS
    <3> HIDE DEF g
    <3> QED BY <2>4, <3>1 DEF IsShowing
  <2> HIDE DEF g
  <2> QED BY <2>1, <2>5
<1>3. S = Nat
  <2> HIDE DEF S
  <2>1. S \in SUBSET Nat
    BY DEF S
  <2> QED BY <1>1, <1>2, <2>1, Counting
<1> QED BY <1>3

LEMMA Displayed ==
    ASSUME NEW r, NEW T, NEW bytes \in Seq(T)
    PROVE  \E f : IsShowing(f, r, bytes, Len(bytes)) /\ Display(r, bytes) = f[Len(bytes)]
<1> DEFINE g == CHOOSE f : f = [n \in 0..Len(bytes) |->
                    IF n = 0 THEN r ELSE Put(f[n - 1], bytes[n])]
<1>1. IsShowing(g, r, bytes, Len(bytes))
  <2>0. Len(bytes) \in Nat
    BY LenProperties
  <2>1. \E f : IsShowing(f, r, bytes, Len(bytes))
    BY <2>0, ShowingExists, Zenon
  <2>2. \E f : f = [n \in 0..Len(bytes) |-> IF n = 0 THEN r ELSE Put(f[n - 1], bytes[n])]
    BY <2>1 DEF IsShowing
  <2> QED BY <2>2 DEF IsShowing
<1>2. Display(r, bytes) = g[Len(bytes)]
  BY DEF Display
<1> QED BY <1>1, <1>2

LEMMA DisplayNothing == ASSUME NEW r PROVE Display(r, <<>>) = r
<1>1. <<>> \in Seq({}) /\ Len(<<>>) = 0
  BY EmptySeq
<1>2. PICK f : IsShowing(f, r, <<>>, 0) /\ Display(r, <<>>) = f[0]
  BY <1>1, Displayed
<1> QED BY <1>2 DEF IsShowing

LEMMA DisplayAppended ==
    ASSUME NEW r, NEW T, NEW t \in Seq(T), NEW x \in T
    PROVE  Display(r, Append(t, x)) = Put(Display(r, t), x)
<1> DEFINE u == Append(t, x)
           m == Len(t)
<1>1. m \in Nat /\ u \in Seq(T) /\ Len(u) = m + 1 /\ u[m + 1] = x
      /\ \A i \in 1..m : u[i] = t[i]
  BY AppendProperties, LenProperties
<1> HIDE DEF u, m
<1>2. PICK f : IsShowing(f, r, t, m) /\ Display(r, t) = f[m]
  BY Displayed DEF m
<1>3. PICK g : IsShowing(g, r, u, m + 1) /\ Display(r, u) = g[m + 1]
  BY <1>1, Displayed
<1>4. \A k \in 0..m : f[k] = IF k = 0 THEN r ELSE Put(f[k - 1], t[k])
  BY <1>2 DEF IsShowing
<1>5. \A k \in 0..m + 1 : g[k] = IF k = 0 THEN r ELSE Put(g[k - 1], u[k])
  BY <1>3 DEF IsShowing
<1> DEFINE S == {k \in Nat : k <= m => f[k] = g[k]}
<1>6. 0 \in S
  BY <1>1, <1>4, <1>5
<1>7. ASSUME NEW k \in S PROVE k + 1 \in S
  <2> SUFFICES ASSUME k + 1 <= m PROVE f[k + 1] = g[k + 1]
    OBVIOUS
  <2>1. /\ k \in Nat /\ k + 1 \in 0..m /\ k + 1 \in 0..m + 1 /\ k + 1 # 0 /\ (k + 1) - 1 = k
        /\ k + 1 \in 1..m /\ f[k] = g[k]
    BY <1>1
  <2>2. f[k + 1] = Put(f[k], t[k + 1])
    BY <1>4, <2>1
  <2>3. g[k + 1] = Put(g[k], u[k + 1])
    BY <1>5, <2>1
  <2>4. u[k + 1] = t[k + 1]
    BY <1>1, <2>1
  <2> QED BY <2>1, <2>2, <2>3, <2>4
<1>8. S = Nat
  <2> HIDE DEF S
  <2>1. S \in SUBSET Nat
    BY DEF S
  <2> QED BY <1>6, <1>7, <2>1, Counting
<1>9. f[m] = g[m]
  BY <1>1, <1>8
<1>10. g[m + 1] = Put(g[m], u[m + 1])
  <2>1. m + 1 \in 0..m + 1 /\ m + 1 # 0 /\ (m + 1) - 1 = m
    BY <1>1
  <2> QED BY <1>5, <2>1
<1> QED BY <1>1, <1>2, <1>3, <1>9, <1>10 DEF u

LEMMA AppendConcat ==
    \A T : \A s, t \in Seq(T) : \A x \in T : Append(s \o t, x) = s \o Append(t, x)
  OBVIOUS

(* What is written in two parts is shown in two parts.                     *)
LEMMA DisplayConcat ==
    ASSUME NEW r, NEW T, NEW s \in Seq(T), NEW t \in Seq(T)
    PROVE  Display(r, s \o t) = Display(Display(r, s), t)
<1> DEFINE S == {u \in Seq(T) : Display(r, s \o u) = Display(Display(r, s), u)}
<1>1. <<>> \in S
  <2>1. <<>> \in Seq(T) /\ s \o <<>> = s
    BY EmptySeq, ConcatEmptySeq
  <2> QED BY <2>1, DisplayNothing
<1>2. ASSUME NEW u \in S, NEW x \in T PROVE Append(u, x) \in S
  <2>1. u \in Seq(T) /\ Append(u, x) \in Seq(T) /\ s \o u \in Seq(T)
    BY AppendProperties, ConcatProperties
  <2>2. s \o Append(u, x) = Append(s \o u, x)
    BY <2>1, AppendConcat
  <2>3. Display(r, Append(s \o u, x)) = Put(Display(r, s \o u), x)
    <3> DEFINE v == s \o u
    <3>1. v \in Seq(T)
      BY <2>1
    <3> HIDE DEF v
    <3>2. Display(r, Append(v, x)) = Put(Display(r, v), x)
      BY <3>1, DisplayAppended
    <3> QED BY <3>2 DEF v
  <2>4. Display(Display(r, s), Append(u, x)) = Put(Display(Display(r, s), u), x)
    BY <2>1, DisplayAppended
  <2> QED BY <2>1, <2>2, <2>3, <2>4
<1>3. S = Seq(T)
  <2> HIDE DEF S
  <2>1. S \in SUBSET Seq(T)
    BY DEF S
  <2> QED BY <1>1, <1>2, <2>1, Appending
<1> QED BY <1>3

LEMMA Repeated ==
    ASSUME NEW T, NEW x \in T, NEW n \in Int
    PROVE  /\ [i \in 1..n |-> x] \in Seq(T)
           /\ Len([i \in 1..n |-> x]) = IF n > 0 THEN n ELSE 0
<1> DEFINE m == IF n > 0 THEN n ELSE 0
           f == [i \in 1..n |-> x]
<1>1. m \in Nat /\ 1..n = 1..m
  OBVIOUS
<1>2. f \in [1..m -> T]
  BY <1>1
<1>3. f \in Seq(T)
  BY <1>1, <1>2, SeqDef
<1>4. DOMAIN f = 1..m /\ DOMAIN f = 1..Len(f) /\ Len(f) \in Nat
  BY <1>1, <1>3, LenProperties
<1>5. Len(f) = m
  <2> HIDE DEF f, m
  <2> QED BY <1>1, <1>4
<1> QED BY <1>3, <1>5

LEMMA TimesOneMore ==
    ASSUME NEW T, NEW x \in T, NEW n \in Nat
    PROVE  /\ Times(n, x) \in Seq(T) /\ Len(Times(n, x)) = n
           /\ \A i \in 1..n : Times(n, x)[i] = x
           /\ Times(n + 1, x) = Append(Times(n, x), x)
<1>1. /\ Times(n, x) \in Seq(T) /\ Len(Times(n, x)) = n
      /\ \A i \in 1..n : Times(n, x)[i] = x
  BY Repeated DEF Times
<1>2. /\ Times(n + 1, x) \in Seq(T) /\ Len(Times(n + 1, x)) = n + 1
      /\ \A i \in 1..n + 1 : Times(n + 1, x)[i] = x
  BY Repeated DEF Times
<1>3. /\ Append(Times(n, x), x) \in Seq(T) /\ Len(Append(Times(n, x), x)) = n + 1
      /\ \A i \in 1..n : Append(Times(n, x), x)[i] = Times(n, x)[i]
      /\ Append(Times(n, x), x)[n + 1] = x
  BY <1>1, AppendProperties
<1>4. \A i \in 1..n + 1 : Append(Times(n, x), x)[i] = x
  BY <1>1, <1>3
<1> QED BY <1>1, <1>2, <1>3, <1>4, SeqEqual

(* A byte that a terminal shows as a character.                            *)
IsCharacter(b) == b \notin Continuation \cup {"backspace", "left", "right", "nl"}

Row(C, k) == [cells |-> C, col |-> k]

(* The cells C with the characters of t from column k on.                  *)
Over(C, k, t) ==
    [i \in 1..(IF k + Len(t) < Len(C) THEN Len(C) ELSE k + Len(t)) |->
        IF k < i /\ i <= k + Len(t) THEN <<t[i - k]>> ELSE C[i]]

AreCells(B, T) == \A b \in B : <<b>> \in T

Covers(D, T, C, k, t) ==
    /\ D \in Seq(T)
    /\ Len(D) = IF k + Len(t) < Len(C) THEN Len(C) ELSE k + Len(t)
    /\ k + Len(t) \in 0..Len(D)
    /\ \A i \in 1..Len(D) :
          D[i] = IF k < i /\ i <= k + Len(t) THEN <<t[i - k]>> ELSE C[i]

LEMMA OverCells ==
    ASSUME NEW T, NEW C \in Seq(T), NEW k \in 0..Len(C), NEW B, NEW t \in Seq(B),
           AreCells(B, T)
    PROVE  Covers(Over(C, k, t), T, C, k, t)
<1> DEFINE n == IF k + Len(t) < Len(C) THEN Len(C) ELSE k + Len(t)
           D == Over(C, k, t)
<1>1. Len(C) \in Nat /\ Len(t) \in Nat /\ k \in Nat /\ k <= Len(C)
  BY LenProperties
<1>2. n \in Nat
  BY <1>1
<1>3. D = [i \in 1..n |-> IF k < i /\ i <= k + Len(t) THEN <<t[i - k]>> ELSE C[i]]
  BY DEF Over
<1> HIDE DEF D
<1>4. ASSUME NEW i \in 1..n PROVE D[i] \in T
  <2>1. CASE k < i /\ i <= k + Len(t)
    <3>1. i - k \in 1..Len(t)
      BY <1>1, <2>1
    <3>2. t[i - k] \in B
      BY <3>1, ElementOfSeq
    <3>3. <<t[i - k]>> \in T
      BY <3>2 DEF AreCells
    <3> QED BY <1>3, <2>1, <3>3
  <2>2. CASE ~(k < i /\ i <= k + Len(t))
    <3>1. i \in 1..Len(C)
      BY <1>1, <2>2
    <3>2. C[i] \in T
      BY <3>1, ElementOfSeq
    <3> QED BY <1>3, <2>2, <3>2
  <2> QED BY <2>1, <2>2
<1>5. D \in [1..n -> T] /\ DOMAIN D = 1..n
  BY <1>3, <1>4
<1>6. D \in Seq(T)
  BY <1>2, <1>5, FunctionIsSequence, Zenon
<1>7. Len(D) = n
  <2>1. DOMAIN D = 1..Len(D) /\ Len(D) \in Nat
    BY <1>6, LenProperties
  <2> HIDE DEF n
  <2> QED BY <1>2, <1>5, <2>1
<1>8. k + Len(t) \in 0..n
  BY <1>1
<1> QED BY <1>3, <1>6, <1>7, <1>8 DEF D, Covers

(* A character fills the cell of the column.                               *)
LEMMA PutCharacter ==
    ASSUME NEW T, NEW C \in Seq(T), NEW k \in 0..Len(C), NEW b,
           IsCharacter(b), <<b>> \in T, Blank \in T
    PROVE  Put(Row(C, k), b) = Row(Over(C, k, <<b>>), k + 1)
<1> DEFINE P == [i \in 1..(k + 1 - Len(C)) |-> Blank]
           wide == C \o P
           D == [wide EXCEPT ![k + 1] = <<b>>]
           E == Over(C, k, <<b>>)
<1>1. Len(C) \in Nat /\ k \in Nat
  BY LenProperties
<1>2. P \in Seq(T) /\ Len(P) = IF k < Len(C) THEN 0 ELSE 1
  <2>1. k + 1 - Len(C) \in Int /\ (k + 1 - Len(C) > 0 <=> ~(k < Len(C)))
        /\ (~(k < Len(C)) => k + 1 - Len(C) = 1)
    BY <1>1
  <2>2. P \in Seq(T) /\ Len(P) = IF k + 1 - Len(C) > 0 THEN k + 1 - Len(C) ELSE 0
    BY <2>1, Repeated
  <2> HIDE DEF P
  <2> QED BY <2>1, <2>2
<1> HIDE DEF P
<1>3. /\ wide \in Seq(T) /\ Len(wide) = IF k + 1 < Len(C) THEN Len(C) ELSE k + 1
      /\ \A i \in 1..Len(C) : wide[i] = C[i]
  <2>1. /\ wide \in Seq(T) /\ Len(wide) = Len(C) + Len(P)
        /\ \A i \in 1..Len(C) + Len(P) : wide[i] = IF i <= Len(C) THEN C[i] ELSE P[i - Len(C)]
    BY <1>2, ConcatProperties
  <2> HIDE DEF wide
  <2>2. Len(wide) = IF k + 1 < Len(C) THEN Len(C) ELSE k + 1
    BY <1>1, <1>2, <2>1
  <2>3. \A i \in 1..Len(C) : i \in 1..Len(C) + Len(P) /\ i <= Len(C)
    BY <1>1, <1>2
  <2> QED BY <2>1, <2>2, <2>3
<1>4. Put(Row(C, k), b) = Row(D, k + 1)
  BY DEF Put, P, IsCharacter, Row
<1> HIDE DEF wide
<1>5. k + 1 \in 1..Len(wide)
  BY <1>1, <1>3
<1>6. /\ D \in Seq(T) /\ Len(D) = Len(wide)
      /\ \A j \in 1..Len(wide) : D[j] = IF j = k + 1 THEN <<b>> ELSE wide[j]
  BY <1>3, <1>5, ExceptSeq
<1>7. <<b>> \in Seq({b}) /\ Len(<<b>>) = 1 /\ <<b>>[1] = b /\ \A x \in {b} : <<x>> \in T
  OBVIOUS
<1>8. /\ E \in Seq(T) /\ Len(E) = IF k + 1 < Len(C) THEN Len(C) ELSE k + 1
      /\ \A i \in 1..Len(E) : E[i] = IF k < i /\ i <= k + 1 THEN <<<<b>>[i - k]>> ELSE C[i]
  <2> DEFINE t == <<b>>
             B == {b}
  <2>1. t \in Seq(B) /\ Len(t) = 1 /\ AreCells(B, T)
    BY <1>7 DEF AreCells
  <2> HIDE DEF t, B
  <2>2. Covers(Over(C, k, t), T, C, k, t)
    BY <2>1, OverCells
  <2> QED BY <2>1, <2>2 DEF t, Covers
<1> HIDE DEF D, E
<1>9. ASSUME NEW i \in 1..Len(E) PROVE D[i] = E[i]
  <2>0. i \in 1..Len(wide)
    BY <1>3, <1>8
  <2>1. CASE i = k + 1
    <3>1. k < i /\ i <= k + 1 /\ i - k = 1
      BY <1>1, <2>1
    <3> QED BY <1>6, <1>7, <1>8, <2>0, <2>1, <3>1
  <2>2. CASE i # k + 1
    <3>1. ~(k < i /\ i <= k + 1) /\ i \in 1..Len(C)
      BY <1>1, <1>8, <2>2
    <3> QED BY <1>3, <1>6, <1>8, <2>0, <2>2, <3>1
  <2> QED BY <2>1, <2>2
<1>10. D = E
  BY <1>3, <1>6, <1>8, <1>9, SeqEqual
<1> QED BY <1>4, <1>10 DEF E

LEMMA OverNothing ==
    ASSUME NEW T, NEW C \in Seq(T), NEW k \in 0..Len(C)
    PROVE  Over(C, k, <<>>) = C
<1> DEFINE D == Over(C, k, <<>>)
<1>1. <<>> \in Seq({}) /\ Len(<<>>) = 0 /\ AreCells({}, T)
  BY EmptySeq DEF AreCells
<1>2. Covers(D, T, C, k, <<>>)
  BY <1>1, OverCells
<1>3. Len(C) \in Nat /\ k \in Nat /\ k <= Len(C)
  BY LenProperties
<1> HIDE DEF D
<1>4. D \in Seq(T) /\ Len(D) = Len(C)
  BY <1>1, <1>2, <1>3 DEF Covers
<1>5. ASSUME NEW i \in 1..Len(D) PROVE D[i] = C[i]
  <2>1. ~(k < i /\ i <= k + Len(<<>>))
    BY <1>1, <1>3
  <2> QED BY <1>2, <2>1 DEF Covers
<1>6. D = C
  BY <1>4, <1>5, SeqEqual
<1> QED BY <1>6 DEF D

LEMMA OverOneMore ==
    ASSUME NEW T, NEW C \in Seq(T), NEW k \in 0..Len(C),
           NEW B, NEW u \in Seq(B), NEW x \in B, AreCells(B, T)
    PROVE  Over(Over(C, k, u), k + Len(u), <<x>>) = Over(C, k, Append(u, x))
<1> DEFINE v == Append(u, x)
           w == <<x>>
           m == Len(u)
           h == k + m
           D == Over(C, k, u)
           E == Over(D, h, w)
           F == Over(C, k, v)
<1>1. /\ v \in Seq(B) /\ Len(v) = m + 1 /\ v[m + 1] = x /\ m \in Nat
      /\ \A i \in 1..m : v[i] = u[i]
  BY AppendProperties, LenProperties
<1>2. w \in Seq(B) /\ Len(w) = 1 /\ w[1] = x
  OBVIOUS
<1>3. Len(C) \in Nat /\ k \in Nat /\ k <= Len(C) /\ h = k + m
  BY LenProperties
<1> HIDE DEF v, w, m, h
<1>4. Covers(D, T, C, k, u)
  BY OverCells
<1> HIDE DEF D
<1>5. D \in Seq(T) /\ h \in 0..Len(D)
  BY <1>4 DEF Covers, h, m
<1>6. Covers(E, T, D, h, w)
  BY <1>2, <1>5, OverCells
<1>7. Covers(F, T, C, k, v)
  BY <1>1, OverCells
<1> HIDE DEF E, F
<1>8. /\ Len(D) = IF k + m < Len(C) THEN Len(C) ELSE k + m
      /\ \A i \in 1..Len(D) : D[i] = IF k < i /\ i <= k + m THEN <<u[i - k]>> ELSE C[i]
  BY <1>4 DEF Covers, m
<1>9. /\ E \in Seq(T) /\ Len(E) = IF h + 1 < Len(D) THEN Len(D) ELSE h + 1
      /\ \A i \in 1..Len(E) : E[i] = IF h < i /\ i <= h + 1 THEN <<w[i - h]>> ELSE D[i]
  BY <1>2, <1>6 DEF Covers
<1>10. /\ F \in Seq(T)
       /\ Len(F) = IF k + (m + 1) < Len(C) THEN Len(C) ELSE k + (m + 1)
       /\ \A i \in 1..Len(F) : F[i] = IF k < i /\ i <= k + (m + 1) THEN <<v[i - k]>> ELSE C[i]
  BY <1>1, <1>7 DEF Covers
<1>11. Len(E) = Len(F) /\ Len(E) \in Nat
  BY <1>1, <1>3, <1>8, <1>9, <1>10
<1>12. ASSUME NEW i \in 1..Len(E) PROVE E[i] = F[i]
  <2>0. i \in 1..Len(F) /\ i \in Nat
    BY <1>11
  <2>1. CASE i = h + 1
    <3>1. h < i /\ i <= h + 1 /\ i - h = 1
      BY <1>1, <1>3, <2>1
    <3>2. k < i /\ i <= k + (m + 1) /\ i - k = m + 1
      BY <1>1, <1>3, <2>1
    <3>3. E[i] = <<w[1]>>
      BY <1>9, <3>1
    <3>4. F[i] = <<v[m + 1]>>
      BY <1>10, <2>0, <3>2
    <3> QED BY <1>1, <1>2, <3>3, <3>4
  <2>2. CASE i # h + 1
    <3>1. ~(h < i /\ i <= h + 1) /\ i \in 1..Len(D)
      BY <1>1, <1>3, <1>8, <1>9, <1>11, <2>2
    <3>2. E[i] = IF k < i /\ i <= k + m THEN <<u[i - k]>> ELSE C[i]
      BY <1>8, <1>9, <3>1
    <3>3. CASE k < i /\ i <= k + m
      <4>1. i - k \in 1..m /\ i <= k + (m + 1)
        BY <1>1, <1>3, <2>0, <3>3
      <4>2. F[i] = <<v[i - k]>>
        BY <1>10, <2>0, <3>3, <4>1
      <4>3. v[i - k] = u[i - k]
        BY <1>1, <4>1
      <4> QED BY <3>2, <3>3, <4>2, <4>3
    <3>4. CASE ~(k < i /\ i <= k + m)
      <4>1. ~(k < i /\ i <= k + (m + 1))
        BY <1>1, <1>3, <2>0, <2>2, <3>4
      <4> QED BY <1>10, <2>0, <3>2, <3>4, <4>1
    <3> QED BY <3>3, <3>4
  <2> QED BY <2>1, <2>2
<1>13. E = F
  BY <1>9, <1>10, <1>11, <1>12, SeqEqual
<1> QED BY <1>13 DEF E, F, D, h, m, w, v

(* The characters of a text fill the cells from the column on.             *)
LEMMA DisplayText ==
    ASSUME NEW T, NEW C \in Seq(T), NEW k \in 0..Len(C), NEW B, NEW t \in Seq(B),
           Blank \in T, AreCells(B, T), \A b \in B : IsCharacter(b)
    PROVE  Display(Row(C, k), t) = Row(Over(C, k, t), k + Len(t))
<1> DEFINE S == {u \in Seq(B) : Display(Row(C, k), u) = Row(Over(C, k, u), k + Len(u))}
<1>0. k \in Nat
  OBVIOUS
<1>1. <<>> \in S
  <2>1. <<>> \in Seq(B) /\ k + Len(<<>>) = k
    BY <1>0, EmptySeq
  <2> QED BY <2>1, DisplayNothing, OverNothing
<1>2. ASSUME NEW u \in S, NEW x \in B PROVE Append(u, x) \in S
  <2> DEFINE D == Over(C, k, u)
             h == k + Len(u)
  <2>1. /\ u \in Seq(B) /\ Append(u, x) \in Seq(B) /\ Len(Append(u, x)) = Len(u) + 1
        /\ Len(u) \in Nat /\ Display(Row(C, k), u) = Row(D, h)
    BY AppendProperties, LenProperties
  <2>2. D \in Seq(T) /\ h \in 0..Len(D)
    BY <2>1, OverCells DEF Covers
  <2>3. Over(D, h, <<x>>) = Over(C, k, Append(u, x))
    BY <2>1, OverOneMore
  <2>4. k + Len(Append(u, x)) = h + 1
    BY <1>0, <2>1
  <2>5. Display(Row(C, k), Append(u, x)) = Put(Display(Row(C, k), u), x)
    BY <2>1, DisplayAppended
  <2> HIDE DEF D, h
  <2>6. Put(Row(D, h), x) = Row(Over(D, h, <<x>>), h + 1)
    <3>1. IsCharacter(x) /\ <<x>> \in T
      BY DEF AreCells
    <3> QED BY <2>2, <3>1, PutCharacter
  <2> QED BY <2>1, <2>3, <2>4, <2>5, <2>6
<1>3. S = Seq(B)
  <2> HIDE DEF S
  <2>1. S \in SUBSET Seq(B)
    BY DEF S
  <2> QED BY <1>1, <1>2, <2>1, Appending
<1> QED BY <1>3

(* Backspaces move the column and change nothing.                          *)
LEMMA DisplayBack ==
    ASSUME NEW C, NEW k \in Nat, NEW n \in 0..k, "backspace" \notin Continuation
    PROVE  Display(Row(C, k), Times(n, "backspace")) = Row(C, k - n)
<1> DEFINE r == Row(C, k)
           S == {m \in Nat : m <= k => Display(r, Times(m, "backspace")) = Row(C, k - m)}
<1>1. 0 \in S
  <2>1. Times(0, "backspace") = <<>>
    <3>1. Times(0, "backspace") \in Seq({"backspace"}) /\ Len(Times(0, "backspace")) = 0
      BY TimesOneMore
    <3> QED BY <3>1, EmptySeq
  <2>2. Display(r, <<>>) = r /\ k - 0 = k
    BY DisplayNothing
  <2> QED BY <2>1, <2>2
<1>2. ASSUME NEW m \in S PROVE m + 1 \in S
  <2> SUFFICES ASSUME m + 1 <= k
               PROVE  Display(r, Times(m + 1, "backspace")) = Row(C, k - (m + 1))
    OBVIOUS
  <2>1. m \in Nat /\ m <= k /\ Display(r, Times(m, "backspace")) = Row(C, k - m)
    OBVIOUS
  <2> HIDE DEF r
  <2>2. /\ Times(m, "backspace") \in Seq({"backspace"})
        /\ Times(m + 1, "backspace") = Append(Times(m, "backspace"), "backspace")
    BY <2>1, TimesOneMore
  <2>3. Display(r, Times(m + 1, "backspace")) = Put(Row(C, k - m), "backspace")
    <3> DEFINE t == Times(m, "backspace")
    <3>1. t \in Seq({"backspace"}) /\ "backspace" \in {"backspace"}
      BY <2>2
    <3> HIDE DEF t
    <3>2. Display(r, Append(t, "backspace")) = Put(Display(r, t), "backspace")
      BY <3>1, DisplayAppended
    <3> QED BY <2>1, <2>2, <3>2 DEF t
  <2>4. Put(Row(C, k - m), "backspace") = Row(C, IF k - m = 0 THEN 0 ELSE (k - m) - 1)
    BY DEF Put, Row
  <2>5. k - m # 0 /\ (k - m) - 1 = k - (m + 1)
    BY <2>1
  <2> QED BY <2>3, <2>4, <2>5
<1>3. S = Nat
  <2> HIDE DEF S
  <2>1. S \in SUBSET Nat
    BY DEF S
  <2> QED BY <1>1, <1>2, <2>1, Counting
<1>4. n \in S /\ n <= k
  BY <1>3
<1> QED BY <1>4

LEMMA DisplayOne == ASSUME NEW r, NEW x PROVE Display(r, <<x>>) = Put(r, x)
<1> DEFINE t == <<>>
<1>1. t \in Seq({x}) /\ x \in {x} /\ Append(t, x) = <<x>>
  OBVIOUS
<1>2. Display(r, t) = r
  BY DisplayNothing
<1> HIDE DEF t
<1>3. Display(r, Append(t, x)) = Put(Display(r, t), x)
  BY <1>1, DisplayAppended
<1> QED BY <1>1, <1>2, <1>3

-----------------------------------------------------------------------------
(* The characters of a text.                                               *)

(* What Characters computes, byte by byte.                                 *)
IsSieve(f, bytes, m) ==
    f = [n \in 0..m |-> IF n = 0 THEN <<>>
                        ELSE IF bytes[n] \in Continuation THEN f[n - 1]
                        ELSE Append(f[n - 1], bytes[n])]

(* A byte that begins a character is a character of the text.              *)
With(t, b) == IF b \in Continuation THEN t ELSE Append(t, b)

LEMMA SieveExists ==
    ASSUME NEW bytes, NEW m \in Nat
    PROVE  \E f : IsSieve(f, bytes, m)
<1> DEFINE S == {n \in Nat : \E f : IsSieve(f, bytes, n)}
<1>1. 0 \in S
  <2> DEFINE f == [n \in 0..0 |-> <<>>]
  <2>1. f = [n \in 0..0 |-> IF n = 0 THEN <<>>
                            ELSE IF bytes[n] \in Continuation THEN f[n - 1]
                            ELSE Append(f[n - 1], bytes[n])]
    OBVIOUS
  <2> QED BY <2>1 DEF IsSieve
<1>2. ASSUME NEW n \in S PROVE n + 1 \in S
  <2>1. n \in Nat
    OBVIOUS
  <2>2. PICK f : IsSieve(f, bytes, n)
    OBVIOUS
  <2> DEFINE g == [k \in 0..n + 1 |-> IF k = n + 1 THEN With(f[n], bytes[n + 1]) ELSE f[k]]
  <2>3. \A k \in 0..n : f[k] = IF k = 0 THEN <<>> ELSE With(f[k - 1], bytes[k])
    BY <2>2 DEF IsSieve, With
  <2>4. ASSUME NEW k \in 0..n + 1
        PROVE  g[k] = IF k = 0 THEN <<>> ELSE With(g[k - 1], bytes[k])
    <3>1. CASE k = n + 1
      <4>1. k # 0 /\ k - 1 = n /\ n \in 0..n + 1 /\ n # n + 1
        BY <2>1, <3>1
      <4>2. g[k] = With(f[n], bytes[n + 1]) /\ g[n] = f[n]
        BY <3>1, <4>1
      <4> QED BY <3>1, <4>1, <4>2
    <3>2. CASE k # n + 1
      <4>1. k \in 0..n /\ g[k] = f[k]
        BY <2>1, <3>2
      <4>2. k # 0 => k - 1 \in 0..n + 1 /\ k - 1 # n + 1
        BY <2>1, <4>1
      <4>3. k # 0 => g[k - 1] = f[k - 1]
        BY <4>2
      <4> QED BY <2>3, <4>1, <4>3
    <3> QED BY <3>1, <3>2
  <2>5. IsSieve(g, bytes, n + 1)
    <3>1. g = [k \in 0..n + 1 |-> g[k]]
      OBVIOUS
    <3> HIDE DEF g
    <3> QED BY <2>4, <3>1 DEF IsSieve, With
  <2> HIDE DEF g
  <2> QED BY <2>1, <2>5
<1>3. S = Nat
  <2> HIDE DEF S
  <2>1. S \in SUBSET Nat
    BY DEF S
  <2> QED BY <1>1, <1>2, <2>1, Counting
<1> QED BY <1>3

LEMMA Sieved ==
    ASSUME NEW T, NEW bytes \in Seq(T)
    PROVE  \E f : IsSieve(f, bytes, Len(bytes)) /\ Characters(bytes) = f[Len(bytes)]
<1> DEFINE g == CHOOSE f : f = [n \in 0..Len(bytes) |->
                    IF n = 0 THEN <<>>
                    ELSE IF bytes[n] \in Continuation THEN f[n - 1]
                    ELSE Append(f[n - 1], bytes[n])]
<1>1. IsSieve(g, bytes, Len(bytes))
  <2>0. Len(bytes) \in Nat
    BY LenProperties
  <2>1. \E f : IsSieve(f, bytes, Len(bytes))
    BY <2>0, SieveExists, Zenon
  <2>2. \E f : f = [n \in 0..Len(bytes) |->
                    IF n = 0 THEN <<>>
                    ELSE IF bytes[n] \in Continuation THEN f[n - 1]
                    ELSE Append(f[n - 1], bytes[n])]
    BY <2>1 DEF IsSieve
  <2> QED BY <2>2 DEF IsSieve
<1>2. Characters(bytes) = g[Len(bytes)]
  BY DEF Characters
<1> QED BY <1>1, <1>2

LEMMA CharactersOfNothing == Characters(<<>>) = <<>>
<1>1. <<>> \in Seq({}) /\ Len(<<>>) = 0
  BY EmptySeq
<1>2. PICK f : IsSieve(f, <<>>, 0) /\ Characters(<<>>) = f[0]
  BY <1>1, Sieved
<1> QED BY <1>2 DEF IsSieve

LEMMA CharactersOfAppended ==
    ASSUME NEW T, NEW t \in Seq(T), NEW x \in T
    PROVE  Characters(Append(t, x)) = With(Characters(t), x)
<1> DEFINE u == Append(t, x)
           m == Len(t)
<1>1. m \in Nat /\ u \in Seq(T) /\ Len(u) = m + 1 /\ u[m + 1] = x
      /\ \A i \in 1..m : u[i] = t[i]
  BY AppendProperties, LenProperties
<1> HIDE DEF u, m
<1>2. PICK f : IsSieve(f, t, m) /\ Characters(t) = f[m]
  BY Sieved DEF m
<1>3. PICK g : IsSieve(g, u, m + 1) /\ Characters(u) = g[m + 1]
  BY <1>1, Sieved
<1>4. \A k \in 0..m : f[k] = IF k = 0 THEN <<>> ELSE With(f[k - 1], t[k])
  BY <1>2 DEF IsSieve, With
<1>5. \A k \in 0..m + 1 : g[k] = IF k = 0 THEN <<>> ELSE With(g[k - 1], u[k])
  BY <1>3 DEF IsSieve, With
<1> DEFINE S == {k \in Nat : k <= m => f[k] = g[k]}
<1>6. 0 \in S
  BY <1>1, <1>4, <1>5
<1>7. ASSUME NEW k \in S PROVE k + 1 \in S
  <2> SUFFICES ASSUME k + 1 <= m PROVE f[k + 1] = g[k + 1]
    OBVIOUS
  <2>1. /\ k \in Nat /\ k + 1 \in 0..m /\ k + 1 \in 0..m + 1 /\ k + 1 # 0 /\ (k + 1) - 1 = k
        /\ k + 1 \in 1..m /\ f[k] = g[k]
    BY <1>1
  <2>2. f[k + 1] = With(f[k], t[k + 1])
    BY <1>4, <2>1
  <2>3. g[k + 1] = With(g[k], u[k + 1])
    BY <1>5, <2>1
  <2>4. u[k + 1] = t[k + 1]
    BY <1>1, <2>1
  <2> QED BY <2>1, <2>2, <2>3, <2>4
<1>8. S = Nat
  <2> HIDE DEF S
  <2>1. S \in SUBSET Nat
    BY DEF S
  <2> QED BY <1>6, <1>7, <2>1, Counting
<1>9. f[m] = g[m]
  BY <1>1, <1>8
<1>10. g[m + 1] = With(g[m], u[m + 1])
  <2>1. m + 1 \in 0..m + 1 /\ m + 1 # 0 /\ (m + 1) - 1 = m
    BY <1>1
  <2> QED BY <1>5, <2>1
<1> QED BY <1>1, <1>2, <1>3, <1>9, <1>10 DEF u

LEMMA CharactersTyped ==
    ASSUME NEW T, NEW t \in Seq(T)
    PROVE  Characters(t) \in Seq(T \ Continuation)
<1> DEFINE S == {u \in Seq(T) : Characters(u) \in Seq(T \ Continuation)}
<1>1. <<>> \in S
  BY CharactersOfNothing, EmptySeq
<1>2. ASSUME NEW u \in S, NEW x \in T PROVE Append(u, x) \in S
  <2>1. /\ u \in Seq(T) /\ Append(u, x) \in Seq(T)
        /\ Characters(Append(u, x)) = With(Characters(u), x)
    BY AppendProperties, CharactersOfAppended
  <2> DEFINE c == Characters(u)
  <2>2. c \in Seq(T \ Continuation)
    OBVIOUS
  <2> HIDE DEF c
  <2>3. With(c, x) \in Seq(T \ Continuation)
    <3>1. CASE x \in Continuation
      BY <2>2, <3>1 DEF With
    <3>2. CASE x \notin Continuation
      <4>1. x \in T \ Continuation
        BY <3>2
      <4>2. Append(c, x) \in Seq(T \ Continuation)
        BY <2>2, <4>1, AppendProperties
      <4> QED BY <3>2, <4>2 DEF With
    <3> QED BY <3>1, <3>2
  <2> QED BY <2>1, <2>3 DEF c
<1>3. S = Seq(T)
  <2> HIDE DEF S
  <2>1. S \in SUBSET Seq(T)
    BY DEF S
  <2> QED BY <1>1, <1>2, <2>1, Appending
<1> QED BY <1>3

WithAfter(v, w, y) == With(v \o w, y) = v \o With(w, y)

LEMMA WithConcat ==
    \A U : \A v, w \in Seq(U) : \A y :
        (y \notin Continuation => y \in U) => WithAfter(v, w, y)
<1> SUFFICES ASSUME NEW U, NEW v \in Seq(U), NEW w \in Seq(U), NEW y,
                    y \notin Continuation => y \in U
             PROVE  With(v \o w, y) = v \o With(w, y)
  BY DEF WithAfter
<1>1. CASE y \in Continuation
  BY <1>1 DEF With
<1>2. CASE y \notin Continuation
  <2>1. Append(v \o w, y) = v \o Append(w, y)
    <3>1. y \in U
      BY <1>2
    <3> QED BY <3>1
  <2> QED BY <1>2, <2>1 DEF With
<1> QED BY <1>1, <1>2

LEMMA CharactersConcat ==
    ASSUME NEW T, NEW s \in Seq(T), NEW t \in Seq(T)
    PROVE  Characters(s \o t) = Characters(s) \o Characters(t)
<1> DEFINE S == {u \in Seq(T) : Characters(s \o u) = Characters(s) \o Characters(u)}
           U == T \ Continuation
<1>1. <<>> \in S
  <2>1. <<>> \in Seq(T) /\ s \o <<>> = s /\ Characters(s) \in Seq(U)
    BY EmptySeq, ConcatEmptySeq, CharactersTyped
  <2>2. Characters(s) \o <<>> = Characters(s)
    BY <2>1, ConcatEmptySeq
  <2> QED BY <2>1, <2>2, CharactersOfNothing
<1>2. ASSUME NEW u \in S, NEW x \in T PROVE Append(u, x) \in S
  <2> DEFINE v == s \o u
             a == Characters(s)
             c == Characters(u)
  <2>1. u \in Seq(T) /\ Append(u, x) \in Seq(T) /\ v \in Seq(T) /\ Characters(v) = a \o c
    BY AppendProperties, ConcatProperties
  <2>2. s \o Append(u, x) = Append(v, x)
    BY <2>1, AppendConcat
  <2>3. a \in Seq(U) /\ c \in Seq(U) /\ Characters(Append(u, x)) = With(c, x)
    BY <2>1, CharactersTyped, CharactersOfAppended
  <2> HIDE DEF v
  <2>4. Characters(Append(v, x)) = With(Characters(v), x)
    BY <2>1, CharactersOfAppended
  <2> HIDE DEF a, c
  <2>5. With(a \o c, x) = a \o With(c, x)
    <3>1. a \in Seq(U) /\ c \in Seq(U)
      BY <2>3
    <3>2. x \notin Continuation => x \in U
      OBVIOUS
    <3> HIDE DEF U
    <3>3. WithAfter(a, c, x)
      BY <3>1, <3>2, WithConcat, Zenon
    <3> QED BY <3>3 DEF WithAfter
  <2> QED BY <2>1, <2>2, <2>3, <2>4, <2>5 DEF a
<1>3. S = Seq(T)
  <2> HIDE DEF S
  <2>1. S \in SUBSET Seq(T)
    BY DEF S
  <2> QED BY <1>1, <1>2, <2>1, Appending
<1> QED BY <1>3

(* Of bytes that are a character each, all are characters.                 *)
LEMMA AllCharacters ==
    ASSUME NEW T, NEW s \in Seq(T), T \cap Continuation = {}
    PROVE  Characters(s) = s
<1> DEFINE S == {u \in Seq(T) : Characters(u) = u}
<1>1. <<>> \in S
  BY CharactersOfNothing, EmptySeq
<1>2. ASSUME NEW u \in S, NEW x \in T PROVE Append(u, x) \in S
  <2>1. /\ u \in Seq(T) /\ Append(u, x) \in Seq(T) /\ Characters(u) = u
        /\ Characters(Append(u, x)) = With(Characters(u), x)
    BY AppendProperties, CharactersOfAppended
  <2>2. With(u, x) = Append(u, x)
    BY DEF With
  <2> QED BY <2>1, <2>2
<1>3. S = Seq(T)
  <2> HIDE DEF S
  <2>1. S \in SUBSET Seq(T)
    BY DEF S
  <2> QED BY <1>1, <1>2, <2>1, Appending
<1> QED BY <1>3

-----------------------------------------------------------------------------
(* Rows whose cells have the same first bytes.                             *)

(* A byte that a terminal takes for a key or for part of a character.      *)
IsShown(b) ==
    /\ b # "nl"
    /\ b \in Continuation => b \notin {"backspace", "left", "right"}

(* A cell has the bytes of one character.                                  *)
WideCells(B) == Seq(B) \ {<<>>}

HasBlank(B) == " " \in B

Wide(B, r) ==
    /\ r.cells \in Seq(WideCells(B)) /\ r.col \in Nat
    /\ r = Row(r.cells, r.col)

Alike(B, r, q) ==
    /\ Wide(B, r) /\ Wide(B, q) /\ r.col = q.col
    /\ \A i \in Nat \ {0} : FirstByte(r, i) = FirstByte(q, i)

(* Where a byte leaves the column.                                         *)
ColumnAfter(k, b) ==
    IF b \in {"backspace", "left"} THEN (IF k = 0 THEN 0 ELSE k - 1)
    ELSE IF b \in Continuation THEN k ELSE k + 1

PutLeaves(B, r, b, p) ==
    /\ Wide(B, p) /\ p.col = ColumnAfter(r.col, b)
    /\ \A i \in Nat \ {0} :
          FirstByte(p, i) = IF IsCharacter(b) /\ i = r.col + 1 THEN b ELSE FirstByte(r, i)

LEMMA FirstOfCell ==
    \A B : \A c \in WideCells(B) : \A b \in B :
        Append(c, b) \in WideCells(B) /\ Head(Append(c, b)) = Head(c)
<1> SUFFICES ASSUME NEW B, NEW c \in WideCells(B), NEW b \in B
             PROVE  Append(c, b) \in WideCells(B) /\ Head(Append(c, b)) = Head(c)
  OBVIOUS
<1>1. c \in Seq(B) /\ c # <<>>
  BY DEF WideCells
<1>2. /\ Append(c, b) \in Seq(B) /\ Len(Append(c, b)) = Len(c) + 1 /\ Len(c) \in Nat \ {0}
      /\ \A i \in 1..Len(c) : Append(c, b)[i] = c[i]
  BY <1>1, AppendProperties, LenProperties, EmptySeq
<1>3. Append(c, b)[1] = c[1] /\ Append(c, b) # <<>>
  BY <1>2, EmptySeq
<1>4. Append(c, b) \in WideCells(B)
  BY <1>2, <1>3 DEF WideCells
<1> QED BY <1>1, <1>3, <1>4

LEMMA CellOf ==
    \A B : \A b \in B : <<b>> \in WideCells(B) /\ Head(<<b>>) = b
  BY DEF WideCells

LEMMA BlankCell ==
    \A B : HasBlank(B) => Blank \in WideCells(B)
  BY CellOf, Zenon DEF HasBlank, Blank

(* The cells, with blanks up to the one after the column.                  *)
Widened(C, k) == C \o [i \in 1..(k + 1 - Len(C)) |-> Blank]

LEMMA WidenedCells ==
    ASSUME NEW B, HasBlank(B), NEW C \in Seq(WideCells(B)), NEW k \in Nat
    PROVE  /\ Widened(C, k) \in Seq(WideCells(B))
           /\ k + 1 <= Len(Widened(C, k)) /\ Len(C) <= Len(Widened(C, k))
           /\ \A i \in 1..Len(Widened(C, k)) :
                 Widened(C, k)[i] = IF i <= Len(C) THEN C[i] ELSE Blank
<1> DEFINE T == WideCells(B)
           P == [i \in 1..(k + 1 - Len(C)) |-> Blank]
           n == k + 1 - Len(C)
<1>1. Len(C) \in Nat /\ n \in Int /\ Blank \in T
  BY LenProperties, BlankCell
<1>2. P \in Seq(T) /\ Len(P) = (IF n > 0 THEN n ELSE 0) /\ \A i \in 1..n : P[i] = Blank
  <2> HIDE DEF T
  <2> QED BY <1>1, Repeated
<1> HIDE DEF P, T
<1> DEFINE W == C \o P
<1>3. C \in Seq(T)
  BY DEF T
<1>4. /\ W \in Seq(T) /\ Len(W) = Len(C) + Len(P)
      /\ \A i \in 1..Len(C) + Len(P) : W[i] = IF i <= Len(C) THEN C[i] ELSE P[i - Len(C)]
  BY <1>2, <1>3, ConcatProperties
<1>5. Widened(C, k) = W
  BY DEF Widened, P
<1> HIDE DEF W
<1>6. k + 1 <= Len(W) /\ Len(C) <= Len(W)
  BY <1>1, <1>2, <1>4
<1>7. ASSUME NEW i \in 1..Len(W) PROVE W[i] = IF i <= Len(C) THEN C[i] ELSE Blank
  <2>1. W[i] = IF i <= Len(C) THEN C[i] ELSE P[i - Len(C)]
    BY <1>4
  <2>2. ~(i <= Len(C)) => i - Len(C) \in 1..n
    BY <1>1, <1>2, <1>4
  <2> QED BY <1>2, <2>1, <2>2
<1> QED BY <1>4, <1>5, <1>6, <1>7 DEF T

(* The cell j of a row that has been widened is changed into e.            *)
IsChanged(B, C, k, j, e, h) ==
    /\ Wide(B, Row([Widened(C, k) EXCEPT ![j] = e], h))
    /\ \A i \in Nat \ {0} :
          FirstByte(Row([Widened(C, k) EXCEPT ![j] = e], h), i)
            = IF i = j THEN Head(e) ELSE FirstByte(Row(C, k), i)

LEMMA CellChanged ==
    ASSUME NEW B, HasBlank(B), NEW C \in Seq(WideCells(B)), NEW k \in Nat,
           NEW j \in 1..k + 1, NEW e \in WideCells(B), NEW h \in Nat
    PROVE  IsChanged(B, C, k, j, e, h)
<1> DEFINE T == WideCells(B)
           W == Widened(C, k)
           D == [W EXCEPT ![j] = e]
<1>1. /\ W \in Seq(T) /\ k + 1 <= Len(W) /\ Len(C) <= Len(W)
      /\ \A i \in 1..Len(W) : W[i] = IF i <= Len(C) THEN C[i] ELSE Blank
  BY WidenedCells
<1>2. Len(C) \in Nat /\ Len(W) \in Nat
  BY <1>1, LenProperties
<1> HIDE DEF W, T
<1>3. j \in 1..Len(W) /\ e \in T
  BY <1>1, <1>2 DEF T
<1>4. /\ D \in Seq(T) /\ Len(D) = Len(W)
      /\ \A i \in 1..Len(W) : D[i] = IF i = j THEN e ELSE W[i]
  BY <1>1, <1>3, ExceptSeq
<1> HIDE DEF D
<1>5. Wide(B, Row(D, h))
  BY <1>4 DEF Wide, Row, T
<1>6. ASSUME NEW i \in Nat \ {0}
      PROVE  FirstByte(Row(D, h), i) = IF i = j THEN Head(e) ELSE FirstByte(Row(C, k), i)
  <2>1. FirstByte(Row(D, h), i) = Head(IF i <= Len(D) THEN D[i] ELSE Blank)
    BY DEF FirstByte, Row
  <2>2. FirstByte(Row(C, k), i) = Head(IF i <= Len(C) THEN C[i] ELSE Blank)
    BY DEF FirstByte, Row
  <2>3. CASE i <= Len(W)
    <3>1. i \in 1..Len(W) /\ i <= Len(D)
      BY <1>2, <1>4, <2>3
    <3>2. D[i] = IF i = j THEN e ELSE IF i <= Len(C) THEN C[i] ELSE Blank
      BY <1>1, <1>4, <3>1
    <3> QED BY <2>1, <2>2, <3>1, <3>2
  <2>4. CASE ~(i <= Len(W))
    <3>1. i # j /\ ~(i <= Len(D)) /\ ~(i <= Len(C))
      BY <1>1, <1>2, <1>3, <1>4, <2>4
    <3> QED BY <2>1, <2>2, <3>1
  <2> QED BY <2>3, <2>4
<1> QED BY <1>5, <1>6 DEF D, W, IsChanged

LEMMA PutWide ==
    ASSUME NEW B, HasBlank(B), NEW r, Wide(B, r), NEW b \in B, IsShown(b)
    PROVE  PutLeaves(B, r, b, Put(r, b))
<1> DEFINE C == r.cells
           k == r.col
           W == Widened(C, k)
<1>1. C \in Seq(WideCells(B)) /\ k \in Nat /\ r = Row(C, k) /\ Len(C) \in Nat
  BY LenProperties DEF Wide
<1> HIDE DEF C, k
<1>2. CASE b \in {"backspace", "left", "right"}
  <2>1. Put(Row(C, k), b) = Row(C, ColumnAfter(k, b))
    BY <1>2 DEF Put, Row, ColumnAfter, IsShown
  <2>2. ColumnAfter(k, b) \in Nat /\ ~IsCharacter(b)
    BY <1>1, <1>2 DEF ColumnAfter, IsCharacter
  <2> DEFINE h == ColumnAfter(k, b)
  <2> HIDE DEF h
  <2>3. /\ Row(C, h).cells = C /\ Row(C, h).col = h /\ Row(C, k).col = k
        /\ \A i \in Nat \ {0} : FirstByte(Row(C, h), i) = FirstByte(Row(C, k), i)
    BY DEF Row, FirstByte
  <2> QED BY <1>1, <2>1, <2>2, <2>3 DEF PutLeaves, Wide, h
<1>3. CASE b \in Continuation
  <2>0. ColumnAfter(k, b) = k /\ ~IsCharacter(b) /\ b \notin {"backspace", "left", "right", "nl"}
    BY <1>3 DEF ColumnAfter, IsCharacter, IsShown
  <2>1. CASE k = 0
    <3>1. Put(Row(C, k), b) = Row(C, k)
      BY <1>3, <2>0, <2>1 DEF Put, Row
    <3>2. Row(C, k).col = k
      BY DEF Row
    <3> QED BY <1>1, <2>0, <3>1, <3>2 DEF PutLeaves
  <2>2. CASE k # 0
    <3>1. Put(Row(C, k), b) = Row([W EXCEPT ![k] = Append(@, b)], k)
      BY <1>3, <2>0, <2>2 DEF Put, Row, Widened
    <3>2. /\ W \in Seq(WideCells(B)) /\ k \in 1..Len(W) /\ k \in 1..k + 1
          /\ W[k] = IF k <= Len(C) THEN C[k] ELSE Blank
      <4>1. /\ W \in Seq(WideCells(B)) /\ k + 1 <= Len(W)
            /\ \A i \in 1..Len(W) : W[i] = IF i <= Len(C) THEN C[i] ELSE Blank
        BY <1>1, WidenedCells
      <4>2. Len(W) \in Nat
        BY <4>1, LenProperties
      <4> HIDE DEF W
      <4>3. k \in 1..Len(W) /\ k \in 1..k + 1
        BY <1>1, <2>2, <4>1, <4>2
      <4> QED BY <4>1, <4>3
    <3> DEFINE e == Append(W[k], b)
    <3>3. e \in WideCells(B) /\ Head(e) = Head(W[k])
      <4> DEFINE c == W[k]
      <4>1. c \in WideCells(B)
        <5> HIDE DEF W
        <5> QED BY <3>2, ElementOfSeq
      <4> HIDE DEF c
      <4>2. Append(c, b) \in WideCells(B) /\ Head(Append(c, b)) = Head(c)
        BY <4>1, FirstOfCell
      <4> QED BY <4>2 DEF c
    <3>4. [W EXCEPT ![k] = Append(@, b)] = [W EXCEPT ![k] = e]
      OBVIOUS
    <3>5. FirstByte(Row(C, k), k) = Head(W[k])
      BY <3>2 DEF FirstByte, Row
    <3> HIDE DEF e
    <3>6. /\ Wide(B, Row([W EXCEPT ![k] = e], k))
          /\ \A i \in Nat \ {0} :
                FirstByte(Row([W EXCEPT ![k] = e], k), i)
                  = IF i = k THEN Head(e) ELSE FirstByte(Row(C, k), i)
      <4>1. /\ C \in Seq(WideCells(B)) /\ k \in Nat
            /\ k \in 1..k + 1 /\ e \in WideCells(B)
        BY <1>1, <3>2, <3>3
      <4>2. IsChanged(B, C, k, k, e, k)
        BY <4>1, CellChanged
      <4> QED BY <4>2 DEF IsChanged
    <3> HIDE DEF W
    <3> DEFINE p == Row([W EXCEPT ![k] = e], k)
    <3>7. p.col = k /\ Row(C, k).col = k
      BY DEF Row
    <3>8. Put(Row(C, k), b) = p
      BY <3>1, <3>4
    <3>9. Wide(B, p) /\ \A i \in Nat \ {0} : FirstByte(p, i) = FirstByte(Row(C, k), i)
      BY <3>3, <3>5, <3>6
    <3> HIDE DEF p
    <3> QED BY <1>1, <2>0, <3>7, <3>8, <3>9 DEF PutLeaves
  <2> QED BY <2>1, <2>2
<1>4. CASE b \notin Continuation \cup {"backspace", "left", "right"}
  <2>0. ColumnAfter(k, b) = k + 1 /\ IsCharacter(b) /\ b # "nl"
    BY <1>4 DEF ColumnAfter, IsCharacter, IsShown
  <2> DEFINE e == <<b>>
             j == k + 1
  <2>1. Put(Row(C, k), b) = Row([W EXCEPT ![j] = e], j)
    BY <1>4, <2>0 DEF Put, Row, Widened
  <2>2. e \in WideCells(B) /\ Head(e) = b /\ j \in 1..k + 1 /\ j \in Nat
    BY <1>1, CellOf
  <2> HIDE DEF e, j
  <2>3. /\ Wide(B, Row([W EXCEPT ![j] = e], j))
        /\ \A i \in Nat \ {0} :
              FirstByte(Row([W EXCEPT ![j] = e], j), i)
                = IF i = j THEN Head(e) ELSE FirstByte(Row(C, k), i)
    <3>1. C \in Seq(WideCells(B)) /\ k \in Nat
      BY <1>1
    <3>2. j \in 1..k + 1 /\ e \in WideCells(B) /\ j \in Nat
      BY <2>2
    <3>3. IsChanged(B, C, k, j, e, j)
      BY <3>1, <3>2, CellChanged
    <3> QED BY <3>3 DEF IsChanged
  <2> HIDE DEF W
  <2> DEFINE p == Row([W EXCEPT ![j] = e], j)
  <2>4. p.col = j /\ Row(C, k).col = k
    BY DEF Row
  <2>5. /\ Put(Row(C, k), b) = p /\ Wide(B, p)
        /\ \A i \in Nat \ {0} :
              FirstByte(p, i) = IF i = j THEN b ELSE FirstByte(Row(C, k), i)
    BY <2>1, <2>2, <2>3
  <2> HIDE DEF p
  <2> QED BY <1>1, <2>0, <2>4, <2>5 DEF PutLeaves, j
<1> QED BY <1>2, <1>3, <1>4

(* Rows that are alike stay so when one shows a text, the other only its   *)
(* characters.                                                             *)
LEMMA DisplayAlike ==
    ASSUME NEW B, HasBlank(B), \A b \in B : IsShown(b),
           NEW r, NEW q, Alike(B, r, q), NEW t \in Seq(B)
    PROVE  Alike(B, Display(r, t), Display(q, Characters(t)))
<1> DEFINE S == {u \in Seq(B) : Alike(B, Display(r, u), Display(q, Characters(u)))}
<1>1. <<>> \in S
  BY EmptySeq, DisplayNothing, CharactersOfNothing
<1>2. ASSUME NEW u \in S, NEW x \in B PROVE Append(u, x) \in S
  <2> DEFINE c == Characters(u)
             r1 == Display(r, u)
             q1 == Display(q, c)
  <2>1. /\ u \in Seq(B) /\ Append(u, x) \in Seq(B) /\ c \in Seq(B \ Continuation)
        /\ Display(r, Append(u, x)) = Put(r1, x)
        /\ Characters(Append(u, x)) = With(c, x)
    BY AppendProperties, DisplayAppended, CharactersTyped, CharactersOfAppended
  <2>2. Alike(B, r1, q1) /\ IsShown(x)
    OBVIOUS
  <2> HIDE DEF c, r1
  <2>3. PutLeaves(B, r1, x, Put(r1, x))
    BY <2>2, PutWide DEF Alike
  <2>4. CASE x \in Continuation
    <3>1. ~IsCharacter(x) /\ ColumnAfter(r1.col, x) = r1.col
      BY <2>2, <2>4 DEF IsCharacter, ColumnAfter, IsShown
    <3>2. Alike(B, Put(r1, x), q1)
      <4> HIDE DEF q1
      <4> QED BY <2>2, <2>3, <3>1 DEF Alike, PutLeaves
    <3>3. With(c, x) = c
      BY <2>4 DEF With
    <3> QED BY <2>1, <3>2, <3>3
  <2>5. CASE x \notin Continuation
    <3>1. Display(q, Append(c, x)) = Put(q1, x) /\ With(c, x) = Append(c, x)
      BY <2>1, <2>5, DisplayAppended DEF With
    <3> HIDE DEF q1
    <3>2. PutLeaves(B, q1, x, Put(q1, x))
      BY <2>2, PutWide DEF Alike
    <3>3. Alike(B, Put(r1, x), Put(q1, x))
      BY <2>2, <2>3, <3>2 DEF Alike, PutLeaves
    <3> QED BY <2>1, <3>1, <3>3
  <2> QED BY <2>4, <2>5
<1>3. S = Seq(B)
  <2> HIDE DEF S
  <2>1. S \in SUBSET Seq(B)
    BY DEF S
  <2> QED BY <1>1, <1>2, <2>1, Appending
<1> QED BY <1>3

-----------------------------------------------------------------------------
(* What the keyboard must return: one key, or text without control bytes,  *)
(* whose characters begin with a byte of Plain; the bytes that continue    *)
(* them may be cut off in a read of their own.                             *)
Keys == {"up", "down", "left", "right", "backspace", "intr"}

OneKeyReads(Plain) ==
    /\ Plain \cap (Keys \cup {"cr"}) = {}
    /\ Continuation \cap (Keys \cup {"cr", "nl"}) = {}
    /\ \A b \in Plain \cup {" "} : IsCharacter(b)
    /\ \A data \in Input : \/ data \in Seq(Plain \cup Continuation \cup {"cr"})
                          \/ \E k \in Keys : data = <<k>>

Cells(Plain) == {<<b>> : b \in Plain \cup {" ", "prompt"}}

(* What the editor writes.                                                 *)
Visible(Plain) == Plain \cup {" "}

LEMMA PlainCells ==
    ASSUME NEW Plain
    PROVE  /\ AreCells(Visible(Plain), Cells(Plain)) /\ Blank \in Cells(Plain)
           /\ \A t \in Seq(Plain) : t \in Seq(Visible(Plain))
<1>1. Plain \subseteq Visible(Plain)
  BY DEF Visible
<1>2. \A t \in Seq(Plain) : t \in Seq(Visible(Plain))
  BY <1>1, SeqMonotonic
<1> QED BY <1>2 DEF AreCells, Cells, Blank, Visible

(* The cells have the prompt, the line s and blanks.                       *)
CellsFit(Plain, C, s) ==
    /\ C \in Seq(Cells(Plain)) /\ Len(s) < Len(C)
    /\ C[1] = <<"prompt">>
    /\ \A i \in 2..Len(C) : C[i] = IF i - 1 <= Len(s) THEN <<s[i - 1]>> ELSE Blank

(* And the column is that of position c of the line.                       *)
RowFits(Plain, r, s, c) == CellsFit(Plain, r.cells, s) /\ r = Row(r.cells, c + 1)

LEMMA FitsAt ==
    ASSUME NEW Plain, NEW C, NEW s, NEW c, CellsFit(Plain, C, s)
    PROVE  RowFits(Plain, Row(C, c + 1), s, c)
BY DEF RowFits, Row

(* When t is written after the first k characters of s, the cells have n,  *)
(* which is these and t, of which only blanks are left out.                *)
Rewrites(n, s, k, t) ==
    /\ k <= Len(n) /\ Len(n) <= k + Len(t) /\ Len(s) <= k + Len(t)
    /\ \A i \in 1..Len(n) : n[i] = IF i <= k THEN s[i] ELSE t[i - k]
    /\ \A i \in 1..Len(t) : k + i > Len(n) => t[i] = " "

LEMMA CellsRewritten ==
    ASSUME NEW Plain, NEW C, NEW s \in Seq(Plain), NEW n \in Seq(Plain),
           NEW k \in 0..Len(s), NEW B, NEW t \in Seq(B), AreCells(B, Cells(Plain)),
           CellsFit(Plain, C, s), Rewrites(n, s, k, t)
    PROVE  /\ CellsFit(Plain, Over(C, k + 1, t), n)
           /\ C \in Seq(Cells(Plain)) /\ k + 1 \in 0..Len(C)
<1> DEFINE D == Over(C, k + 1, t)
<1>1. /\ Len(s) \in Nat /\ Len(n) \in Nat /\ Len(t) \in Nat /\ k \in Nat /\ k <= Len(s)
  BY LenProperties
<1>2. /\ C \in Seq(Cells(Plain)) /\ Len(s) < Len(C) /\ C[1] = <<"prompt">> /\ Len(C) \in Nat
      /\ \A i \in 2..Len(C) : C[i] = IF i - 1 <= Len(s) THEN <<s[i - 1]>> ELSE Blank
  BY LenProperties DEF CellsFit
<1>3. k + 1 \in 0..Len(C)
  BY <1>1, <1>2
<1>4. Covers(D, Cells(Plain), C, k + 1, t)
  <2> DEFINE h == k + 1
  <2>1. h \in 0..Len(C)
    BY <1>3
  <2> HIDE DEF h
  <2>2. Covers(Over(C, h, t), Cells(Plain), C, h, t)
    BY <1>2, <2>1, OverCells
  <2> QED BY <2>2 DEF h
<1> HIDE DEF D
<1>5. /\ D \in Seq(Cells(Plain))
      /\ Len(D) = IF k + 1 + Len(t) < Len(C) THEN Len(C) ELSE k + 1 + Len(t)
      /\ \A i \in 1..Len(D) :
            D[i] = IF k + 1 < i /\ i <= k + 1 + Len(t) THEN <<t[i - (k + 1)]>> ELSE C[i]
  BY <1>4 DEF Covers
<1>6. /\ k <= Len(n) /\ Len(n) <= k + Len(t) /\ Len(s) <= k + Len(t)
      /\ \A i \in 1..Len(n) : n[i] = IF i <= k THEN s[i] ELSE t[i - k]
      /\ \A i \in 1..Len(t) : k + i > Len(n) => t[i] = " "
  BY DEF Rewrites
<1> DEFINE ld == Len(D)
           lc == Len(C)
           lt == Len(t)
           ln == Len(n)
           ls == Len(s)
<1>7. /\ ls \in Nat /\ ln \in Nat /\ lt \in Nat /\ lc \in Nat /\ k \in Nat
      /\ k <= ls /\ ls < lc /\ k <= ln /\ ln <= k + lt /\ ls <= k + lt
      /\ ld = (IF k + 1 + lt < lc THEN lc ELSE k + 1 + lt)
  BY <1>1, <1>2, <1>5, <1>6
<1> HIDE DEF ld, lc, lt, ln, ls
<1>8. /\ ld \in Nat /\ ln < ld /\ lc <= ld
      /\ \A i \in 2..ld : /\ i <= k + 1 => i <= lc /\ i - 1 <= ls /\ i - 1 <= ln
                          /\ i > k + 1 + lt => i <= lc /\ ~(i - 1 <= ls) /\ ~(i - 1 <= ln)
  <2>1. ld \in Nat /\ ln < ld /\ lc <= ld
    BY <1>7
  <2>2. ASSUME NEW i \in 2..ld, i <= k + 1 PROVE i <= lc /\ i - 1 <= ls /\ i - 1 <= ln
    BY <1>7, <2>1, <2>2
  <2>3. ASSUME NEW i \in 2..ld, i > k + 1 + lt
        PROVE  i <= lc /\ ~(i - 1 <= ls) /\ ~(i - 1 <= ln)
    BY <1>7, <2>1, <2>3
  <2> QED BY <2>1, <2>2, <2>3
<1>9. /\ Len(D) \in Nat
      /\ \A i \in 2..Len(D) :
            /\ i <= k + 1 => i <= Len(C) /\ i - 1 <= Len(s) /\ i - 1 <= Len(n)
            /\ i > k + 1 + Len(t) =>
                  i <= Len(C) /\ ~(i - 1 <= Len(s)) /\ ~(i - 1 <= Len(n))
  BY <1>8 DEF ld, lc, lt, ln, ls
<1>10. Len(n) < Len(D) /\ Len(D) \in Nat
  BY <1>8 DEF ld, ln
<1>11. ASSUME NEW i \in 1..Len(D), ~(k + 1 < i /\ i <= k + 1 + Len(t))
      PROVE  D[i] = C[i]
  BY <1>5, <1>11
<1>12. D[1] = <<"prompt">>
  <2>1. 1 \in 1..Len(D) /\ ~(k + 1 < 1)
    BY <1>1, <1>10
  <2> QED BY <1>2, <1>5, <2>1
<1>13. ASSUME NEW i \in 2..Len(D)
      PROVE  D[i] = IF i - 1 <= Len(n) THEN <<n[i - 1]>> ELSE Blank
  <2>0. i \in 1..Len(D) /\ i - 1 \in Nat /\ i - 1 >= 1 /\ i \in Nat
    BY <1>10
  <2>1. CASE i <= k + 1
    <3>1. D[i] = C[i]
      <4>1. ~(k + 1 < i /\ i <= k + 1 + Len(t))
        BY <1>1, <2>0, <2>1
      <4> QED BY <1>11, <2>0, <4>1
    <3>0. i <= Len(C) /\ i - 1 <= Len(s) /\ i - 1 <= Len(n)
      BY <1>9, <2>1
    <3>2. i \in 2..Len(C) /\ i - 1 <= Len(s) /\ i - 1 <= k /\ i - 1 \in 1..Len(n)
      BY <1>1, <1>2, <2>0, <2>1, <3>0
    <3>3. C[i] = <<s[i - 1]>>
      BY <1>2, <3>2
    <3>4. n[i - 1] = s[i - 1]
      BY <1>6, <3>2
    <3> QED BY <3>1, <3>2, <3>3, <3>4
  <2>2. CASE k + 1 < i /\ i <= k + 1 + Len(t)
    <3>1. D[i] = <<t[i - (k + 1)]>>
      BY <1>5, <2>0, <2>2
    <3>2. i - (k + 1) \in 1..Len(t) /\ k + (i - (k + 1)) = i - 1 /\ (i - 1) - k = i - (k + 1)
          /\ ~(i - 1 <= k)
      BY <1>1, <2>0, <2>2
    <3>3. CASE i - 1 <= Len(n)
      <4>1. i - 1 \in 1..Len(n)
        BY <1>1, <2>0, <3>3
      <4>2. n[i - 1] = t[i - (k + 1)]
        BY <1>6, <3>2, <4>1
      <4> QED BY <3>1, <3>3, <4>2
    <3>4. CASE ~(i - 1 <= Len(n))
      <4>1. k + (i - (k + 1)) > Len(n)
        BY <1>1, <2>0, <3>2, <3>4
      <4>2. t[i - (k + 1)] = " "
        BY <1>6, <3>2, <4>1
      <4> QED BY <3>1, <3>4, <4>2 DEF Blank
    <3> QED BY <3>3, <3>4
  <2>3. CASE i > k + 1 + Len(t)
    <3>1. D[i] = C[i]
      <4>1. ~(k + 1 < i /\ i <= k + 1 + Len(t))
        BY <1>1, <2>0, <2>3
      <4> QED BY <1>11, <2>0, <4>1
    <3>0. i <= Len(C) /\ ~(i - 1 <= Len(s)) /\ ~(i - 1 <= Len(n))
      BY <1>9, <2>3
    <3>2. i \in 2..Len(C) /\ ~(i - 1 <= Len(s)) /\ ~(i - 1 <= Len(n))
      BY <1>2, <3>0
    <3> QED BY <1>2, <3>1, <3>2
  <2> QED BY <1>1, <2>0, <2>1, <2>2, <2>3
<1>14. CellsFit(Plain, D, n)
  BY <1>5, <1>10, <1>12, <1>13 DEF CellsFit
<1> QED BY <1>2, <1>3, <1>14 DEF D

(* Text written over the row from position k of the line on.               *)
LEMMA TextShown ==
    ASSUME NEW Plain, OneKeyReads(Plain), NEW C, NEW s \in Seq(Plain), NEW n \in Seq(Plain),
           NEW k \in 0..Len(s), NEW t \in Seq(Visible(Plain)),
           CellsFit(Plain, C, s), Rewrites(n, s, k, t)
    PROVE  /\ Display(Row(C, k + 1), t) = Row(Over(C, k + 1, t), k + 1 + Len(t))
           /\ CellsFit(Plain, Over(C, k + 1, t), n)
<1> DEFINE B == Visible(Plain)
           h == k + 1
<1>2. t \in Seq(B) /\ AreCells(B, Cells(Plain)) /\ Blank \in Cells(Plain)
      /\ \A b \in B : IsCharacter(b)
  BY PlainCells DEF OneKeyReads, Visible
<1> HIDE DEF B
<1>1. /\ CellsFit(Plain, Over(C, h, t), n)
      /\ C \in Seq(Cells(Plain)) /\ h \in 0..Len(C)
  BY <1>2, CellsRewritten
<1> HIDE DEF h
<1>3. Display(Row(C, h), t) = Row(Over(C, h, t), h + Len(t))
  BY <1>1, <1>2, DisplayText
<1> QED BY <1>1, <1>3 DEF h

(* The line s is b, of c bytes, and a.                                     *)
Splits(T, s, c, b, a) ==
    /\ b \in Seq(T) /\ Len(b) = c /\ \A i \in 1..c : b[i] = s[i]
    /\ a \in Seq(T) /\ Len(a) = Len(s) - c /\ \A i \in 1..Len(s) - c : a[i] = s[c + i]

LEMMA Halves ==
    ASSUME NEW T, NEW s \in Seq(T), NEW c \in 0..Len(s)
    PROVE  Splits(T, s, c, SubSeq(s, 1, c), SubSeq(s, c + 1, Len(s)))
<1>1. Len(s) \in Nat /\ c \in Nat /\ c <= Len(s) /\ Len(s) \in Int
  BY LenProperties
<1>2. /\ SubSeq(s, 1, c) \in Seq(T) /\ Len(SubSeq(s, 1, c)) = c
      /\ \A i \in 1..c : SubSeq(s, 1, c)[i] = s[i]
  BY PrefixOf
<1> DEFINE m == c + 1
<1>3. m \in Int /\ (m <= Len(s) <=> c < Len(s)) /\ m >= 1 /\ Len(s) - m + 1 = Len(s) - c
      /\ \A i \in Int : m + i - 1 = c + i
  BY <1>1
<1>4. \A i \in m..Len(s) : s[i] \in T
  BY <1>1, ElementOfSeq
<1> HIDE DEF m
<1>5. /\ SubSeq(s, m, Len(s)) \in Seq(T)
      /\ Len(SubSeq(s, m, Len(s))) = IF m <= Len(s) THEN Len(s) - m + 1 ELSE 0
      /\ \A i \in 1..Len(s) - m + 1 : SubSeq(s, m, Len(s))[i] = s[m + i - 1]
  BY <1>1, <1>3, <1>4, SubSeqProperties
<1>6. Len(SubSeq(s, m, Len(s))) = Len(s) - c
  BY <1>1, <1>3, <1>5
<1>7. ASSUME NEW i \in 1..Len(s) - c PROVE SubSeq(s, m, Len(s))[i] = s[c + i]
  <2>1. i \in 1..Len(s) - m + 1 /\ m + i - 1 = c + i
    BY <1>3
  <2>2. SubSeq(s, m, Len(s))[i] = s[m + i - 1]
    BY <1>5, <2>1
  <2> QED BY <2>1, <2>2
<1> QED BY <1>2, <1>5, <1>6, <1>7 DEF m, Splits

(* A text inserted, the rest of the line and the way back.                 *)
LEMMA InsertFits ==
    ASSUME NEW Plain, OneKeyReads(Plain), NEW r, NEW s \in Seq(Plain),
           NEW c \in 0..Len(s), NEW d \in Seq(Plain), RowFits(Plain, r, s, c),
           NEW b, NEW a, Splits(Plain, s, c, b, a)
    PROVE  /\ b \o d \o a \in Seq(Plain) /\ c + Len(d) \in 0..Len(b \o d \o a)
           /\ RowFits(Plain, Display(r, d \o a \o Times(Len(s) - c, "backspace")),
                      b \o d \o a, c + Len(d))
<1> DEFINE C == r.cells
           n == b \o d \o a
           t == d \o a
           back == Times(Len(s) - c, "backspace")
<1>1. /\ b \in Seq(Plain) /\ Len(b) = c /\ \A i \in 1..c : b[i] = s[i]
      /\ a \in Seq(Plain) /\ Len(a) = Len(s) - c
  BY DEF Splits
<1>2. b \in Seq(Plain) /\ a \in Seq(Plain)
  BY <1>1
<1>3. /\ Len(s) \in Nat /\ Len(d) \in Nat /\ c \in Nat /\ c <= Len(s) /\ Len(s) - c \in Nat
  BY LenProperties
<1>4. /\ t \in Seq(Plain) /\ Len(t) = Len(d) + Len(a)
      /\ \A i \in 1..Len(d) + Len(a) : t[i] = IF i <= Len(d) THEN d[i] ELSE a[i - Len(d)]
  BY <1>1, ConcatProperties
<1>5. n = b \o t
  <2> HIDE DEF n, t, C, back
  <2>1. Reassociate(b, d, a)
    BY <1>2, Reassociated
  <2> QED BY <2>1 DEF Reassociate, n, t
<1>6. t \in Seq(Plain)
  BY <1>4
<1> HIDE DEF t
<1>7. /\ n \in Seq(Plain) /\ Len(n) = Len(b) + Len(t)
      /\ \A i \in 1..Len(b) + Len(t) : n[i] = IF i <= Len(b) THEN b[i] ELSE t[i - Len(b)]
  <2> HIDE DEF n
  <2>1. /\ b \o t \in Seq(Plain) /\ Len(b \o t) = Len(b) + Len(t)
        /\ \A i \in 1..Len(b) + Len(t) : (b \o t)[i] = IF i <= Len(b) THEN b[i] ELSE t[i - Len(b)]
    BY <1>2, <1>6, ConcatProperties
  <2> QED BY <1>5, <2>1
<1> HIDE DEF n
<1>8. /\ Len(t) = Len(d) + (Len(s) - c) /\ Len(n) = c + Len(t) /\ Len(t) \in Nat
  BY <1>1, <1>3, <1>4, <1>7
<1>9. Rewrites(n, s, c, t)
  <2>1. c <= Len(n) /\ Len(n) <= c + Len(t) /\ Len(s) <= c + Len(t)
    BY <1>3, <1>8
  <2>2. ASSUME NEW i \in 1..Len(n) PROVE n[i] = IF i <= c THEN s[i] ELSE t[i - c]
    <3>1. n[i] = IF i <= c THEN b[i] ELSE t[i - c]
      BY <1>1, <1>7, <1>8
    <3>2. i <= c => i \in 1..c
      OBVIOUS
    <3> QED BY <1>1, <3>1, <3>2
  <2>3. \A i \in 1..Len(t) : ~(c + i > Len(n))
    BY <1>3, <1>8
  <2> QED BY <2>1, <2>2, <2>3 DEF Rewrites
<1>10. CellsFit(Plain, C, s) /\ r = Row(C, c + 1)
  BY DEF RowFits
<1> HIDE DEF C
<1>11. t \in Seq(Visible(Plain))
  BY <1>4, PlainCells
<1> DEFINE D == Over(C, c + 1, t)
<1>12. Display(r, t) = Row(D, c + 1 + Len(t)) /\ CellsFit(Plain, D, n)
  <2>1. n \in Seq(Plain)
    BY <1>7
  <2> QED BY <1>9, <1>10, <1>11, <2>1, TextShown
<1> HIDE DEF D
<1>13. Display(r, t \o back) = Display(Display(r, t), back)
  <2> DEFINE W == Plain \cup {"backspace"}
  <2>1. back \in Seq(W)
    BY <1>3, TimesOneMore
  <2>2. t \in Seq(W)
    BY <1>4, SeqMonotonic
  <2> HIDE DEF back, W
  <2> QED BY <2>1, <2>2, DisplayConcat
<1>14. Display(Row(D, c + 1 + Len(t)), back) = Row(D, (c + Len(d)) + 1)
  <2> DEFINE k == c + 1 + Len(t)
             m == Len(s) - c
  <2>1. k \in Nat /\ m \in 0..k /\ k - m = (c + Len(d)) + 1
    BY <1>3, <1>8
  <2>2. "backspace" \notin Continuation
    BY DEF OneKeyReads, Keys
  <2> HIDE DEF k, m
  <2>3. Display(Row(D, k), Times(m, "backspace")) = Row(D, k - m)
    BY <2>1, <2>2, DisplayBack
  <2> QED BY <2>1, <2>3 DEF k, m
<1>15. RowFits(Plain, Display(r, t \o back), n, c + Len(d))
  BY <1>12, <1>13, <1>14, FitsAt
<1>16. c + Len(d) \in 0..Len(n)
  BY <1>3, <1>8
<1> QED BY <1>7, <1>15, <1>16 DEF n, t

(* Back, the rest of the line, a blank and the way back.                   *)
LEMMA BackspaceFits ==
    ASSUME NEW Plain, OneKeyReads(Plain), NEW r, NEW s \in Seq(Plain),
           NEW c \in 0..Len(s), c > 0, RowFits(Plain, r, s, c),
           NEW b, NEW x, Splits(Plain, s, c - 1, b, x), NEW y, NEW a, Splits(Plain, s, c, y, a)
    PROVE  /\ b \o a \in Seq(Plain) /\ c - 1 \in 0..Len(b \o a)
           /\ RowFits(Plain,
                 Display(r, <<"backspace">> \o a \o <<" ">> \o Times(Len(s) - c + 1, "backspace")),
                 b \o a, c - 1)
<1> DEFINE C == r.cells
           n == b \o a
           blank == <<" ">>
           t == a \o blank
           one == <<"backspace">>
           back == Times(Len(s) - c + 1, "backspace")
           W == Visible(Plain) \cup {"backspace"}
           k == c - 1
           B == Visible(Plain)
<1>0. /\ Len(s) \in Nat /\ k \in Nat /\ k <= Len(s) /\ c = k + 1 /\ c <= Len(s)
      /\ Len(s) - c + 1 \in Nat /\ k \in 0..Len(s)
  BY LenProperties
<1>1. /\ b \in Seq(Plain) /\ Len(b) = k /\ \A i \in 1..k : b[i] = s[i]
  BY DEF Splits
<1>2. /\ a \in Seq(Plain) /\ Len(a) = Len(s) - c
  BY DEF Splits
<1>3. b \in Seq(Plain) /\ a \in Seq(Plain) /\ a \in Seq(B)
  BY <1>1, <1>2, PlainCells
<1>4. blank \in Seq(B) /\ Len(blank) = 1 /\ blank[1] = " "
  BY DEF Visible
<1> HIDE DEF blank, B
<1>5. /\ t \in Seq(B) /\ Len(t) = Len(a) + Len(blank)
      /\ \A i \in 1..Len(a) + Len(blank) : t[i] = IF i <= Len(a) THEN a[i] ELSE blank[i - Len(a)]
  BY <1>3, <1>4, ConcatProperties
<1> HIDE DEF t
<1>6. /\ n \in Seq(Plain) /\ Len(n) = Len(b) + Len(a)
      /\ \A i \in 1..Len(b) + Len(a) : n[i] = IF i <= Len(b) THEN b[i] ELSE a[i - Len(b)]
  BY <1>3, ConcatProperties
<1> HIDE DEF n, k
<1>7. /\ Len(a) = Len(s) - (k + 1) /\ Len(a) \in Nat /\ Len(t) = Len(s) - k
      /\ Len(n) = k + Len(a) /\ Len(n) \in Nat
  <2>1. Len(a) = Len(s) - (k + 1) /\ Len(a) \in Nat
    BY <1>0, <1>2
  <2>2. Len(t) = Len(a) + 1 /\ Len(n) = k + Len(a)
    BY <1>1, <1>4, <1>5, <1>6
  <2> QED BY <1>0, <2>1, <2>2
<1>8. Rewrites(n, s, k, t)
  <2>1. k <= Len(n) /\ Len(n) <= k + Len(t) /\ Len(s) <= k + Len(t)
    BY <1>0, <1>7
  <2>0. Len(a) + Len(blank) = Len(a) + 1 /\ Len(a) \in Nat /\ k \in Nat
    BY <1>0, <1>4, <1>7
  <2>2. ASSUME NEW i \in 1..Len(n) PROVE n[i] = IF i <= k THEN s[i] ELSE t[i - k]
    <3>1. n[i] = IF i <= k THEN b[i] ELSE a[i - k]
      BY <1>1, <1>6, <1>7
    <3>2. CASE i <= k
      <4>1. i \in 1..k
        BY <3>2
      <4> QED BY <1>1, <3>1, <3>2, <4>1
    <3>3. CASE ~(i <= k)
      <4>1. i - k \in 1..Len(a)
        BY <1>0, <1>7, <3>3
      <4>2. i - k \in 1..Len(a) + Len(blank) /\ i - k <= Len(a)
        BY <2>0, <4>1
      <4>3. t[i - k] = a[i - k]
        BY <1>5, <4>2
      <4> QED BY <3>1, <3>3, <4>3
    <3> QED BY <3>2, <3>3
  <2>3. ASSUME NEW i \in 1..Len(t), k + i > Len(n) PROVE t[i] = " "
    <3>1. i = Len(a) + 1 /\ i \in 1..Len(a) + Len(blank) /\ ~(i <= Len(a)) /\ i - Len(a) = 1
      <4>1. /\ Len(t) = Len(s) - k /\ Len(a) = Len(s) - (k + 1) /\ Len(n) = k + Len(a)
            /\ Len(s) \in Nat /\ k \in Nat /\ k + i > Len(n)
        BY <1>0, <1>7, <2>3
      <4>2. i = Len(a) + 1
        BY <4>1
      <4> QED BY <2>0, <4>2
    <3>2. t[i] = blank[i - Len(a)]
      BY <1>5, <3>1
    <3> QED BY <1>4, <3>1, <3>2
  <2> QED BY <2>1, <2>2, <2>3 DEF Rewrites
<1>9. CellsFit(Plain, C, s) /\ r = Row(C, c + 1)
  BY DEF RowFits
<1> HIDE DEF C
<1> DEFINE D == Over(C, k + 1, t)
<1>10. Display(Row(C, k + 1), t) = Row(D, k + 1 + Len(t)) /\ CellsFit(Plain, D, n)
  <2>1. n \in Seq(Plain) /\ t \in Seq(Visible(Plain)) /\ k \in 0..Len(s)
    BY <1>0, <1>5, <1>6 DEF B
  <2> QED BY <1>8, <1>9, <2>1, TextShown
<1> HIDE DEF D
<1>11. Display(r, one) = Row(C, k + 1)
  <2>1. "backspace" \notin Continuation
    BY DEF OneKeyReads, Keys
  <2>2. Put(Row(C, c + 1), "backspace") = Row(C, IF c + 1 = 0 THEN 0 ELSE (c + 1) - 1)
    BY <2>1 DEF Put, Row
  <2>3. (IF c + 1 = 0 THEN 0 ELSE (c + 1) - 1) = k + 1
    BY <1>0
  <2> QED BY <1>9, <2>2, <2>3, DisplayOne
<1>12. one \in Seq(W) /\ a \in Seq(W) /\ blank \in Seq(W) /\ t \in Seq(W) /\ back \in Seq(W)
       /\ one \o a \in Seq(W) /\ one \o a \o blank \in Seq(W) /\ one \o a \o blank = one \o t
  <2>1. one \in Seq(W)
    OBVIOUS
  <2>2. B \subseteq W
    BY DEF B
  <2>3. a \in Seq(W) /\ blank \in Seq(W) /\ t \in Seq(W)
    BY <1>3, <1>4, <1>5, <2>2, SeqMonotonic
  <2>4. back \in Seq(W)
    BY <1>0, TimesOneMore
  <2> HIDE DEF W, one
  <2>5. one \o a \in Seq(W)
    BY <2>1, <2>3, ConcatProperties
  <2>6. one \o a \o blank \in Seq(W)
    BY <2>3, <2>5, ConcatProperties
  <2>7. one \o a \o blank = one \o t
    <3>1. Reassociate(one, a, blank)
      BY <2>1, <2>3, Reassociated
    <3> QED BY <3>1 DEF Reassociate, t
  <2> QED BY <2>1, <2>3, <2>4, <2>5, <2>6, <2>7
<1> HIDE DEF W, one, back
<1>13. Display(r, one \o a \o blank \o back) = Display(Display(Display(r, one), t), back)
  <2> DEFINE z == one \o a \o blank
  <2>1. z \in Seq(W) /\ z = one \o t
    BY <1>12
  <2> HIDE DEF z
  <2>2. Display(r, z \o back) = Display(Display(r, z), back)
    <3>1. back \in Seq(W) /\ z \in Seq(W)
      BY <1>12, <2>1
    <3> QED BY <3>1, DisplayConcat
  <2>3. Display(r, one \o t) = Display(Display(r, one), t)
    BY <1>12, DisplayConcat
  <2> QED BY <2>1, <2>2, <2>3 DEF z
<1>14. Display(Row(D, k + 1 + Len(t)), back) = Row(D, k + 1)
  <2> DEFINE h == k + 1 + Len(t)
             m == Len(s) - c + 1
  <2>1. h \in Nat /\ m \in 0..h /\ h - m = k + 1
    BY <1>0, <1>7
  <2>2. "backspace" \notin Continuation
    BY DEF OneKeyReads, Keys
  <2> HIDE DEF h, m
  <2>3. Display(Row(D, h), Times(m, "backspace")) = Row(D, h - m)
    BY <2>1, <2>2, DisplayBack
  <2> QED BY <2>1, <2>3 DEF h, m, back
<1>15. RowFits(Plain, Display(r, one \o a \o blank \o back), n, k)
  BY <1>10, <1>11, <1>13, <1>14, FitsAt
<1>16. k \in 0..Len(n)
  BY <1>0, <1>7
<1> QED BY <1>6, <1>15, <1>16 DEF n, k, one, blank, back

(* To the start, blanks over the old line and back, and the new line.      *)
LEMMA ReplaceFits ==
    ASSUME NEW Plain, OneKeyReads(Plain), NEW r, NEW s \in Seq(Plain),
           NEW c \in 0..Len(s), RowFits(Plain, r, s, c), NEW n \in Seq(Plain)
    PROVE  RowFits(Plain,
              Display(r, Times(c, "backspace") \o Times(Len(s), " ")
                           \o Times(Len(s), "backspace") \o n),
              n, Len(n))
<1> DEFINE C == r.cells
           start == Times(c, "backspace")
           blanks == Times(Len(s), " ")
           back == Times(Len(s), "backspace")
           none == <<>>
           W == Visible(Plain) \cup {"backspace"}
<1>0. Len(s) \in Nat /\ Len(n) \in Nat /\ c \in Nat /\ c <= Len(s) /\ 0 \in 0..Len(s)
  BY LenProperties
<1>1. CellsFit(Plain, C, s) /\ r = Row(C, c + 1)
  BY DEF RowFits
<1> HIDE DEF C
<1>2. /\ blanks \in Seq(Visible(Plain)) /\ Len(blanks) = Len(s)
      /\ \A i \in 1..Len(s) : blanks[i] = " "
  <2>1. " " \in Visible(Plain)
    BY DEF Visible
  <2> QED BY <1>0, <2>1, TimesOneMore
<1>3. start \in Seq(W) /\ blanks \in Seq(W) /\ back \in Seq(W) /\ n \in Seq(W)
  <2>1. start \in Seq(W) /\ back \in Seq(W)
    BY <1>0, TimesOneMore
  <2>2. Visible(Plain) \subseteq W
    OBVIOUS
  <2>3. n \in Seq(Visible(Plain))
    BY PlainCells
  <2>4. blanks \in Seq(W) /\ n \in Seq(W)
    BY <1>2, <2>2, <2>3, SeqMonotonic
  <2> QED BY <2>1, <2>4
<1>4. none \in Seq(Plain) /\ Len(none) = 0
  BY EmptySeq
<1>5. "backspace" \notin Continuation
  BY DEF OneKeyReads, Keys
<1> HIDE DEF W, blanks, none
<1>6. Display(r, start) = Row(C, 0 + 1)
  <2> DEFINE h == c + 1
  <2>1. h \in Nat /\ c \in 0..h /\ h - c = 0 + 1
    BY <1>0
  <2> HIDE DEF h
  <2>2. Display(Row(C, h), Times(c, "backspace")) = Row(C, h - c)
    BY <1>5, <2>1, DisplayBack
  <2> QED BY <1>1, <2>1, <2>2 DEF h
<1> DEFINE D == Over(C, 0 + 1, blanks)
<1>7. Display(Row(C, 0 + 1), blanks) = Row(D, 0 + 1 + Len(blanks)) /\ CellsFit(Plain, D, none)
  <2>1. Rewrites(none, s, 0, blanks)
    <3>1. Len(blanks) = Len(s)
      BY <1>2
    <3>2. 0 <= Len(none) /\ Len(none) <= 0 + Len(blanks) /\ Len(s) <= 0 + Len(blanks)
      BY <1>0, <1>4, <3>1
    <3>3. \A i \in 1..Len(none) : FALSE
      BY <1>4
    <3>4. \A i \in 1..Len(blanks) : blanks[i] = " "
      BY <1>2, <3>1
    <3> QED BY <3>2, <3>3, <3>4 DEF Rewrites
  <2> DEFINE k == 0
  <2>2. k \in 0..Len(s) /\ Rewrites(none, s, k, blanks)
    BY <1>0, <2>1
  <2> HIDE DEF k
  <2>3. /\ Display(Row(C, k + 1), blanks) = Row(Over(C, k + 1, blanks), k + 1 + Len(blanks))
        /\ CellsFit(Plain, Over(C, k + 1, blanks), none)
    BY <1>1, <1>2, <1>4, <2>2, TextShown
  <2> QED BY <2>3 DEF k
<1> HIDE DEF D
<1>8. Display(Row(D, 0 + 1 + Len(blanks)), back) = Row(D, 0 + 1)
  <2> DEFINE h == 0 + 1 + Len(blanks)
             m == Len(s)
  <2>1. h \in Nat /\ m \in 0..h /\ h - m = 0 + 1
    <3>1. h = m + 1 /\ m \in Nat
      <4>1. Len(blanks) = Len(s)
        BY <1>2
      <4> QED BY <1>0, <4>1
    <3> HIDE DEF h, m
    <3> QED BY <3>1
  <2> HIDE DEF h, m
  <2>2. Display(Row(D, h), Times(m, "backspace")) = Row(D, h - m)
    BY <1>5, <2>1, DisplayBack
  <2> QED BY <2>1, <2>2 DEF h, m
<1> HIDE DEF start, back
<1> DEFINE E == Over(D, 0 + 1, n)
<1>9. Display(Row(D, 0 + 1), n) = Row(E, Len(n) + 1) /\ CellsFit(Plain, E, n)
  <2>1. Rewrites(n, none, 0, n)
    <3>1. \A i \in 1..Len(n) : ~(i <= 0) /\ i - 0 = i /\ ~(0 + i > Len(n))
      BY <1>0
    <3>2. 0 <= Len(n) /\ Len(n) <= 0 + Len(n) /\ Len(none) <= 0 + Len(n)
      BY <1>0, <1>4
    <3> QED BY <3>1, <3>2 DEF Rewrites
  <2> DEFINE k == 0
  <2>2. k \in 0..Len(none) /\ Rewrites(n, none, k, n) /\ n \in Seq(Visible(Plain))
    BY <1>4, <2>1, PlainCells
  <2> HIDE DEF k
  <2>3. /\ Display(Row(D, k + 1), n) = Row(Over(D, k + 1, n), k + 1 + Len(n))
        /\ CellsFit(Plain, Over(D, k + 1, n), n)
    BY <1>4, <1>7, <2>2, TextShown
  <2>4. 0 + 1 + Len(n) = Len(n) + 1
    BY <1>0
  <2> QED BY <2>3, <2>4 DEF k
<1> HIDE DEF E
<1>10. Display(r, start \o blanks \o back \o n)
         = Display(Display(Display(Display(r, start), blanks), back), n)
  <2> DEFINE y == start \o blanks
             z == y \o back
  <2>1. y \in Seq(W)
    BY <1>3, ConcatProperties
  <2>2. Display(r, y) = Display(Display(r, start), blanks)
    BY <1>3, DisplayConcat
  <2> HIDE DEF y
  <2>3. z \in Seq(W)
    BY <1>3, <2>1, ConcatProperties
  <2>4. Display(r, z) = Display(Display(r, y), back)
    BY <1>3, <2>1, DisplayConcat
  <2> HIDE DEF z
  <2>5. Display(r, z \o n) = Display(Display(r, z), n)
    BY <1>3, <2>3, DisplayConcat
  <2> QED BY <2>2, <2>4, <2>5 DEF y, z
<1>11. Display(r, start \o blanks \o back \o n) = Row(E, Len(n) + 1)
  BY <1>6, <1>7, <1>8, <1>9, <1>10
<1>12. RowFits(Plain, Display(r, start \o blanks \o back \o n), n, Len(n))
  BY <1>9, <1>11, FitsAt
<1> QED BY <1>12 DEF start, blanks, back

-----------------------------------------------------------------------------
(* The row and the line, whose text may have characters of several bytes.  *)
Text(Plain) == Plain \cup Continuation

Bytes(Plain) == Text(Plain) \cup {" ", "prompt", "backspace", "left", "right"}

LEMMA BytesHaveBlank == \A Plain : HasBlank(Bytes(Plain))
  BY Zenon DEF HasBlank, Bytes

LEMMA BytesShown ==
    ASSUME NEW Plain, OneKeyReads(Plain)
    PROVE  /\ \A b \in Bytes(Plain) : IsShown(b)
           /\ \A t \in Seq(Text(Plain)) :
                 t \in Seq(Bytes(Plain)) /\ Characters(t) \in Seq(Plain)
           /\ \A x \in {"backspace", " "} : \A n \in Nat :
                 Times(n, x) \in Seq(Bytes(Plain)) /\ Characters(Times(n, x)) = Times(n, x)
<1>1. ASSUME NEW b \in Bytes(Plain) PROVE IsShown(b)
  <2>1. CASE b \in Continuation
    BY <2>1 DEF OneKeyReads, IsShown, Keys
  <2>2. CASE b \in Plain \cup {" "}
    BY <2>2 DEF OneKeyReads, IsShown, IsCharacter
  <2>3. CASE b \in {"prompt", "backspace", "left", "right"} /\ b \notin Continuation
    BY <2>3 DEF IsShown
  <2> QED BY <1>1, <2>1, <2>2, <2>3 DEF Bytes, Text
<1>2. ASSUME NEW t \in Seq(Text(Plain))
      PROVE  t \in Seq(Bytes(Plain)) /\ Characters(t) \in Seq(Plain)
  <2>1. Text(Plain) \subseteq Bytes(Plain) /\ Text(Plain) \ Continuation \subseteq Plain
    BY DEF Text, Bytes
  <2>2. Characters(t) \in Seq(Text(Plain) \ Continuation)
    BY CharactersTyped
  <2> QED BY <2>1, <2>2, SeqMonotonic
<1>3. ASSUME NEW x \in {"backspace", " "}, NEW n \in Nat
      PROVE  Times(n, x) \in Seq(Bytes(Plain)) /\ Characters(Times(n, x)) = Times(n, x)
  <2>1. x \in Bytes(Plain) /\ {x} \cap Continuation = {} /\ x \in {x}
    BY DEF Bytes, OneKeyReads, Keys, IsCharacter
  <2>2. Times(n, x) \in Seq(Bytes(Plain)) /\ Times(n, x) \in Seq({x})
    BY <2>1, TimesOneMore
  <2> QED BY <2>1, <2>2, AllCharacters
<1> QED BY <1>1, <1>2, <1>3

(* A line has a character of several bytes.                                *)
HasWide(s) == \E i \in 1..Len(s) : s[i] \in Continuation

LEMMA NarrowText ==
    ASSUME NEW Plain, NEW s \in Seq(Text(Plain)), ~HasWide(s)
    PROVE  s \in Seq(Plain)
<1>1. ASSUME NEW i \in 1..Len(s) PROVE s[i] \in Plain
  <2>1. s[i] \in Text(Plain)
    BY ElementOfSeq
  <2> QED BY <2>1 DEF HasWide, Text
<1>2. Len(s) \in Nat /\ s \in [1..Len(s) -> Text(Plain)]
  BY LenProperties
<1>3. s \in [1..Len(s) -> Plain]
  BY <1>1, <1>2
<1> QED BY <1>2, <1>3, SeqDef

(* The first bytes of the row's cells are those of the prompt and of the   *)
(* line s, and the column is that of position c.                           *)
RowIs(Plain, r, s, c) ==
    \E q : /\ Alike(Bytes(Plain), r, q)
           /\ RowFits(Plain, q, Characters(s), Len(Characters(SubSeq(s, 1, c))))

LEMMA RowIsOf ==
    \A Plain, r, s, c, q :
        /\ Alike(Bytes(Plain), r, q)
        /\ RowFits(Plain, q, Characters(s), Len(Characters(SubSeq(s, 1, c))))
        => RowIs(Plain, r, s, c)
  BY DEF RowIs

(* On a line without one, the characters are the bytes.                    *)
LEMMA NarrowRow ==
    ASSUME NEW Plain, OneKeyReads(Plain), NEW r, NEW s \in Seq(Plain), NEW c \in 0..Len(s)
    PROVE  /\ Characters(s) = s /\ Characters(SubSeq(s, 1, c)) = SubSeq(s, 1, c)
           /\ Len(SubSeq(s, 1, c)) = c
           /\ RowIs(Plain, r, s, c) =>
                 \E q : Alike(Bytes(Plain), r, q) /\ RowFits(Plain, q, s, c)
           /\ \A q : Alike(Bytes(Plain), r, q) /\ RowFits(Plain, q, s, c)
                     => RowIs(Plain, r, s, c)
<1> DEFINE u == SubSeq(s, 1, c)
<1>1. u \in Seq(Plain) /\ Len(u) = c
  BY PrefixOf
<1>2. Plain \cap Continuation = {}
  BY DEF OneKeyReads, IsCharacter
<1>3. Characters(s) = s
  BY <1>2, AllCharacters
<1> HIDE DEF u
<1>4. Characters(u) = u
  BY <1>1, <1>2, AllCharacters
<1> QED BY <1>1, <1>3, <1>4 DEF RowIs, u

LEMMA WholeOf ==
    ASSUME NEW T, NEW s \in Seq(T)
    PROVE  SubSeq(s, 1, Len(s)) = s
<1>1. Len(s) \in 0..Len(s)
  BY LenProperties
<1>2. /\ SubSeq(s, 1, Len(s)) \in Seq(T) /\ Len(SubSeq(s, 1, Len(s))) = Len(s)
      /\ \A i \in 1..Len(s) : SubSeq(s, 1, Len(s))[i] = s[i]
  BY <1>1, PrefixOf
<1> QED BY <1>2, SeqEqual

LEMMA ReplaceIs ==
    ASSUME NEW Plain, OneKeyReads(Plain), NEW r, NEW s \in Seq(Plain),
           NEW c \in 0..Len(s), RowIs(Plain, r, s, c), NEW n \in Seq(Text(Plain))
    PROVE  RowIs(Plain,
              Display(r, Times(c, "backspace") \o Times(Len(s), " ")
                           \o Times(Len(s), "backspace") \o n),
              n, Len(n))
<1> DEFINE B == Bytes(Plain)
           x == Times(c, "backspace")
           y == Times(Len(s), " ")
           z == Times(Len(s), "backspace")
           w == x \o y \o z
           m == Characters(n)
<1>1. PICK q : Alike(B, r, q) /\ RowFits(Plain, q, s, c)
  BY NarrowRow
<1>2. c \in Nat /\ Len(s) \in Nat
  BY LenProperties
<1>3. /\ x \in Seq(B) /\ y \in Seq(B) /\ z \in Seq(B) /\ n \in Seq(B)
      /\ Characters(x) = x /\ Characters(y) = y /\ Characters(z) = z /\ m \in Seq(Plain)
  BY <1>2, BytesShown
<1>4. RowFits(Plain, Display(q, w \o m), m, Len(m))
  BY <1>1, <1>3, ReplaceFits
<1> HIDE DEF x, y, z
<1>5. x \o y \in Seq(B) /\ Characters(x \o y) = x \o y
  <2> HIDE DEF B
  <2>1. x \in Seq(B) /\ y \in Seq(B)
    BY <1>3
  <2>2. x \o y \in Seq(B)
    BY <2>1, ConcatProperties
  <2>3. Characters(x \o y) = Characters(x) \o Characters(y)
    BY <2>1, CharactersConcat
  <2> QED BY <1>3, <2>2, <2>3
<1>6. w \in Seq(B) /\ Characters(w) = w
  <2> DEFINE v == x \o y
  <2>1. v \in Seq(B) /\ Characters(v) = v
    BY <1>5
  <2> HIDE DEF v
  <2>2. v \o z \in Seq(B) /\ Characters(v \o z) = v \o z
    <3> HIDE DEF B
    <3>1. v \in Seq(B) /\ z \in Seq(B)
      BY <1>3, <2>1
    <3>2. v \o z \in Seq(B)
      BY <3>1, ConcatProperties
    <3>3. Characters(v \o z) = Characters(v) \o Characters(z)
      BY <3>1, CharactersConcat
    <3> QED BY <1>3, <2>1, <3>2, <3>3
  <2> QED BY <2>2 DEF v
<1> HIDE DEF w
<1>7. w \o n \in Seq(B) /\ Characters(w \o n) = w \o m
  BY <1>3, <1>6, CharactersConcat, ConcatProperties
<1>8. HasBlank(B) /\ \A b \in B : IsShown(b)
  BY BytesShown, BytesHaveBlank
<1> HIDE DEF B
<1>9. Alike(B, Display(r, w \o n), Display(q, w \o m))
  <2> DEFINE t == w \o n
  <2>1. t \in Seq(B)
    BY <1>7
  <2> HIDE DEF t
  <2>2. Alike(B, Display(r, t), Display(q, Characters(t)))
    BY <1>1, <1>8, <2>1, DisplayAlike
  <2> QED BY <1>7, <2>2 DEF t
<1>10. m = Characters(SubSeq(n, 1, Len(n)))
  BY WholeOf
<1>11. RowIs(Plain, Display(r, w \o n), n, Len(n))
  BY <1>4, <1>9, <1>10, RowIsOf DEF B
<1> QED BY <1>11 DEF w, x, y, z

(* Text is inserted in a line of one byte a character, or at the end.      *)
LEMMA InsertIs ==
    ASSUME NEW Plain, OneKeyReads(Plain), NEW r, NEW s \in Seq(Text(Plain)),
           NEW c \in 0..Len(s), RowIs(Plain, r, s, c), NEW d \in Seq(Text(Plain)),
           NEW b, NEW a, Splits(Text(Plain), s, c, b, a),
           HasWide(s) => c = Len(s)
    PROVE  RowIs(Plain, Display(r, d \o a \o Times(Len(s) - c, "backspace")),
                 b \o d \o a, c + Len(d))
<1> DEFINE B == Bytes(Plain)
           T == Text(Plain)
           k == Len(s) - c
           z == Times(k, "backspace")
           n == b \o d \o a
           bb == Characters(b)
           dd == Characters(d)
           aa == Characters(a)
           ss == Characters(s)
<1>1. /\ b \in Seq(T) /\ Len(b) = c /\ \A i \in 1..c : b[i] = s[i]
      /\ a \in Seq(T) /\ Len(a) = k /\ \A i \in 1..k : a[i] = s[c + i]
      /\ k \in Nat /\ c \in Nat /\ Len(s) \in Nat /\ Len(d) \in Nat
  <2>1. Len(s) \in Nat /\ Len(d) \in Nat
    BY LenProperties
  <2> QED BY <2>1 DEF Splits
<1>2. /\ bb \in Seq(Plain) /\ dd \in Seq(Plain) /\ aa \in Seq(Plain) /\ ss \in Seq(Plain)
      /\ a \in Seq(B) /\ d \in Seq(B) /\ z \in Seq(B) /\ Characters(z) = z
  BY <1>1, BytesShown
<1>3. s = b \o a
  <2>1. /\ b \o a \in Seq(T) /\ Len(b \o a) = Len(b) + Len(a)
        /\ \A i \in 1..Len(b) + Len(a) : (b \o a)[i] = IF i <= Len(b) THEN b[i] ELSE a[i - Len(b)]
    <3>1. b \in Seq(T) /\ a \in Seq(T)
      BY <1>1
    <3> HIDE DEF T
    <3> QED BY <3>1, ConcatProperties
  <2> DEFINE v == b \o a
  <2> HIDE DEF v, k
  <2>2. Len(v) = Len(s)
    BY <1>1, <2>1 DEF v, k
  <2>3. ASSUME NEW i \in 1..Len(s) PROVE s[i] = v[i]
    <3>1. v[i] = IF i <= c THEN b[i] ELSE a[i - c]
      BY <1>1, <2>1, <2>2 DEF v
    <3>2. CASE i <= c
      BY <1>1, <3>1, <3>2
    <3>3. CASE ~(i <= c)
      <4>1. i - c \in 1..k /\ c + (i - c) = i
        BY <1>1, <3>3 DEF k
      <4>2. a[i - c] = s[c + (i - c)]
        BY <1>1, <4>1
      <4> QED BY <3>1, <3>3, <4>1, <4>2
    <3> QED BY <3>2, <3>3
  <2>4. s = v
    BY <2>1, <2>2, <2>3, SeqEqual DEF v
  <2> QED BY <2>4 DEF v
<1>4. SubSeq(s, 1, c) = b
  <2>1. /\ SubSeq(s, 1, c) \in Seq(T) /\ Len(SubSeq(s, 1, c)) = c
        /\ \A i \in 1..c : SubSeq(s, 1, c)[i] = s[i]
    BY PrefixOf
  <2> QED BY <1>1, <2>1, SeqEqual
<1> DEFINE cc == Len(bb)
<1>5. PICK q : Alike(B, r, q) /\ RowFits(Plain, q, ss, cc)
  BY <1>4 DEF RowIs
<1>6. ss = bb \o aa /\ Len(ss) = cc + Len(aa) /\ cc \in Nat /\ Len(aa) \in Nat
  <2>1. ss = bb \o aa
    BY <1>1, <1>3, CharactersConcat
  <2> HIDE DEF bb, aa, ss
  <2> QED BY <1>2, <2>1, ConcatProperties, LenProperties
<1>7. Len(aa) = k
  <2>1. CASE HasWide(s)
    <3>1. Len(a) = 0
      BY <1>1, <2>1
    <3>2. a = <<>>
      BY <1>1, <3>1, EmptySeq
    <3> QED BY <1>1, <3>1, <3>2, CharactersOfNothing
  <2>2. CASE ~HasWide(s)
    <3>1. ASSUME NEW i \in 1..Len(a) PROVE a[i] \notin Continuation
      <4>1. c + i \in 1..Len(s) /\ a[i] = s[c + i]
        BY <1>1
      <4> QED BY <2>2, <4>1 DEF HasWide
    <3>2. a \in Seq(Plain)
      BY <1>1, <3>1, NarrowText DEF HasWide
    <3>3. Plain \cap Continuation = {}
      BY DEF OneKeyReads, IsCharacter
    <3>4. aa = a
      BY <3>2, <3>3, AllCharacters
    <3> QED BY <1>1, <3>4
  <2> QED BY <2>1, <2>2
<1>8. cc \in 0..Len(ss) /\ Len(ss) - cc = k /\ Splits(Plain, ss, cc, bb, aa)
  <2>0. Len(ss) = cc + k
    BY <1>6, <1>7
  <2>1. cc \in 0..Len(ss) /\ Len(ss) - cc = k
    <3> HIDE DEF cc, k
    <3> QED BY <1>1, <1>6, <2>0
  <2> HIDE DEF bb, aa, ss, k
  <2>2. \A i \in 1..Len(bb) + Len(aa) : ss[i] = IF i <= Len(bb) THEN bb[i] ELSE aa[i - Len(bb)]
    BY <1>2, <1>6, ConcatProperties
  <2>3. ASSUME NEW i \in 1..cc PROVE bb[i] = ss[i]
    BY <1>6, <2>2
  <2>4. ASSUME NEW i \in 1..Len(ss) - cc PROVE aa[i] = ss[cc + i]
    <3>1. cc + i \in 1..Len(bb) + Len(aa) /\ ~(cc + i <= Len(bb)) /\ (cc + i) - Len(bb) = i
      BY <1>6, <1>7, <2>1
    <3> QED BY <2>2, <3>1
  <2> QED BY <1>2, <1>7, <2>1, <2>3, <2>4 DEF Splits
<1> HIDE DEF k
<1>9. RowFits(Plain, Display(q, dd \o aa \o z), bb \o dd \o aa, cc + Len(dd))
  <2> HIDE DEF bb, aa, dd, ss, z
  <2> DEFINE h == Len(bb)
  <2>1. h \in 0..Len(ss) /\ Splits(Plain, ss, h, bb, aa) /\ RowFits(Plain, q, ss, h)
    BY <1>5, <1>8
  <2> HIDE DEF h
  <2>2. RowFits(Plain, Display(q, dd \o aa \o Times(Len(ss) - h, "backspace")),
                bb \o dd \o aa, h + Len(dd))
    BY <1>2, <2>1, InsertFits
  <2> QED BY <1>8, <2>2 DEF h, z
<1>10. /\ d \o a \o z \in Seq(B)
       /\ Characters(d \o a \o z) = dd \o aa \o z
  <2> DEFINE v == d \o a
  <2>1. v \in Seq(B) /\ Characters(v) = dd \o aa
    BY <1>2, CharactersConcat, ConcatProperties
  <2> HIDE DEF v, z
  <2>2. v \o z \in Seq(B) /\ Characters(v \o z) = Characters(v) \o z
    <3>1. v \in Seq(B) /\ z \in Seq(B)
      BY <1>2, <2>1
    <3> HIDE DEF B
    <3>2. v \o z \in Seq(B)
      BY <3>1, ConcatProperties
    <3>3. Characters(v \o z) = Characters(v) \o Characters(z)
      BY <3>1, CharactersConcat
    <3> QED BY <1>2, <3>2, <3>3
  <2> QED BY <2>1, <2>2 DEF v
<1>11. HasBlank(B) /\ \A x \in B : IsShown(x)
  BY BytesShown, BytesHaveBlank
<1>12. Alike(B, Display(r, d \o a \o z), Display(q, dd \o aa \o z))
  <2> DEFINE t == d \o a \o z
  <2>1. t \in Seq(B) /\ Characters(t) = dd \o aa \o z
    BY <1>10
  <2> HIDE DEF t, B
  <2>2. Alike(B, Display(r, t), Display(q, Characters(t)))
    BY <1>5, <1>11, <2>1, DisplayAlike
  <2> QED BY <2>1, <2>2 DEF t
<1>13. Characters(n) = bb \o dd \o aa
  <2> DEFINE v == b \o d
  <2>1. v \in Seq(T) /\ Characters(v) = bb \o dd
    BY <1>1, CharactersConcat, ConcatProperties
  <2> HIDE DEF v
  <2>2. Characters(v \o a) = Characters(v) \o aa
    BY <1>1, <2>1, CharactersConcat
  <2> QED BY <2>1, <2>2 DEF v
<1>14. Len(Characters(SubSeq(n, 1, c + Len(d)))) = cc + Len(dd)
  <2> DEFINE v == b \o d
  <2>1. v \in Seq(T) /\ Len(v) = c + Len(d) /\ Characters(v) = bb \o dd
    BY <1>1, CharactersConcat, ConcatProperties
  <2>2. Len(bb \o dd) = cc + Len(dd)
    <3> HIDE DEF bb, dd
    <3> QED BY <1>2, ConcatProperties
  <2> HIDE DEF v, bb, dd
  <2>3. /\ v \o a \in Seq(T) /\ Len(v \o a) = Len(v) + Len(a)
        /\ \A i \in 1..Len(v) + Len(a) : (v \o a)[i] = IF i <= Len(v) THEN v[i] ELSE a[i - Len(v)]
    <3>1. v \in Seq(T) /\ a \in Seq(T)
      BY <1>1, <2>1
    <3> HIDE DEF T
    <3> QED BY <3>1, ConcatProperties
  <2> DEFINE u == v \o a
             h == Len(v)
  <2>4. u \in Seq(T) /\ h \in 0..Len(u) /\ h \in Nat /\ \A i \in 1..h : u[i] = v[i]
    <3>1. Len(v) \in Nat /\ Len(a) \in Nat
      BY <1>1, <2>1, LenProperties
    <3> QED BY <2>3, <3>1
  <2> HIDE DEF u, h
  <2>5. /\ SubSeq(u, 1, h) \in Seq(T) /\ Len(SubSeq(u, 1, h)) = h
        /\ \A i \in 1..h : SubSeq(u, 1, h)[i] = u[i]
    BY <2>4, PrefixOf
  <2>6. SubSeq(u, 1, h) = v
    BY <2>1, <2>4, <2>5, SeqEqual DEF h
  <2>7. n = u /\ c + Len(d) = h
    BY <2>1 DEF u, h, v
  <2> QED BY <2>1, <2>2, <2>6, <2>7
<1>15. RowIs(Plain, Display(r, d \o a \o z), n, c + Len(d))
  <2> DEFINE p == Display(q, dd \o aa \o z)
  <2>1. /\ Alike(Bytes(Plain), Display(r, d \o a \o z), p)
        /\ RowFits(Plain, p, Characters(n), Len(Characters(SubSeq(n, 1, c + Len(d)))))
    BY <1>9, <1>12, <1>13, <1>14
  <2> HIDE DEF p, n
  <2> QED BY <2>1, RowIsOf
<1> QED BY <1>15 DEF n, z, k

LEMMA OneLong == \A T : \A x \in T : <<x>> \in Seq(T)
  OBVIOUS

LEMMA EraseIs ==
    ASSUME NEW Plain, OneKeyReads(Plain), NEW r, NEW s \in Seq(Plain),
           NEW c \in 0..Len(s), c > 0, RowIs(Plain, r, s, c),
           NEW b, NEW x, Splits(Plain, s, c - 1, b, x), NEW y, NEW a, Splits(Plain, s, c, y, a)
    PROVE  RowIs(Plain,
              Display(r, <<"backspace">> \o a \o <<" ">> \o Times(Len(s) - c + 1, "backspace")),
              b \o a, c - 1)
<1> DEFINE B == Bytes(Plain)
           T == Plain \cup {" ", "backspace"}
           e == <<"backspace">>
           f == <<" ">>
           z == Times(Len(s) - c + 1, "backspace")
           w == e \o a \o f \o z
           n == b \o a
           k == c - 1
<1>1. PICK q : Alike(B, r, q) /\ RowFits(Plain, q, s, c)
  BY NarrowRow
<1>2. /\ n \in Seq(Plain) /\ k \in 0..Len(n) /\ RowFits(Plain, Display(q, w), n, k)
  BY <1>1, BackspaceFits
<1>3. w \in Seq(T)
  <2>0. Len(s) - c + 1 \in Nat
    BY LenProperties
  <2>1. a \in Seq(Plain) /\ Plain \subseteq T /\ "backspace" \in T /\ f \in Seq(T)
    <3>1. a \in Seq(Plain)
      BY DEF Splits
    <3>2. Plain \subseteq T /\ "backspace" \in T /\ " " \in T
      BY Zenon
    <3> HIDE DEF T
    <3>3. f \in Seq(T)
      BY <3>2, OneLong, Zenon
    <3> QED BY <3>1, <3>2, <3>3, Zenon
  <2>2. e \in Seq(T) /\ f \in Seq(T) /\ z \in Seq(T) /\ a \in Seq(T)
    <3> DEFINE m == Len(s) - c + 1
    <3>0. m \in Nat
      BY <2>0
    <3> HIDE DEF T, f, m
    <3>1. e \in Seq(T)
      BY <2>1
    <3>2. z \in Seq(T)
      <4>1. Times(m, "backspace") \in Seq(T)
        BY <2>1, <3>0, TimesOneMore
      <4> QED BY <4>1 DEF m
    <3>3. a \in Seq(T)
      BY <2>1, SeqMonotonic
    <3> QED BY <2>1, <3>1, <3>2, <3>3
  <2> HIDE DEF e, f, z, T
  <2>3. e \o a \in Seq(T)
    BY <2>2, ConcatProperties
  <2>4. e \o a \o f \in Seq(T)
    BY <2>2, <2>3, ConcatProperties
  <2> QED BY <2>2, <2>4, ConcatProperties
<1>4. T \subseteq B /\ T \cap Continuation = {}
  BY DEF Bytes, Text, OneKeyReads, Keys, IsCharacter
<1> HIDE DEF w, T
<1>5. w \in Seq(B) /\ Characters(w) = w
  BY <1>3, <1>4, SeqMonotonic, AllCharacters
<1>6. HasBlank(B) /\ \A i \in B : IsShown(i)
  BY BytesShown, BytesHaveBlank
<1> HIDE DEF B
<1>7. Alike(B, Display(r, w), Display(q, w))
  BY <1>1, <1>5, <1>6, DisplayAlike
<1> HIDE DEF n, k
<1>8. RowIs(Plain, Display(r, w), n, k)
  BY <1>2, <1>7, NarrowRow DEF B
<1> QED BY <1>8 DEF w, n, k, e, f, z

LEMMA MoveIs ==
    ASSUME NEW Plain, OneKeyReads(Plain), NEW r, NEW s \in Seq(Plain),
           NEW c \in 0..Len(s), RowIs(Plain, r, s, c), NEW x, NEW d \in 0..Len(s),
           \/ x = "right" /\ d = c + 1
           \/ x = "left" /\ d = c - 1
    PROVE  RowIs(Plain, Display(r, <<x>>), s, d)
<1> DEFINE B == Bytes(Plain)
           w == <<x>>
<1>1. PICK q : Alike(B, r, q) /\ RowFits(Plain, q, s, c)
  BY NarrowRow
<1> DEFINE C == q.cells
<1>2. CellsFit(Plain, C, s) /\ q = Row(C, c + 1)
  BY <1>1 DEF RowFits
<1>3. x \notin Continuation /\ x \in B
  BY DEF OneKeyReads, Keys, Bytes
<1> HIDE DEF C
<1>4. Display(q, w) = Row(C, d + 1)
  <2>1. Put(Row(C, c + 1), x) = Row(C, d + 1)
    <3>1. CASE x = "right"
      BY <1>3, <3>1 DEF Put, Row
    <3>2. CASE x = "left"
      <4>1. Put(Row(C, c + 1), x) = Row(C, IF c + 1 = 0 THEN 0 ELSE (c + 1) - 1)
        BY <1>3, <3>2 DEF Put, Row
      <4>2. (IF c + 1 = 0 THEN 0 ELSE (c + 1) - 1) = d + 1
        BY <3>2
      <4> QED BY <4>1, <4>2
    <3> QED BY <3>1, <3>2
  <2> QED BY <1>2, <2>1, DisplayOne
<1>5. RowFits(Plain, Display(q, w), s, d)
  BY <1>2, <1>4, FitsAt
<1>6. w \in Seq(B) /\ Characters(w) = w
  <2>1. w \in Seq({x}) /\ w \in Seq(B) /\ {x} \cap Continuation = {}
    BY <1>3
  <2> QED BY <2>1, AllCharacters
<1>7. HasBlank(B) /\ \A i \in B : IsShown(i)
  BY BytesShown, BytesHaveBlank
<1> HIDE DEF B, w
<1>8. Alike(B, Display(r, w), Display(q, w))
  BY <1>1, <1>6, <1>7, DisplayAlike
<1>9. RowIs(Plain, Display(r, w), s, d)
  BY <1>5, <1>8, NarrowRow DEF B
<1> QED BY <1>9 DEF w

EditorTyped(T) ==
    /\ line \in Seq(T) /\ saved \in Seq(T) /\ history \in Seq(Seq(T))
    /\ cursor \in 0..Len(line) /\ idx \in 0..Len(history)

RowIsLine(Plain) == RowIs(Plain, row, line, cursor)

LEMMA BrowsedFits ==
    ASSUME NEW Plain, OneKeyReads(Plain), EditorTyped(Text(Plain)), KeyUp \/ KeyDown
    PROVE  EditorTyped(Text(Plain))' /\ (RowIsLine(Plain) /\ ~HasWide(line) => RowIsLine(Plain)')
<1>1. /\ line \in Seq(Text(Plain)) /\ saved \in Seq(Text(Plain)) /\ history \in Seq(Seq(Text(Plain)))
      /\ cursor \in 0..Len(line) /\ idx \in 0..Len(history) /\ Len(history) \in Nat
  BY LenProperties DEF EditorTyped
<1>2. /\ saved' \in Seq(Text(Plain)) /\ history' = history /\ idx' \in 0..Len(history)
      /\ \E n \in Seq(Text(Plain)) : Replace(n)
  <2>1. CASE KeyUp
    <3>1. history' = history /\ saved' \in Seq(Text(Plain)) /\ Replace(history[idx'])
      BY <1>1, <2>1 DEF KeyUp
    <3>2. idx' \in 1..Len(history)
      <4>1. CASE idx = 0
        <5>1. history # <<>> /\ idx' = Len(history)
          BY <2>1, <4>1 DEF KeyUp
        <5>2. Len(history) \in Nat \ {0}
          BY <1>1, <5>1, EmptySeq
        <5> QED BY <5>1, <5>2
      <4>2. CASE idx # 0
        <5>1. idx > 1 /\ idx' = idx - 1
          BY <2>1, <4>2 DEF KeyUp
        <5> QED BY <1>1, <5>1
      <4> QED BY <4>1, <4>2
    <3>3. history[idx'] \in Seq(Text(Plain))
      BY <1>1, <3>2, ElementOfSeq
    <3> QED BY <1>1, <3>1, <3>2, <3>3
  <2>2. CASE KeyDown
    <3>1. /\ history' = history /\ saved' = saved /\ idx # 0
          /\ idx' = (IF idx < Len(history) THEN idx + 1 ELSE 0)
          /\ Replace(IF idx' = 0 THEN saved ELSE history[idx'])
      BY <2>2 DEF KeyDown
    <3>2. idx' \in 0..Len(history)
      BY <1>1, <3>1
    <3>3. (IF idx' = 0 THEN saved ELSE history[idx']) \in Seq(Text(Plain))
      <4>1. CASE idx' = 0
        BY <1>1, <4>1
      <4>2. CASE idx' # 0
        <5>1. idx' \in 1..Len(history)
          BY <1>1, <3>2, <4>2
        <5>2. history[idx'] \in Seq(Text(Plain))
          BY <1>1, <5>1, ElementOfSeq
        <5> QED BY <4>2, <5>2
      <4> QED BY <4>1, <4>2
    <3> QED BY <1>1, <3>1, <3>2, <3>3
  <2> QED BY <2>1, <2>2
<1>3. PICK n \in Seq(Text(Plain)) : Replace(n)
  BY <1>2
<1>4. /\ line' = n /\ cursor' = Len(n) /\ Len(n) \in Nat
      /\ row' = Display(row, Times(cursor, "backspace") \o Times(Len(line), " ")
                               \o Times(Len(line), "backspace") \o n)
  BY <1>3, LenProperties DEF Replace, AtEnd, Echo, ToStart
<1>5. EditorTyped(Text(Plain))'
  <2>0. line' = n /\ cursor' = Len(n) /\ Len(n) \in Nat
    BY <1>4
  <2>1. line' \in Seq(Text(Plain)) /\ cursor' \in 0..Len(line')
    BY <2>0
  <2>2. saved' \in Seq(Text(Plain)) /\ history' \in Seq(Seq(Text(Plain))) /\ idx' \in 0..Len(history')
    BY <1>1, <1>2
  <2> QED BY <2>1, <2>2 DEF EditorTyped
<1>6. ASSUME RowIsLine(Plain), ~HasWide(line) PROVE RowIsLine(Plain)'
  <2>1. line \in Seq(Plain)
    BY <1>1, <1>6, NarrowText
  <2>2. RowIs(Plain, row', n, Len(n))
    BY <1>1, <1>4, <1>6, <2>1, ReplaceIs DEF RowIsLine
  <2> QED BY <1>4, <2>2 DEF RowIsLine
<1> QED BY <1>5, <1>6

LEMMA MovedFits ==
    ASSUME NEW Plain, OneKeyReads(Plain), EditorTyped(Text(Plain)), KeyRight \/ KeyLeft
    PROVE  EditorTyped(Text(Plain))' /\ (RowIsLine(Plain) /\ ~HasWide(line) => RowIsLine(Plain)')
<1>1. /\ line \in Seq(Text(Plain)) /\ cursor \in 0..Len(line) /\ Len(line) \in Nat
  BY LenProperties DEF EditorTyped
<1>2. UNCHANGED <<line, history, idx, saved>>
  BY DEF KeyRight, KeyLeft
<1>3. cursor' \in 0..Len(line)
  BY <1>1 DEF KeyRight, KeyLeft
<1>4. EditorTyped(Text(Plain))'
  BY <1>2, <1>3 DEF EditorTyped
<1>5. ASSUME RowIsLine(Plain), ~HasWide(line) PROVE RowIsLine(Plain)'
  <2>1. line \in Seq(Plain) /\ RowIs(Plain, row, line, cursor)
    BY <1>1, <1>5, NarrowText DEF RowIsLine
  <2>2. CASE KeyRight
    <3>1. row' = Display(row, <<"right">>) /\ cursor' = cursor + 1
      BY <2>2 DEF KeyRight, Echo
    <3>2. RowIs(Plain, row', line, cursor')
      BY <1>1, <1>3, <2>1, <3>1, MoveIs
    <3> QED BY <1>2, <3>2 DEF RowIsLine
  <2>3. CASE KeyLeft
    <3>1. row' = Display(row, <<"left">>) /\ cursor' = cursor - 1
      BY <2>3 DEF KeyLeft, Echo
    <3>2. RowIs(Plain, row', line, cursor')
      BY <1>1, <1>3, <2>1, <3>1, MoveIs
    <3> QED BY <1>2, <3>2 DEF RowIsLine
  <2> QED BY <2>2, <2>3
<1> QED BY <1>4, <1>5

LEMMA ErasedFits ==
    ASSUME NEW Plain, OneKeyReads(Plain), EditorTyped(Text(Plain)), Backspace
    PROVE  EditorTyped(Text(Plain))' /\ (RowIsLine(Plain) /\ ~HasWide(line) => RowIsLine(Plain)')
<1> DEFINE b == SubSeq(line, 1, cursor - 1)
           x == SubSeq(line, (cursor - 1) + 1, Len(line))
           y == SubSeq(line, 1, cursor)
           a == SubSeq(line, cursor + 1, Len(line))
           k == cursor - 1
<1>1. /\ line \in Seq(Text(Plain)) /\ cursor \in 0..Len(line) /\ Len(line) \in Nat /\ cursor > 0
      /\ k \in 0..Len(line)
  <2>1. line \in Seq(Text(Plain)) /\ cursor \in 0..Len(line) /\ Len(line) \in Nat
    BY LenProperties DEF EditorTyped
  <2>2. cursor > 0
    BY DEF Backspace
  <2> QED BY <2>1, <2>2
<1>2. /\ UNCHANGED <<history, idx, saved>> /\ line' = b \o a /\ cursor' = k
      /\ row' = Display(row, <<"backspace">> \o a \o <<" ">>
                               \o Times(Len(line) - cursor + 1, "backspace"))
  BY DEF Backspace, Before, After, Echo
<1>3. Splits(Text(Plain), line, k, b, x)
  <2> HIDE DEF k
  <2>1. Splits(Text(Plain), line, k, SubSeq(line, 1, k), SubSeq(line, k + 1, Len(line)))
    BY <1>1, Halves
  <2> QED BY <2>1 DEF k
<1>4. Splits(Text(Plain), line, cursor, y, a)
  BY <1>1, Halves
<1> HIDE DEF b, x, y, a
<1>5. line' \in Seq(Text(Plain)) /\ cursor' \in 0..Len(line')
  <2>1. b \in Seq(Text(Plain)) /\ Len(b) = k /\ a \in Seq(Text(Plain))
    BY <1>3, <1>4 DEF Splits
  <2>2. b \o a \in Seq(Text(Plain)) /\ Len(b \o a) = Len(b) + Len(a) /\ Len(a) \in Nat
    BY <2>1, ConcatProperties, LenProperties
  <2>0. cursor' = k /\ line' = b \o a
    BY <1>2
  <2>3. cursor' = k /\ Len(line') = k + Len(a) /\ k \in Nat
    BY <1>1, <2>0, <2>1, <2>2
  <2> HIDE DEF k
  <2>4. cursor' \in 0..Len(line')
    BY <2>2, <2>3
  <2> QED BY <1>2, <2>2, <2>4
<1>6. EditorTyped(Text(Plain))'
  BY <1>2, <1>5 DEF EditorTyped
<1>7. ASSUME RowIsLine(Plain), ~HasWide(line) PROVE RowIsLine(Plain)'
  <2>1. line \in Seq(Plain) /\ RowIs(Plain, row, line, cursor)
    BY <1>1, <1>7, NarrowText DEF RowIsLine
  <2>2. Splits(Plain, line, cursor - 1, b, x) /\ Splits(Plain, line, cursor, y, a)
    <3> HIDE DEF k
    <3>1. Splits(Plain, line, k, SubSeq(line, 1, k), SubSeq(line, k + 1, Len(line)))
      BY <1>1, <2>1, Halves
    <3>2. Splits(Plain, line, cursor, y, a)
      BY <1>1, <2>1, Halves DEF y, a
    <3> QED BY <3>1, <3>2 DEF k, b, x
  <2>3. RowIs(Plain, row', b \o a, cursor - 1)
    BY <1>1, <1>2, <2>1, <2>2, EraseIs
  <2> QED BY <1>2, <2>3 DEF RowIsLine
<1> QED BY <1>6, <1>7

LEMMA InsertedFits ==
    ASSUME NEW Plain, OneKeyReads(Plain), EditorTyped(Text(Plain)),
           NEW data \in Seq(Text(Plain)), Insert(data)
    PROVE  /\ EditorTyped(Text(Plain))'
           /\ RowIsLine(Plain) /\ (HasWide(line) => cursor = Len(line)) => RowIsLine(Plain)'
<1> DEFINE b == SubSeq(line, 1, cursor)
           a == SubSeq(line, cursor + 1, Len(line))
<1>1. /\ line \in Seq(Text(Plain)) /\ cursor \in 0..Len(line) /\ Len(line) \in Nat
      /\ history \in Seq(Seq(Text(Plain))) /\ Len(history) \in Nat
  BY LenProperties DEF EditorTyped
<1>2. /\ UNCHANGED <<history, saved>> /\ idx' = 0
      /\ line' = b \o data \o a /\ cursor' = cursor + Len(data)
      /\ row' = Display(row, data \o a \o Times(Len(line) - cursor, "backspace"))
  BY DEF Insert, Before, After, Echo
<1>3. Splits(Text(Plain), line, cursor, b, a)
  BY <1>1, Halves
<1> HIDE DEF b, a
<1>4. line' \in Seq(Text(Plain)) /\ cursor' \in 0..Len(line')
  <2>1. b \in Seq(Text(Plain)) /\ Len(b) = cursor /\ a \in Seq(Text(Plain))
    BY <1>3 DEF Splits
  <2> DEFINE z == b \o data
  <2>2. z \in Seq(Text(Plain)) /\ Len(z) = Len(b) + Len(data) /\ Len(data) \in Nat
    BY <2>1, ConcatProperties, LenProperties
  <2> HIDE DEF z
  <2>3. z \o a \in Seq(Text(Plain)) /\ Len(z \o a) = Len(z) + Len(a) /\ Len(a) \in Nat
    BY <2>1, <2>2, ConcatProperties, LenProperties
  <2>4. line' = z \o a
    BY <1>2 DEF z
  <2> QED BY <1>1, <1>2, <2>1, <2>2, <2>3, <2>4
<1>5. EditorTyped(Text(Plain))'
  BY <1>1, <1>2, <1>4 DEF EditorTyped
<1>6. ASSUME RowIsLine(Plain), HasWide(line) => cursor = Len(line)
      PROVE  RowIsLine(Plain)'
  <2>1. RowIs(Plain, row, line, cursor)
    BY <1>6 DEF RowIsLine
  <2>2. RowIs(Plain, row', b \o data \o a, cursor + Len(data))
    BY <1>1, <1>2, <1>3, <1>6, <2>1, InsertIs
  <2> QED BY <1>2, <2>2 DEF RowIsLine
<1> QED BY <1>5, <1>6

(* The line in bounds, and on the row while nothing is printed over it.    *)
LineFits(Plain) == EditorTyped(Text(Plain)) /\ (clean => RowIsLine(Plain))

LEMMA TextOfRead ==
    ASSUME NEW Plain, OneKeyReads(Plain), NEW data \in Input,
           \A k \in Keys : data # <<k>>
    PROVE  data \in Seq(Text(Plain) \cup {"cr"})
BY DEF OneKeyReads, Text

LEMMA EditLine ==
    ASSUME NEW Plain, OneKeyReads(Plain), LineFits(Plain), NEW data \in Input, Edit(data)
    PROVE  LineFits(Plain)'
<1>1. EditKey(data) /\ clean' = (clean /\ ~Miscounts(data))
  BY DEF Edit
<1>2. EditorTyped(Text(Plain))
  BY DEF LineFits
<1>3. EditorTyped(Text(Plain))' /\ (RowIsLine(Plain) /\ ~Miscounts(data) => RowIsLine(Plain)')
  <2>1. CASE (data = <<"up">> /\ KeyUp) \/ (data = <<"down">> /\ KeyDown)
    BY <1>2, <2>1, BrowsedFits DEF Miscounts, HasWide
  <2>2. CASE (data = <<"right">> /\ KeyRight) \/ (data = <<"left">> /\ KeyLeft)
    <3>1. KeyRight => cursor < Len(line)
      BY DEF KeyRight
    <3> QED BY <1>2, <2>2, <3>1, MovedFits DEF Miscounts, HasWide
  <2>3. CASE data = <<"backspace">> /\ Backspace
    BY <1>2, <2>3, ErasedFits DEF Miscounts, HasWide
  <2>4. CASE /\ Head(data) \notin {"up", "down", "right", "left"}
             /\ data \notin {<<"backspace">>, <<"intr">>} /\ ~Contains(data, "cr")
             /\ Insert(data)
    <3>1. ASSUME NEW k \in Keys, data = <<k>> PROVE FALSE
      <4>1. Head(data) = k
        BY <3>1
      <4>2. k \in {"backspace", "intr"}
        BY <2>4, <4>1 DEF Keys
      <4> QED BY <2>4, <3>1, <4>2
    <3>2. data \in Seq(Text(Plain) \cup {"cr"})
      BY <3>1, TextOfRead
    <3>3. data \in Seq(Text(Plain))
      <4>1. ASSUME NEW i \in 1..Len(data) PROVE data[i] \in Text(Plain)
        <5>1. data[i] \in Text(Plain) \cup {"cr"}
          BY <3>2, ElementOfSeq
        <5>2. data[i] # "cr"
          BY <2>4 DEF Contains
        <5> QED BY <5>1, <5>2
      <4>2. Len(data) \in Nat /\ data \in [1..Len(data) -> Text(Plain) \cup {"cr"}]
        BY <3>2, LenProperties
      <4>3. data \in [1..Len(data) -> Text(Plain)]
        BY <4>1, <4>2
      <4> QED BY <4>2, <4>3, SeqDef
    <3>4. ~Miscounts(data) => (HasWide(line) => cursor = Len(line))
      <4>1. cursor \in 0..Len(line) /\ Len(line) \in Nat
        BY <1>2, LenProperties DEF EditorTyped
      <4>2. HasWide(line) /\ ~Miscounts(data) => ~(cursor < Len(line))
        BY DEF Miscounts, HasWide
      <4> QED BY <4>1, <4>2
    <3> QED BY <1>2, <2>4, <3>3, <3>4, InsertedFits
  <2> QED BY <1>1, <2>1, <2>2, <2>3, <2>4 DEF EditKey
<1> QED BY <1>1, <1>3 DEF LineFits

(* What is entered is the line and what precedes the newline.              *)
LEMMA EnteredLine ==
    ASSUME NEW Plain, OneKeyReads(Plain), LineFits(Plain), NEW data \in Input, Enter(data)
    PROVE  LineFits(Plain)'
<1> DEFINE p == SelectInSeq(data, LAMBDA b : b = "cr")
           full == line \o SubSeq(data, 1, p - 1)
           I == {i \in 1..Len(data) : data[i] = "cr"}
<1>1. /\ line \in Seq(Text(Plain)) /\ saved \in Seq(Text(Plain)) /\ history \in Seq(Seq(Text(Plain)))
  BY DEF LineFits, EditorTyped
<1>2. Head(data) \notin {"up", "down", "right", "left"} /\ Contains(data, "cr")
  BY DEF Enter
<1>3. TakeLine(full) /\ clean' = FALSE
  BY DEF Enter
<1>4. data \in Seq(Text(Plain) \cup {"cr"})
  <2>1. ASSUME NEW k \in Keys, data = <<k>> PROVE FALSE
    <3>1. PICK i \in 1..Len(data) : data[i] = "cr"
      BY <1>2 DEF Contains
    <3>2. Len(data) = 1 /\ data[1] = k
      BY <2>1
    <3>3. k = "cr"
      BY <3>1, <3>2
    <3> QED BY <3>3 DEF Keys
  <2> QED BY <2>1, TextOfRead
<1>5. Len(data) \in Nat /\ I \in SUBSET (1..Len(data)) /\ I # {}
  BY <1>2, <1>4, LenProperties DEF Contains
<1>6. p = Min(I)
  BY <1>5 DEF SelectInSeq
<1> HIDE DEF p, I
<1>7. p \in I /\ \A i \in I : p <= i
  BY <1>5, <1>6, FirstExists
<1>8. p \in 1..Len(data) /\ \A i \in 1..p - 1 : i \in 1..Len(data) /\ i \notin I
  <2>1. p \in 1..Len(data)
    BY <1>5, <1>7
  <2>2. ASSUME NEW i \in 1..p - 1 PROVE i \in 1..Len(data) /\ i \notin I
    <3>1. i \in 1..Len(data) /\ ~(p <= i)
      BY <1>5, <2>1
    <3> QED BY <1>7, <3>1
  <2> QED BY <2>1, <2>2
<1>9. \A i \in 1..p - 1 : data[i] \in Text(Plain)
  <2> SUFFICES ASSUME NEW i \in 1..p - 1 PROVE data[i] \in Text(Plain)
    OBVIOUS
  <2>1. i \in 1..Len(data) /\ i \notin I
    BY <1>8
  <2>2. data[i] \in Text(Plain) \cup {"cr"}
    BY <1>4, <2>1, ElementOfSeq
  <2> QED BY <2>1, <2>2 DEF I
<1>10. SubSeq(data, 1, p - 1) \in Seq(Text(Plain))
  <2> DEFINE m == p - 1
  <2>1. m \in Int /\ 1 \in Int /\ \A i \in 1..m : data[i] \in Text(Plain)
    BY <1>5, <1>8, <1>9
  <2> HIDE DEF m
  <2>2. SubSeq(data, 1, m) \in Seq(Text(Plain))
    BY <2>1, SubSeqProperties
  <2> QED BY <2>2 DEF m
<1>11. full \in Seq(Text(Plain))
  BY <1>1, <1>10, ConcatProperties
<1> HIDE DEF full
<1>12. history' \in Seq(Seq(Text(Plain))) /\ line' = <<>> /\ cursor' = 0 /\ idx' = 0 /\ saved' = saved
  <2>1. Append(history, full) \in Seq(Seq(Text(Plain)))
    BY <1>1, <1>11, AppendProperties
  <2> QED BY <1>1, <1>3, <2>1 DEF TakeLine
<1>13. EditorTyped(Text(Plain))'
  <2>1. line' \in Seq(Text(Plain)) /\ Len(line') = 0 /\ Len(history') \in Nat
    BY <1>12, EmptySeq, LenProperties
  <2> QED BY <1>1, <1>12, <2>1 DEF EditorTyped
<1> QED BY <1>3, <1>13 DEF LineFits

LEMMA PromptFits ==
    ASSUME NEW Plain
    PROVE  RowFits(Plain, AtPrompt, <<>>, 0)
<1> DEFINE C == <<<<"prompt">>>>
           s == <<>>
<1>1. <<"prompt">> \in Cells(Plain)
  BY DEF Cells
<1>2. C \in Seq(Cells(Plain)) /\ Len(C) = 1 /\ C[1] = <<"prompt">>
  BY <1>1
<1>3. Len(s) = 0
  OBVIOUS
<1>4. AtPrompt = Row(C, 0 + 1)
  BY DEF AtPrompt, Row
<1> HIDE DEF C, s
<1>5. CellsFit(Plain, C, s)
  <2>1. \A i \in 2..Len(C) : FALSE
    BY <1>2
  <2>2. Len(s) < Len(C)
    BY <1>2, <1>3
  <2> QED BY <1>2, <2>1, <2>2 DEF CellsFit
<1>6. RowFits(Plain, Row(C, 0 + 1), s, 0)
  BY <1>5, FitsAt
<1> QED BY <1>4, <1>6 DEF s

LEMMA PromptIs ==
    ASSUME NEW Plain
    PROVE  RowIs(Plain, AtPrompt, <<>>, 0)
<1>1. RowFits(Plain, AtPrompt, <<>>, 0)
  BY PromptFits
<1>2. SubSeq(<<>>, 1, 0) = <<>> /\ Characters(<<>>) = <<>> /\ Len(<<>>) = 0
  BY CharactersOfNothing
<1>3. Alike(Bytes(Plain), AtPrompt, AtPrompt)
  <2>1. "prompt" \in Bytes(Plain)
    BY DEF Bytes
  <2>2. <<<<"prompt">>>> \in Seq(WideCells(Bytes(Plain)))
    <3> DEFINE c == <<"prompt">>
    <3>1. c \in WideCells(Bytes(Plain))
      BY <2>1 DEF WideCells
    <3> HIDE DEF c
    <3>2. <<c>> \in Seq(WideCells(Bytes(Plain)))
      BY <3>1
    <3> QED BY <3>2 DEF c
  <2> QED BY <2>2 DEF Alike, Wide, AtPrompt, Row
<1> QED BY <1>1, <1>2, <1>3, RowIsOf

LEMMA OutputLine ==
    ASSUME NEW Plain, LineFits(Plain), HandleOutput
    PROVE  LineFits(Plain)'
<1>1. UNCHANGED editor
  BY DEF HandleOutput
<1>2. EditorTyped(Text(Plain))'
  BY <1>1 DEF editor, LineFits, EditorTyped
<1>3. PICK chunk : SuppressEcho(chunk) \/ AskForPassword(chunk) \/ PassOutput(chunk)
  BY DEF HandleOutput
<1>4. CASE SuppressEcho(chunk)
  <2>1. UNCHANGED <<row, clean, line, cursor>>
    BY <1>1, <1>4 DEF SuppressEcho, editor
  <2> QED BY <1>2, <2>1 DEF LineFits, RowIsLine
<1>5. CASE AskForPassword(chunk) \/ PassOutput(chunk)
  <2>1. clean' = IF line = <<>> THEN row' = AtPrompt ELSE FALSE
    BY <1>5 DEF AskForPassword, PassOutput, Show
  <2>2. ASSUME clean' PROVE RowIsLine(Plain)'
    <3>1. line = <<>> /\ row' = AtPrompt
      BY <2>1, <2>2, Zenon
    <3>2. line' = <<>> /\ cursor' = 0
      BY <1>1, <3>1 DEF editor, LineFits, EditorTyped
    <3> QED BY <3>1, <3>2, PromptIs DEF RowIsLine
  <2> QED BY <1>2, <2>2 DEF LineFits
<1> QED BY <1>3, <1>4, <1>5

LEMMA LineStep ==
    ASSUME NEW Plain, OneKeyReads(Plain), LineFits(Plain), [Next]_vars
    PROVE  LineFits(Plain)'
<1>1. CASE Keyboard
  <2>1. PICK data \in Input : Edit(data) \/ Interrupt(data) \/ Enter(data) \/ PassThrough(data)
    BY <1>1 DEF Keyboard
  <2>2. CASE Edit(data)
    BY <2>2, EditLine
  <2>3. CASE Enter(data)
    BY <2>3, EnteredLine
  <2>4. CASE Interrupt(data)
    <3>1. /\ line' = <<>> /\ cursor' = 0 /\ UNCHANGED <<history, idx, saved>> /\ clean' = FALSE
      BY <2>4 DEF Interrupt, ClearLine
    <3>2. line' \in Seq(Text(Plain)) /\ Len(line') = 0
      BY <3>1, EmptySeq
    <3>3. EditorTyped(Text(Plain))'
      BY <3>1, <3>2 DEF LineFits, EditorTyped
    <3> QED BY <3>1, <3>3 DEF LineFits
  <2>5. CASE PassThrough(data)
    <3>1. UNCHANGED <<editor, row, clean>>
      BY <2>5 DEF PassThrough, ghosts
    <3> QED BY <3>1 DEF editor, LineFits, EditorTyped, RowIsLine
  <2> QED BY <2>1, <2>2, <2>3, <2>4, <2>5
<1>2. CASE Shell \/ UNCHANGED vars
  <2>1. UNCHANGED <<editor, row, clean>>
    BY <1>2 DEF Shell, ghosts, vars
  <2> QED BY <2>1 DEF editor, LineFits, EditorTyped, RowIsLine
<1>3. CASE HandleOutput
  BY <1>3, OutputLine
<1> QED BY <1>1, <1>2, <1>3 DEF Next

(* While nothing has been printed over the prompt and no key moves by bytes*)
(* within characters of several, the row is the prompt and the line, and   *)
(* its cursor is the line's, whatever is edited, browsed and inserted, if a*)
(* read is one key or text (terminal_session.py:228-330, 445-462).         *)
THEOREM RowFollowsLine ==
    ASSUME NEW Plain, OneKeyReads(Plain)
    PROVE  Spec => []LineIsShown
<1>1. Init => LineFits(Plain)
  <2> SUFFICES ASSUME Init PROVE LineFits(Plain)
    OBVIOUS
  <2>1. line = <<>> /\ cursor = 0 /\ history = <<>> /\ idx = 0 /\ saved = <<>> /\ row = AtPrompt
    BY DEF Init
  <2>2. EditorTyped(Text(Plain))
    BY <2>1, EmptySeq DEF EditorTyped
  <2>3. RowIsLine(Plain)
    BY <2>1, PromptIs DEF RowIsLine
  <2> QED BY <2>2, <2>3 DEF LineFits
<1>2. LineFits(Plain) /\ [Next]_vars => LineFits(Plain)'
  BY LineStep
<1>3. LineFits(Plain) => LineIsShown
  <2> SUFFICES ASSUME LineFits(Plain), clean PROVE RowShowsLine
    BY DEF LineIsShown
  <2> DEFINE s == Characters(line)
             c == Len(Characters(Before(cursor)))
  <2>1. PICK q : Alike(Bytes(Plain), row, q) /\ RowFits(Plain, q, s, c)
    BY DEF LineFits, RowIsLine, RowIs, Before
  <2> DEFINE C == q.cells
             D == row.cells
  <2>2. s \in Seq(Plain) /\ Len(s) \in Nat /\ c \in Nat
    <3>1. line \in Seq(Text(Plain)) /\ cursor \in 0..Len(line)
      BY DEF LineFits, EditorTyped
    <3>2. Before(cursor) \in Seq(Text(Plain))
      BY <3>1, PrefixOf DEF Before
    <3>3. s \in Seq(Plain) /\ Characters(Before(cursor)) \in Seq(Plain)
      BY <3>1, <3>2, BytesShown
    <3> QED BY <3>3, LenProperties
  <2> HIDE DEF s, c
  <2>3. /\ C \in Seq(Cells(Plain)) /\ Len(s) < Len(C) /\ C[1] = <<"prompt">>
        /\ \A i \in 2..Len(C) : C[i] = IF i - 1 <= Len(s) THEN <<s[i - 1]>> ELSE Blank
        /\ q.col = c + 1
    BY <2>1 DEF RowFits, CellsFit, Row
  <2>4. /\ row.col = q.col /\ D \in Seq(WideCells(Bytes(Plain)))
        /\ \A i \in Nat \ {0} : FirstByte(row, i) = FirstByte(q, i)
    BY <2>1 DEF Alike, Wide
  <2>5. Len(C) \in Nat /\ Len(D) \in Nat
    BY <2>3, <2>4, LenProperties
  <2>6. \A i \in Nat \ {0} : FirstByte(q, i) = Head(IF i <= Len(C) THEN C[i] ELSE Blank)
    BY DEF FirstByte
  <2> HIDE DEF C, D
  <2>7. row.col = 1 + c
    BY <2>2, <2>3, <2>4
  <2>8. FirstByte(row, 1) = "prompt"
    <3>1. 1 \in Nat \ {0} /\ 1 <= Len(C)
      BY <2>2, <2>3, <2>5
    <3>2. FirstByte(q, 1) = Head(C[1])
      BY <2>6, <3>1
    <3>3. Head(C[1]) = "prompt"
      BY <2>3
    <3> QED BY <2>4, <3>1, <3>2, <3>3
  <2>9. ASSUME NEW i \in 1..Len(s) PROVE FirstByte(row, i + 1) = s[i]
    <3>1. i + 1 \in Nat \ {0} /\ i + 1 \in 2..Len(C) /\ (i + 1) - 1 = i /\ i <= Len(s)
      BY <2>2, <2>3, <2>5
    <3>2. C[i + 1] = <<s[i]>>
      BY <2>3, <3>1
    <3>3. FirstByte(q, i + 1) = Head(C[i + 1])
      BY <2>6, <3>1
    <3> QED BY <2>4, <3>1, <3>2, <3>3
  <2>10. ASSUME NEW i \in Len(s) + 2..Len(D) PROVE FirstByte(row, i) = " "
    <3>1. i \in Nat \ {0} /\ i >= 2 /\ ~(i - 1 <= Len(s))
      BY <2>2, <2>5
    <3>2. (IF i <= Len(C) THEN C[i] ELSE Blank) = Blank
      <4>1. CASE i <= Len(C)
        <5>1. i \in 2..Len(C)
          BY <2>5, <3>1, <4>1
        <5>2. C[i] = Blank
          BY <2>3, <3>1, <5>1
        <5> QED BY <4>1, <5>2
      <4>2. CASE ~(i <= Len(C))
        BY <4>2
      <4> QED BY <4>1, <4>2
    <3>3. Head(Blank) = " "
      BY DEF Blank
    <3> QED BY <2>4, <2>6, <3>1, <3>2, <3>3
  <2> QED BY <2>7, <2>8, <2>9, <2>10 DEF RowShowsLine, s, c, D
<1>4. Spec => []LineFits(Plain)
  BY <1>1, <1>2, PTL DEF Spec
<1> QED BY <1>3, <1>4, PTL
=============================================================================
