-------------------------- MODULE AttachSplitProofs --------------------------
(***************************************************************************)
(* Proofs about AttachSplit for any keys, sizes, outputs, messages and     *)
(* resizes, however callbacks and the loop interleave: the split shows the *)
(* present state, and the bytes typed go where they belong, in order, as   *)
(* one read of all of them would have it.                                  *)
(***************************************************************************)
EXTENDS AttachSplit, WellFoundedInduction, SequenceTheorems, FiniteSetTheorems, TLAPS

(* The panel has the keyboard only when the chat is open, and the renderer  *)
(* knows who has it.                                                        *)
FocusKnown ==
    /\ focus \in {"terminal", "chat"} /\ (focus = "chat" => chatActive)
    /\ chatActive => rendererFocus = focus

(* What is drawn is the last frame, but for a line somebody has written     *)
(* over; render draws a line again only when it differs from that frame, so *)
(* this has to hold also of a frame that is no longer current.              *)
DrawnAsFramed ==
    chatActive =>
        /\ frame.cursor = <<focus>> /\ shown.cursor = frame.cursor
        /\ shown.right = frame.right /\ shown.left \in {frame.left, Overwritten}

(* Whatever changes a line sets the dirty flag that makes it rendered, even *)
(* while the decisions of one read are handled.                             *)
CleanIsCurrent == chatActive /\ ~vtDirty /\ ~chatDirty => frame = Frame

RInv == FocusKnown /\ DrawnAsFramed /\ CleanIsCurrent

-----------------------------------------------------------------------------
(* render leaves the terminal with a frame that is current, if it renders.  *)
LEMMA RenderDraws ==
    ASSUME NEW force \in BOOLEAN, NEW isDirty \in BOOLEAN, Render(force, isDirty),
           FocusKnown', chatActive',
           force \/ (DrawnAsFramed /\ chatActive),
           force \/ isDirty \/ UNCHANGED focus
    PROVE  /\ DrawnAsFramed'
           /\ force \/ isDirty => CleanIsCurrent'
<1>1. CASE force \/ isDirty
  <2>1. frame' = Frame' /\ shown' = Redrawn(force \/ frame = NoFrame, Frame')
    BY <1>1 DEF Render
  <2>2. /\ frame'.left = ScreenLine' /\ frame'.right = PanelLine'
        /\ frame'.cursor = <<rendererFocus'>>
    BY <2>1 DEF Frame
  <2>3. DOMAIN Frame' = {"left", "right", "cursor"}
    BY DEF Frame
  <2>4. \A p \in {"left", "right", "cursor"} :
           shown'[p] = IF (force \/ frame = NoFrame) \/ p = "cursor" \/ frame[p] # frame'[p]
                       THEN frame'[p] ELSE shown[p]
    BY <2>1, <2>3 DEF Redrawn
  <2>5. /\ shown'.cursor = frame'.cursor
        /\ shown'.right = frame'.right \/ (shown'.right = shown.right /\ frame'.right = frame.right)
        /\ shown'.left = frame'.left \/ (shown'.left = shown.left /\ frame'.left = frame.left)
        /\ force => shown'.right = frame'.right /\ shown'.left = frame'.left
    BY <2>4
  <2>6. DrawnAsFramed'
    BY <2>2, <2>5 DEF DrawnAsFramed, FocusKnown
  <2> QED BY <2>1, <2>6 DEF CleanIsCurrent
<1>2. CASE ~(force \/ isDirty)
  BY <1>2 DEF Render, DrawnAsFramed
<1> QED BY <1>1, <1>2

LEMMA InitRInv == Init => RInv
  BY DEF Init, RInv, FocusKnown, DrawnAsFramed, CleanIsCurrent

(* A step that changes no line and draws nothing.                           *)
RenderStays ==
    /\ UNCHANGED <<chatActive, focus, rendererFocus, frame, shown>>
    /\ ~vtDirty' /\ ~chatDirty' =>
          /\ ~vtDirty /\ ~chatDirty
          /\ UNCHANGED <<fed, vtSize, size, messages, line>>

LEMMA RenderKept == ASSUME RInv, RenderStays PROVE RInv'
<1>1. FocusKnown' /\ DrawnAsFramed'
  BY DEF RInv, RenderStays, FocusKnown, DrawnAsFramed
<1>2. ~vtDirty' /\ ~chatDirty' => Frame' = Frame
  BY DEF RenderStays, Frame, ScreenLine, PanelLine
<1>3. CleanIsCurrent'
  BY <1>2 DEF RInv, RenderStays, CleanIsCurrent
<1> QED BY <1>1, <1>3 DEF RInv

(* Nothing is claimed of a terminal without the split.                      *)
LEMMA NoSplit == ASSUME ~chatActive, focus = "terminal" PROVE RInv
  BY DEF RInv, FocusKnown, DrawnAsFramed, CleanIsCurrent

(* A turn of the loop that renders what is dirty, and nothing else of it.   *)
LEMMA RenderedIfDirty ==
    ASSUME RInv, UNCHANGED <<chatActive, focus, panel, vt, renderer>>, RenderIfDirty
    PROVE  RInv'
<1> USE DEF panel, vt, renderer
<1>1. CASE chatActive
  <2>1. Render(FALSE, vtDirty \/ chatDirty)
    BY <1>1 DEF RenderIfDirty
  <2>2. FocusKnown' /\ chatActive'
    BY <1>1 DEF RInv, FocusKnown
  <2>3. DrawnAsFramed' /\ (vtDirty \/ chatDirty => CleanIsCurrent')
    BY <1>1, <2>1, <2>2, RenderDraws DEF RInv
  <2>4. CASE vtDirty \/ chatDirty
    BY <2>2, <2>3, <2>4 DEF RInv
  <2>5. CASE ~(vtDirty \/ chatDirty)
    <3>1. UNCHANGED <<frame, shown, vtDirty, chatDirty>>
      BY <2>1, <2>5 DEF Render
    <3> QED BY <3>1, RenderKept DEF RenderStays
  <2> QED BY <2>4, <2>5
<1>2. CASE ~chatActive
  BY <1>2, NoSplit DEF RInv, FocusKnown, DrawnAsFramed, CleanIsCurrent
<1> QED BY <1>1, <1>2

(* Every action keeps the picture.                                          *)
LEMMA RenderStep == ASSUME RInv, [Next]_vars PROVE RInv'
<1> USE DEF keyboard, router, history, panel, vt, dirty, picture, renderer, terminal
<1>1. CASE UNCHANGED vars
  BY <1>1, RenderKept DEF vars, RenderStays
<1>2. CASE OnOutput
  BY <1>2, RenderKept DEF OnOutput, RenderStays
<1>3. CASE OnChat
  <2>1. Render(~chatActive, TRUE) /\ chatActive' /\ UNCHANGED focus
    BY <1>3 DEF OnChat, ActivateChat
  <2>2. FocusKnown'
    BY <1>3 DEF OnChat, ActivateChat, RInv, FocusKnown
  <2>3. DrawnAsFramed' /\ CleanIsCurrent'
    BY <2>1, <2>2, RenderDraws DEF RInv
  <2> QED BY <2>2, <2>3 DEF RInv
<1>4. CASE HandleResize
  <2>1. CASE chatActive
    <3>1. Render(TRUE, TRUE) /\ chatActive' /\ FocusKnown'
      BY <1>4, <2>1 DEF HandleResize, RInv, FocusKnown
    <3> QED BY <3>1, RenderDraws DEF RInv
  <2>2. CASE ~chatActive
    BY <1>4, <2>2, RenderKept DEF HandleResize, RenderStays
  <2> QED BY <2>1, <2>2
<1>5. CASE Resize
  BY <1>5, RenderKept DEF Resize, RenderStays
<1>6. CASE HandshakeEnds
  <2>1. UNCHANGED <<chatActive, focus, rendererFocus, frame, vtDirty, chatDirty,
                    fed, vtSize, size, messages, line>>
    BY <1>6 DEF HandshakeEnds
  <2>2. chatActive => /\ shown'.left = Overwritten \/ shown'.left = shown.left
                      /\ shown'.right = shown.right /\ shown'.cursor = shown.cursor
    BY <1>6 DEF HandshakeEnds
  <2>3. FocusKnown' /\ CleanIsCurrent'
    BY <2>1 DEF RInv, FocusKnown, CleanIsCurrent, Frame, ScreenLine, PanelLine
  <2>4. DrawnAsFramed'
    BY <2>1, <2>2 DEF RInv, DrawnAsFramed
  <2> QED BY <2>3, <2>4 DEF RInv
<1>7. CASE Read \/ HandleTerminal \/ \E k \in Key : TypeKey(k)
  <2>1. CASE Read
    BY <2>1, RenderKept DEF Read, RenderStays
  <2>2. CASE HandleTerminal
    BY <2>2, RenderKept DEF HandleTerminal, RenderStays
  <2>3. ASSUME NEW k \in Key, TypeKey(k) PROVE RInv'
    BY <2>3, RenderKept DEF TypeKey, RenderStays
  <2> QED BY <1>7, <2>1, <2>2, <2>3
<1>8. CASE FlushAfterTimeout
  <2>1. UNCHANGED <<chatActive, focus, panel, vt, renderer>>
    BY <1>8 DEF FlushAfterTimeout
  <2>2. CASE RenderIfDirty
    BY <2>1, <2>2, RenderedIfDirty
  <2>3. CASE UNCHANGED <<dirty, picture>>
    BY <2>1, <2>3, RenderKept DEF RenderStays
  <2> QED BY <1>8, <2>2, <2>3 DEF FlushAfterTimeout
<1>9. CASE EndOfTurn
  BY <1>9, RenderedIfDirty DEF EndOfTurn
<1>10. CASE HandleToggle
  <2>1. Render(TRUE, TRUE) /\ chatActive'
    BY <1>10 DEF HandleToggle, ActivateChat
  <2>2. FocusKnown'
    BY <1>10 DEF HandleToggle, ActivateChat, CursorAt, OtherSide, RInv, FocusKnown
  <2> QED BY <2>1, <2>2, RenderDraws DEF RInv
<1>11. CASE HandleChatKey
  BY <1>11, RenderKept DEF HandleChatKey, RenderStays
<1>12. CASE ChatChunkEnds
  <2>1. Render(FALSE, vtDirty \/ chatDirty)
        /\ UNCHANGED <<chatActive, focus, panel, vt, renderer>>
    BY <1>12 DEF ChatChunkEnds
  <2>2. CASE chatActive
    BY <2>1, <2>2, RenderedIfDirty DEF RenderIfDirty
  <2>3. CASE ~chatActive
    BY <2>1, <2>3, NoSplit DEF RInv, FocusKnown, DrawnAsFramed, CleanIsCurrent
  <2> QED BY <2>2, <2>3
<1>13. CASE Resume
  BY <1>13, RenderKept DEF Resume, RenderStays
<1> QED BY <1>1, <1>2, <1>3, <1>4, <1>5, <1>6, <1>7, <1>8, <1>9, <1>10, <1>11, <1>12, <1>13
        DEF Next, Callback, Turn

(* However the outputs, messages and resizes fall between the turns of the  *)
(* loop and the awaits within one, the terminal shows the present state when*)
(* nothing is dirty, with the cursor where the keyboard goes                *)
(* (split_renderer.py:83-151, main.py:512-546).                             *)
THEOREM SplitIsCurrent == Spec => []RenderedIsCurrent
<1>1. RInv => RenderedIsCurrent
  BY DEF RInv, FocusKnown, DrawnAsFramed, CleanIsCurrent, RenderedIsCurrent
<1> QED BY <1>1, InitRInv, RenderStep, PTL DEF Spec
-----------------------------------------------------------------------------
(* Numbers and sequences.                                                  *)

LEMMA LeastExists ==
    ASSUME NEW S \in SUBSET Nat, S # {}
    PROVE  \E x \in S : \A y \in S : x <= y
<1> DEFINE R == OpToRel(<, Nat)
<1>1. IsWellFoundedOn(R, Nat)
  BY NatLessThanWellFounded
<1>2. \E x \in S : \A y \in S : ~ (<<y, x>> \in R)
  <2> HIDE DEF R
  <2> QED BY <1>1, WFMin
<1>3. PICK x \in S : \A y \in S : ~ (<<y, x>> \in R)
  BY <1>2
<1>4. \A y \in S : ~ (y < x)
  BY <1>3, Zenon DEF OpToRel
<1>5. \A y \in S : x \in Nat /\ y \in Nat
  OBVIOUS
<1> QED BY <1>4, <1>5

(* A set of numbers with 0 and the successors of its members has them all. *)
LEMMA Counting ==
    ASSUME NEW S \in SUBSET Nat, 0 \in S, \A n \in S : n + 1 \in S
    PROVE  S = Nat
<1> SUFFICES ASSUME Nat \ S # {} PROVE FALSE
  OBVIOUS
<1>1. PICK x \in Nat \ S : \A y \in Nat \ S : x <= y
  BY LeastExists
<1>2. x # 0 /\ x \in Nat
  OBVIOUS
<1>3. x - 1 \in Nat /\ ~(x <= x - 1) /\ (x - 1) + 1 = x
  BY <1>2
<1>4. x - 1 \in S
  BY <1>1, <1>3
<1> QED BY <1>3, <1>4

Byte == [c : STRING, n : Nat]
Bytes == Seq(Byte)
Ordered(s) == \A i, j \in 1..Len(s) : i < j => s[i].n < s[j].n
Under(A, B) == \A a \in A, b \in B : a < b

LEMMA NumberOf ==
    ASSUME NEW s \in Bytes
    PROVE  /\ Len(s) \in Nat /\ Numbers(s) \subseteq Nat
           /\ \A i \in 1..Len(s) : s[i] \in Byte /\ s[i].n \in Nat /\ s[i].n \in Numbers(s)
<1>1. Len(s) \in Nat
  BY LenProperties DEF Bytes
<1>2. \A i \in 1..Len(s) : s[i] \in Byte
  BY ElementOfSeq DEF Bytes
<1> QED BY <1>1, <1>2 DEF Byte, Numbers

(* A sequence of two parts is in order when both are and the numbers of the*)
(* first precede those of the second.                                      *)
LEMMA Together ==
    ASSUME NEW s \in Bytes, NEW t \in Bytes
    PROVE  /\ s \o t \in Bytes /\ Len(s \o t) = Len(s) + Len(t)
           /\ Numbers(s \o t) = Numbers(s) \cup Numbers(t)
           /\ Ordered(s \o t) <=> /\ Ordered(s) /\ Ordered(t)
                                  /\ Under(Numbers(s), Numbers(t))
<1> DEFINE c == s \o t
           m == Len(s)
           n == Len(t)
<1>1. m \in Nat /\ n \in Nat /\ c \in Bytes /\ Len(c) = m + n
  BY NumberOf, ConcatProperties DEF Bytes
<1>2. \A i \in 1..m + n : c[i] = IF i <= m THEN s[i] ELSE t[i - m]
  BY ConcatProperties DEF Bytes
<1>3. \A i \in 1..m : i \in 1..m + n /\ i <= m
  BY <1>1
<1>4. \A j \in 1..n : m + j \in 1..m + n /\ ~(m + j <= m) /\ (m + j) - m = j
  BY <1>1
<1> HIDE DEF c, m, n
<1>5. (\A i \in 1..m : c[i] = s[i]) /\ (\A j \in 1..n : c[m + j] = t[j])
  BY <1>2, <1>3, <1>4
<1>6. \A k \in 1..m + n : k \in 1..m \/ \E j \in 1..n : k = m + j
  <2> SUFFICES ASSUME NEW k \in 1..m + n, ~(k <= m) PROVE k - m \in 1..n /\ k = m + (k - m)
    BY <1>1
  <2> QED BY <1>1
<1>7. Numbers(c) = Numbers(s) \cup Numbers(t)
  <2>1. Numbers(c) = {c[k].n : k \in 1..m + n} /\ Numbers(s) = {s[k].n : k \in 1..m}
        /\ Numbers(t) = {t[k].n : k \in 1..n}
    BY <1>1 DEF Numbers, m, n
  <2>2. ASSUME NEW k \in 1..m + n PROVE c[k].n \in Numbers(s) \cup Numbers(t)
    BY <1>5, <1>6, <2>1
  <2>3. ASSUME NEW k \in 1..m PROVE s[k].n \in Numbers(c)
    BY <1>3, <1>5, <2>1
  <2>4. ASSUME NEW k \in 1..n PROVE t[k].n \in Numbers(c)
    BY <1>4, <1>5, <2>1
  <2> QED BY <2>1, <2>2, <2>3, <2>4
<1>8. ASSUME Ordered(c) PROVE Ordered(s) /\ Ordered(t) /\ Under(Numbers(s), Numbers(t))
  <2>0. \A i, j \in 1..m + n : i < j => c[i].n < c[j].n
    BY <1>1, <1>8 DEF Ordered
  <2>1. \A i, j \in 1..m : i < j => s[i].n < s[j].n
    BY <2>0, <1>3, <1>5
  <2>2. ASSUME NEW i \in 1..n, NEW j \in 1..n, i < j PROVE t[i].n < t[j].n
    <3>1. m + i < m + j /\ m + i \in 1..m + n /\ m + j \in 1..m + n
      BY <1>1, <2>2
    <3>2. c[m + i].n < c[m + j].n
      BY <3>1, <2>0
    <3> QED BY <3>2, <1>5
  <2>3. ASSUME NEW i \in 1..m, NEW j \in 1..n PROVE s[i].n < t[j].n
    <3>1. i < m + j /\ i \in 1..m + n /\ m + j \in 1..m + n
      BY <1>1
    <3>2. c[i].n < c[m + j].n
      BY <3>1, <2>0
    <3> QED BY <3>2, <1>5
  <2> QED BY <2>1, <2>2, <2>3 DEF Ordered, Under, Numbers, m, n
<1>9. ASSUME Ordered(s), Ordered(t), Under(Numbers(s), Numbers(t)) PROVE Ordered(c)
  <2>1. /\ \A i, j \in 1..m : i < j => s[i].n < s[j].n
        /\ \A i, j \in 1..n : i < j => t[i].n < t[j].n
        /\ \A i \in 1..m, j \in 1..n : s[i].n < t[j].n
    BY <1>9 DEF Ordered, Under, Numbers, m, n
  <2>2. ASSUME NEW i \in 1..m + n, NEW j \in 1..m + n, i < j PROVE c[i].n < c[j].n
    <3>1. CASE j \in 1..m
      <4>1. i \in 1..m
        BY <1>1, <2>2, <3>1
      <4> QED BY <4>1, <3>1, <2>1, <2>2, <1>5
    <3>2. ASSUME NEW b \in 1..n, j = m + b PROVE c[i].n < c[j].n
      <4>1. CASE i \in 1..m
        BY <4>1, <3>2, <2>1, <1>5
      <4>2. ASSUME NEW a \in 1..n, i = m + a PROVE c[i].n < c[j].n
        <5>1. a < b
          BY <1>1, <2>2, <3>2, <4>2
        <5> QED BY <5>1, <2>1, <3>2, <4>2, <1>5
      <4> QED BY <4>1, <4>2, <1>6
    <3> QED BY <3>1, <3>2, <1>6
  <2> QED BY <1>1, <2>2 DEF Ordered
<1> QED BY <1>1, <1>7, <1>8, <1>9 DEF c, m, n

LEMMA Divided ==
    ASSUME NEW s \in Bytes, NEW i \in 1..Len(s) + 1, NEW k \in i - 1..Len(s)
    PROVE  /\ SubSeq(s, i, k) \in Bytes /\ Len(SubSeq(s, i, k)) = k - i + 1
           /\ SubSeq(s, k + 1, Len(s)) \in Bytes
           /\ Len(SubSeq(s, k + 1, Len(s))) = Len(s) - k
           /\ SubSeq(s, i, k) \o SubSeq(s, k + 1, Len(s)) = SubSeq(s, i, Len(s))
<1>1. Len(s) \in Nat /\ \A j \in 1..Len(s) : s[j] \in Byte
  BY NumberOf
<1>2. ASSUME NEW a \in 1..Len(s) + 1, NEW b \in a - 1..Len(s)
      PROVE  SubSeq(s, a, b) \in Bytes /\ Len(SubSeq(s, a, b)) = b - a + 1
  <2>1. a \in Int /\ b \in Int /\ \A j \in a..b : j \in 1..Len(s)
    BY <1>1
  <2>2. \A j \in a..b : s[j] \in Byte
    BY <1>1, <2>1
  <2>3. SubSeq(s, a, b) \in Seq(Byte) /\ Len(SubSeq(s, a, b)) = IF a <= b THEN b - a + 1 ELSE 0
    BY <2>1, <2>2, SubSeqProperties
  <2>4. (IF a <= b THEN b - a + 1 ELSE 0) = b - a + 1
    BY <1>1
  <2> QED BY <2>3, <2>4 DEF Bytes
<1>3. /\ k + 1 \in 1..Len(s) + 1 /\ Len(s) \in (k + 1) - 1..Len(s)
      /\ Len(s) - (k + 1) + 1 = Len(s) - k /\ Len(s) \in k..Len(s)
  BY <1>1
<1>4. SubSeq(s, i, k) \o SubSeq(s, k + 1, Len(s)) = SubSeq(s, i, Len(s))
  <2>1. s \in Seq(Byte)
    BY DEF Bytes
  <2> QED BY <1>3, <2>1, ConcatAdjacentSubSeq
<1>5. SubSeq(s, k + 1, Len(s)) \in Bytes /\ Len(SubSeq(s, k + 1, Len(s))) = Len(s) - k
  <2>1. Len(SubSeq(s, k + 1, Len(s))) = Len(s) - (k + 1) + 1
    BY <1>2, <1>3
  <2> QED BY <1>2, <1>3, <2>1
<1> QED BY <1>2, <1>4, <1>5
-----------------------------------------------------------------------------
(* Sequences of a kind laid end to end.                                    *)

Joinable(L) ==
    /\ <<>> \in L /\ \A s, t \in L : s \o t \in L
    /\ \A s \in L : s \o <<>> = s /\ <<>> \o s = s
    /\ \A s, t, u \in L : (s \o t) \o u = s \o (t \o u)

LEMMA SequencesJoin == ASSUME NEW T PROVE Joinable(Seq(T))
  BY EmptySeq, ConcatProperties, ConcatEmptySeq, ConcatAssociative DEF Joinable

IsFlat(f, q, m) == f = [i \in 1..m |-> IF i = 1 THEN q[i] ELSE f[i - 1] \o q[i]]

LEMMA FlatExists ==
    ASSUME NEW q, NEW m \in Nat
    PROVE  \E f : IsFlat(f, q, m)
<1> DEFINE S == {n \in Nat : \E f : IsFlat(f, q, n)}
<1>1. 0 \in S
  <2> DEFINE f == [i \in 1..0 |-> 0]
  <2>1. f = [i \in 1..0 |-> IF i = 1 THEN q[i] ELSE f[i - 1] \o q[i]]
    OBVIOUS
  <2> QED BY <2>1 DEF IsFlat
<1>2. ASSUME NEW n \in S PROVE n + 1 \in S
  <2>1. n \in Nat
    OBVIOUS
  <2>2. PICK f : IsFlat(f, q, n)
    OBVIOUS
  <2> DEFINE whole == IF n = 0 THEN q[n + 1] ELSE f[n] \o q[n + 1]
             g == [k \in 1..n + 1 |-> IF k = n + 1 THEN whole ELSE f[k]]
  <2>3. \A k \in 1..n : f[k] = IF k = 1 THEN q[k] ELSE f[k - 1] \o q[k]
    BY <2>2 DEF IsFlat
  <2>4. ASSUME NEW k \in 1..n + 1
        PROVE  g[k] = IF k = 1 THEN q[k] ELSE g[k - 1] \o q[k]
    <3>1. CASE k = n + 1
      <4>1. g[k] = whole /\ (k = 1 <=> n = 0) /\ k - 1 = n
        BY <2>1, <3>1
      <4>2. n # 0 => g[n] = f[n]
        <5>1. n # 0 => n \in 1..n + 1 /\ n # n + 1
          BY <2>1
        <5> QED BY <5>1
      <4> QED BY <3>1, <4>1, <4>2
    <3>2. CASE k # n + 1
      <4>1. k \in 1..n /\ g[k] = f[k]
        BY <2>1, <3>2
      <4>2. k # 1 => k - 1 \in 1..n + 1 /\ k - 1 # n + 1
        BY <2>1, <4>1
      <4>3. k # 1 => g[k - 1] = f[k - 1]
        BY <4>2
      <4> QED BY <2>3, <4>1, <4>3
    <3> QED BY <3>1, <3>2
  <2>5. IsFlat(g, q, n + 1)
    <3>1. g = [k \in 1..n + 1 |-> g[k]]
      OBVIOUS
    <3> HIDE DEF g
    <3> QED BY <2>4, <3>1 DEF IsFlat
  <2> HIDE DEF g
  <2> QED BY <2>1, <2>5
<1>3. S = Nat
  <2> HIDE DEF S
  <2>1. S \in SUBSET Nat
    BY DEF S
  <2> QED BY <1>1, <1>2, <2>1, Counting
<1> QED BY <1>3

LEMMA FlattenReading ==
    ASSUME NEW L, Joinable(L), NEW q \in Seq(L), q # <<>>
    PROVE  \E f : /\ FlattenSeq(q) = f[Len(q)]
                  /\ \A k \in 1..Len(q) :
                        /\ f[k] = IF k = 1 THEN q[k] ELSE f[k - 1] \o q[k]
                        /\ f[k] \in L
<1> DEFINE n == Len(q)
           g == CHOOSE f : f = [i \in 1..n |-> IF i = 1 THEN q[i] ELSE f[i - 1] \o q[i]]
<1>0. n \in Nat \ {0} /\ \A i \in 1..n : q[i] \in L
  BY EmptySeq, ElementOfSeq
<1>2. FlattenSeq(q) = g[n]
  BY <1>0 DEF FlattenSeq
<1>3. g = [i \in 1..n |-> IF i = 1 THEN q[i] ELSE g[i - 1] \o q[i]]
  BY <1>0, FlatExists DEF IsFlat
<1> HIDE DEF g, n
<1>5. \A k \in 1..n : g[k] = IF k = 1 THEN q[k] ELSE g[k - 1] \o q[k]
  BY <1>3
<1>6. \A s, t \in L : s \o t \in L
  BY DEF Joinable
<1> DEFINE S == {k \in Nat : k \in 1..n => g[k] \in L}
<1>7. 0 \in S
  OBVIOUS
<1>8. ASSUME NEW k \in S PROVE k + 1 \in S
  <2> SUFFICES ASSUME k + 1 \in 1..n PROVE g[k + 1] \in L
    OBVIOUS
  <2>1. k \in Nat /\ (k + 1) - 1 = k
    OBVIOUS
  <2>2. CASE k = 0
    BY <1>0, <1>5, <2>2
  <2>3. CASE k # 0
    <3>1. k \in 1..n /\ k + 1 # 1
      BY <1>0, <2>1, <2>3
    <3>2. g[k] \in L /\ g[k + 1] = g[k] \o q[k + 1] /\ q[k + 1] \in L
      BY <1>0, <1>5, <2>1, <3>1
    <3> QED BY <1>6, <3>2, Zenon
  <2> QED BY <2>2, <2>3
<1>9. S = Nat
  <2> HIDE DEF S
  <2>1. S \in SUBSET Nat
    BY DEF S
  <2> QED BY <1>7, <1>8, <2>1, Counting
<1>10. \A k \in 1..n : g[k] \in L
  BY <1>0, <1>9
<1> QED BY <1>2, <1>5, <1>10 DEF n

LEMMA FlattenNone == FlattenSeq(<<>>) = <<>>
  BY DEF FlattenSeq

LEMMA FlattenType ==
    ASSUME NEW L, Joinable(L), NEW q \in Seq(L)
    PROVE  FlattenSeq(q) \in L
<1>1. CASE q = <<>>
  BY <1>1, FlattenNone, Zenon DEF Joinable
<1>2. CASE q # <<>>
  <2>1. Len(q) \in 1..Len(q)
    BY <1>2, EmptySeq
  <2> QED BY <1>2, <2>1, FlattenReading
<1> QED BY <1>1, <1>2

LEMMA ConsReading ==
    ASSUME NEW T, NEW d \in T, NEW s \in Seq(T)
    PROVE  /\ <<d>> \o s \in Seq(T) /\ <<d>> \o s # <<>>
           /\ Len(<<d>> \o s) = Len(s) + 1 /\ Len(s) \in Nat
           /\ (<<d>> \o s)[1] = d
           /\ \A i \in 1..Len(s) : (<<d>> \o s)[i + 1] = s[i]
<1> DEFINE all == <<d>> \o s
           n == Len(s)
<1>1. <<d>> \in Seq(T) /\ Len(<<d>>) = 1 /\ <<d>>[1] = d /\ n \in Nat
  BY LenProperties
<1>2. /\ all \in Seq(T) /\ Len(all) = 1 + n
      /\ \A i \in 1..1 + n : all[i] = IF i <= 1 THEN <<d>>[i] ELSE s[i - 1]
  BY <1>1, ConcatProperties
<1>3. \A i \in 1..n : i + 1 \in 1..1 + n /\ ~(i + 1 <= 1) /\ (i + 1) - 1 = i
  BY <1>1
<1>4. 1 \in 1..1 + n /\ 1 + n = n + 1 /\ n + 1 # 0
  BY <1>1
<1> HIDE DEF all, n
<1>5. \A i \in 1..n : all[i + 1] = s[i]
  BY <1>2, <1>3
<1>6. all # <<>>
  BY <1>2, <1>4
<1> QED BY <1>1, <1>2, <1>4, <1>5, <1>6 DEF all, n

LEMMA FlattenCons ==
    ASSUME NEW L, Joinable(L), NEW x \in L, NEW q \in Seq(L)
    PROVE  FlattenSeq(<<x>> \o q) = x \o FlattenSeq(q)
<1> DEFINE all == <<x>> \o q
           n == Len(q)
<1>0. \A i \in 1..n : q[i] \in L
  BY ElementOfSeq
<1>1. /\ all \in Seq(L) /\ Len(all) = n + 1 /\ n \in Nat /\ all[1] = x /\ all # <<>>
      /\ \A i \in 1..n : all[i + 1] = q[i]
  BY ConsReading
<1> HIDE DEF all, n
<1>3. PICK f : /\ FlattenSeq(all) = f[Len(all)]
               /\ \A k \in 1..Len(all) :
                     /\ f[k] = IF k = 1 THEN all[k] ELSE f[k - 1] \o all[k]
                     /\ f[k] \in L
  BY <1>1, FlattenReading
<1>4. f[1] = x
  BY <1>1, <1>3
<1>5. CASE n = 0
  <2>1. FlattenSeq(q) = <<>>
    BY <1>5, EmptySeq, FlattenNone DEF n
  <2>2. x \o <<>> = x
    BY DEF Joinable
  <2>3. FlattenSeq(all) = x
    BY <1>1, <1>3, <1>4, <1>5
  <2> QED BY <2>1, <2>2, <2>3, Zenon DEF all
<1>6. CASE n # 0
  <2>0. q # <<>>
    BY <1>6 DEF n
  <2>1. PICK g : /\ FlattenSeq(q) = g[n]
                 /\ \A k \in 1..n :
                       /\ g[k] = IF k = 1 THEN q[k] ELSE g[k - 1] \o q[k]
                       /\ g[k] \in L
    BY <2>0, FlattenReading DEF n
  <2> DEFINE Follows(k) == f[k + 1] = x \o g[k]
             S == {k \in Nat : k \in 1..n => Follows(k)}
  <2>2. 0 \in S
    OBVIOUS
  <2>3. ASSUME NEW k \in S PROVE k + 1 \in S
    <3>0. k \in Nat /\ (k \in 1..n => Follows(k))
      OBVIOUS
    <3>1. ASSUME k + 1 \in 1..n PROVE Follows(k + 1)
      <4>1. /\ (k + 1) - 1 = k /\ ((k + 1) + 1) - 1 = k + 1
            /\ (k + 1) + 1 \in 1..n + 1 /\ (k + 1) + 1 # 1 /\ k + 1 \in 1..n + 1
        BY <1>1, <3>0, <3>1
      <4>2. f[(k + 1) + 1] = f[k + 1] \o q[k + 1]
        <5>1. all[(k + 1) + 1] = q[k + 1]
          BY <1>1, <3>1
        <5> QED BY <1>1, <1>3, <4>1, <5>1
      <4>3. CASE k = 0
        <5>1. f[k + 1] = x /\ g[k + 1] = q[k + 1]
          BY <1>4, <2>1, <3>1, <4>3
        <5> QED BY <4>2, <5>1
      <4>4. CASE k # 0
        <5>1. k \in 1..n /\ k + 1 # 1
          BY <1>1, <3>0, <3>1, <4>4
        <5>2. f[k + 1] = x \o g[k]
          BY <3>0, <5>1
        <5>3. g[k + 1] = g[k] \o q[k + 1] /\ g[k] \in L /\ q[k + 1] \in L
          BY <1>0, <2>1, <3>1, <4>1, <5>1
        <5>4. (x \o g[k]) \o q[k + 1] = x \o (g[k] \o q[k + 1])
          BY <5>3, Zenon DEF Joinable
        <5> QED BY <4>2, <5>2, <5>3, <5>4, Zenon
      <4> QED BY <4>3, <4>4
    <3> HIDE DEF Follows
    <3> QED BY <3>0, <3>1
  <2>4. S = Nat
    <3> HIDE DEF S
    <3>1. S \in SUBSET Nat
      BY DEF S
    <3> QED BY <2>2, <2>3, <3>1, Counting
  <2>5. Follows(n)
    <3> HIDE DEF Follows
    <3>1. n \in S /\ n \in 1..n
      BY <1>1, <1>6, <2>4
    <3> QED BY <3>1
  <2>6. FlattenSeq(all) = x \o FlattenSeq(q)
    <3>1. FlattenSeq(all) = f[n + 1]
      BY <1>1, <1>3
    <3> QED BY <2>1, <2>5, <3>1, Zenon
  <2> QED BY <2>6 DEF all
<1> QED BY <1>5, <1>6

(* What the members of a sequence stand for, one after the other.          *)
Lays(m, T, L) == Joinable(L) /\ \A x \in T : m[x] \in L

Laid(m, s) == FlattenSeq([i \in 1..Len(s) |-> m[s[i]]])

LEMMA LaidNone == ASSUME NEW m PROVE Laid(m, <<>>) = <<>>
<1> DEFINE none == <<>>
           q == [i \in 1..Len(none) |-> m[none[i]]]
<1>1. Len(none) = 0
  OBVIOUS
<1>2. q = <<>>
  BY <1>1
<1>3. Laid(m, none) = FlattenSeq(q)
  BY DEF Laid
<1> HIDE DEF q
<1> QED BY <1>2, <1>3, FlattenNone

LEMMA LaidType ==
    ASSUME NEW L, NEW T, NEW m, Lays(m, T, L), NEW s \in Seq(T)
    PROVE  Laid(m, s) \in L
<1>1. Len(s) \in Nat /\ \A i \in 1..Len(s) : m[s[i]] \in L
  BY LenProperties, ElementOfSeq DEF Lays
<1>2. [i \in 1..Len(s) |-> m[s[i]]] \in Seq(L)
  BY <1>1, IsASeq
<1> QED BY <1>2, FlattenType DEF Laid, Lays

LEMMA LaidCons ==
    ASSUME NEW L, NEW T, NEW m, Lays(m, T, L), NEW d \in T, NEW s \in Seq(T)
    PROVE  Cons(d, s) \in Seq(T) /\ Laid(m, Cons(d, s)) = m[d] \o Laid(m, s)
<1> DEFINE all == <<d>> \o s
           n == Len(s)
           q == [i \in 1..n |-> m[s[i]]]
           r == [i \in 1..n + 1 |-> m[all[i]]]
           c == <<m[d]>> \o q
<1>1. /\ all \in Seq(T) /\ Len(all) = n + 1 /\ n \in Nat /\ all[1] = d
      /\ \A i \in 1..n : all[i + 1] = s[i]
  BY ConsReading
<1>2. (\A i \in 1..n : m[s[i]] \in L) /\ m[d] \in L /\ Joinable(L)
  BY ElementOfSeq DEF Lays
<1>3. q \in Seq(L) /\ Len(q) = n
  <2>1. q \in Seq(L)
    BY <1>1, <1>2, IsASeq
  <2>2. DOMAIN q = 1..n
    OBVIOUS
  <2> HIDE DEF q
  <2> QED BY <1>1, <2>1, <2>2, LenProperties
<1>4. r \in Seq(L) /\ Len(r) = n + 1
  <2>0. \A i \in 1..Len(all) : all[i] \in T
    BY <1>1, ElementOfSeq
  <2>1. \A i \in 1..n + 1 : m[all[i]] \in L
    BY <1>1, <2>0 DEF Lays
  <2>2. n + 1 \in Nat
    BY <1>1
  <2> HIDE DEF n, all
  <2>3. r \in Seq(L)
    BY <2>1, <2>2, IsASeq
  <2>4. DOMAIN r = 1..n + 1
    OBVIOUS
  <2> HIDE DEF r
  <2> QED BY <2>2, <2>3, <2>4, LenProperties
<1>5. /\ c \in Seq(L) /\ Len(c) = n + 1 /\ c[1] = m[d]
      /\ \A i \in 1..n : c[i + 1] = q[i]
  <2> HIDE DEF q
  <2> QED BY <1>2, <1>3, ConsReading
<1>6. \A i \in 1..n : q[i] = m[s[i]]
  OBVIOUS
<1>7. \A i \in 1..n + 1 : r[i] = m[all[i]]
  OBVIOUS
<1>8. Laid(m, all) = FlattenSeq(r) /\ Laid(m, s) = FlattenSeq(q)
  <2>1. Len(all) = n + 1
    BY <1>1
  <2> QED BY <2>1, Zenon DEF Laid, r, q, n
<1> HIDE DEF all, n, q, r, c
<1>9. ASSUME NEW i \in 1..n + 1 PROVE r[i] = c[i]
  <2>1. CASE i = 1
    BY <1>1, <1>5, <1>7, <2>1
  <2>2. CASE i # 1
    <3>1. i - 1 \in 1..n /\ (i - 1) + 1 = i
      BY <1>1, <2>2
    <3>2. all[(i - 1) + 1] = s[i - 1] /\ c[(i - 1) + 1] = q[i - 1] /\ q[i - 1] = m[s[i - 1]]
      BY <1>1, <1>5, <1>6, <3>1
    <3> QED BY <1>7, <3>1, <3>2
  <2> QED BY <2>1, <2>2
<1>10. r = c
  BY <1>4, <1>5, <1>9, SeqEqual
<1>11. FlattenSeq(c) = m[d] \o FlattenSeq(q)
  BY <1>2, <1>3, FlattenCons DEF c
<1> QED BY <1>1, <1>8, <1>10, <1>11, Zenon DEF all, Cons
-----------------------------------------------------------------------------
(* The bytes that decisions carry, one decision after the other.           *)

Choice == {d \in [target : {"toggle", "terminal", "chat"}, bytes : Bytes] :
              d.target = "toggle" => d.bytes = <<>>}
Flat(rs) == FlattenSeq([i \in 1..Len(rs) |-> rs[i].bytes])
BytesOf == [d \in Choice |-> d.bytes]

LEMMA BytesAssociative == \A s, t, u \in Bytes : (s \o t) \o u = s \o (t \o u)
  BY ConcatAssociative DEF Bytes

LEMMA FlatIsLaid ==
    ASSUME NEW rs \in Seq(Choice)
    PROVE  Flat(rs) = Laid(BytesOf, rs)
<1>1. \A i \in 1..Len(rs) : rs[i] \in Choice
  BY ElementOfSeq
<1>2. [i \in 1..Len(rs) |-> rs[i].bytes] = [i \in 1..Len(rs) |-> BytesOf[rs[i]]]
  BY <1>1 DEF BytesOf
<1> QED BY <1>2 DEF Flat, Laid

LEMMA BytesOfType == Lays(BytesOf, Choice, Bytes)
<1>1. \A d \in Choice : d.bytes \in Bytes
  BY DEF Choice
<1> QED BY <1>1, SequencesJoin DEF BytesOf, Lays, Bytes

LEMMA FlatNone == Flat(<<>>) = <<>>
  BY FlatIsLaid, LaidNone, EmptySeq

LEMMA FlatType ==
    ASSUME NEW rs \in Seq(Choice)
    PROVE  Flat(rs) \in Bytes
  BY FlatIsLaid, BytesOfType, LaidType, Zenon

LEMMA FlatCons ==
    ASSUME NEW d \in Choice, NEW rs \in Seq(Choice)
    PROVE  /\ <<d>> \o rs \in Seq(Choice) /\ <<d>> \o rs # <<>>
           /\ Flat(<<d>> \o rs) = d.bytes \o Flat(rs)
<1>1. Cons(d, rs) \in Seq(Choice) /\ Laid(BytesOf, Cons(d, rs)) = BytesOf[d] \o Laid(BytesOf, rs)
  BY BytesOfType, LaidCons
<1>2. Flat(Cons(d, rs)) = Laid(BytesOf, Cons(d, rs)) /\ Flat(rs) = Laid(BytesOf, rs)
  BY <1>1, FlatIsLaid, Zenon
<1>3. BytesOf[d] = d.bytes
  BY DEF BytesOf
<1>4. <<d>> \o rs # <<>>
  BY ConsReading, Zenon
<1> QED BY <1>1, <1>2, <1>3, <1>4, Zenon DEF Cons

(* A decision more is a toggle more or none.                               *)
LEMMA TogglesNone == Toggles(<<>>) = 0
<1>1. {i \in DOMAIN <<>> : <<>>[i].target = "toggle"} = {}
  OBVIOUS
<1> QED BY <1>1, FS_EmptySet DEF Toggles

LEMMA TogglesCons ==
    ASSUME NEW d \in Choice, NEW rs \in Seq(Choice)
    PROVE  /\ Toggles(rs) \in Nat
           /\ Toggles(<<d>> \o rs) = Toggles(rs) + (IF d.target = "toggle" THEN 1 ELSE 0)
<1> DEFINE all == <<d>> \o rs
           n == Len(rs)
           A == {i \in DOMAIN all : all[i].target = "toggle"}
           B == {i \in DOMAIN rs : rs[i].target = "toggle"}
           Shifted == {i + 1 : i \in B}
           f == [i \in B |-> i + 1]
<1>0. Toggles(<<d>> \o rs) = Cardinality(A) /\ Toggles(rs) = Cardinality(B)
  BY DEF Toggles
<1>1. /\ n \in Nat /\ DOMAIN rs = 1..n /\ DOMAIN all = 1..n + 1 /\ all[1] = d
      /\ \A i \in 1..n : all[i + 1] = rs[i]
  <2>1. <<d>> \in Seq(Choice) /\ Len(<<d>>) = 1 /\ <<d>>[1] = d /\ n \in Nat
        /\ DOMAIN rs = 1..n
    BY LenProperties
  <2>2. /\ all \in Seq(Choice) /\ Len(all) = 1 + n
        /\ \A i \in 1..1 + n : all[i] = IF i <= 1 THEN <<d>>[i] ELSE rs[i - 1]
    BY <2>1, ConcatProperties
  <2>3. \A i \in 1..n : i + 1 \in 1..1 + n /\ ~(i + 1 <= 1) /\ (i + 1) - 1 = i
    BY <2>1
  <2>4. 1 \in 1..1 + n /\ 1 + n = n + 1
    BY <2>1
  <2>5. DOMAIN all = 1..Len(all)
    BY <2>2, LenProperties
  <2> HIDE DEF all, n
  <2>6. \A i \in 1..n : all[i + 1] = rs[i]
    BY <2>2, <2>3
  <2> QED BY <2>1, <2>2, <2>4, <2>5, <2>6
<1> HIDE DEF all, n
<1>2. IsFiniteSet(B) /\ Cardinality(B) \in Nat
  <2>1. 1 \in Int /\ n \in Int
    BY <1>1
  <2>2. IsFiniteSet(1..n)
    BY <2>1, FS_Interval
  <2>3. IsFiniteSet(B)
    BY <1>1, <2>2, FS_Subset
  <2> QED BY <2>3, FS_CardinalityType
<1>3. IsFiniteSet(Shifted) /\ Cardinality(Shifted) = Cardinality(B)
  <2>1. f \in Bijection(B, Shifted)
    <3>1. f \in [B -> Shifted] /\ \A i \in B : f[i] = i + 1
      OBVIOUS
    <3>2. \A i, j \in B : f[i] = f[j] => i = j
      BY <1>1, <3>1
    <3>3. \A t \in Shifted : \E i \in B : f[i] = t
      BY <3>1
    <3> HIDE DEF f, B, Shifted
    <3> QED BY <3>1, <3>2, <3>3 DEF Bijection, Injection, Surjection, IsInjective
  <2>2. ExistsBijection(B, Shifted)
    <3> HIDE DEF f, B, Shifted
    <3> QED BY <2>1 DEF ExistsBijection
  <2> HIDE DEF B, Shifted
  <2> QED BY <1>2, <2>2, FS_Bijection
<1>4. 1 \notin Shifted
  <2>1. \A i \in B : i + 1 # 1
    BY <1>1
  <2> QED BY <2>1
<1>5. \A i \in 1..n + 1 : i # 1 => i \in Shifted <=> all[i].target = "toggle"
  <2> SUFFICES ASSUME NEW i \in 1..n + 1, i # 1
               PROVE  i \in Shifted <=> all[i].target = "toggle"
    OBVIOUS
  <2>1. i - 1 \in 1..n /\ (i - 1) + 1 = i
    BY <1>1
  <2>2. all[i] = rs[i - 1]
    BY <1>1, <2>1
  <2>3. ASSUME i \in Shifted PROVE i - 1 \in B
    <3>1. PICK j \in B : i = j + 1
      BY <2>3
    <3>2. j = i - 1
      BY <1>1, <3>1
    <3> QED BY <3>2
  <2> QED BY <1>1, <2>1, <2>2, <2>3
<1>6. \A i \in Shifted : i \in 1..n + 1
  BY <1>1
<1>7. CASE d.target = "toggle"
  <2>1. A = Shifted \cup {1}
    <3>1. 1 \in 1..n + 1
      BY <1>1
    <3> HIDE DEF Shifted
    <3> QED BY <1>1, <1>5, <1>6, <1>7, <3>1
  <2>2. Cardinality(Shifted \cup {1}) = Cardinality(Shifted) + 1
    <3> HIDE DEF Shifted
    <3> QED BY <1>3, <1>4, FS_AddElement
  <2>3. Cardinality(A) = Cardinality(B) + 1
    BY <1>3, <2>1, <2>2
  <2> HIDE DEF A, B
  <2> QED BY <1>0, <1>2, <1>7, <2>3
<1>8. CASE d.target # "toggle"
  <2>1. A = Shifted
    <3>1. ASSUME NEW i \in A PROVE i \in Shifted
      <4>1. i \in 1..n + 1 /\ all[i].target = "toggle" /\ i # 1
        BY <1>1, <1>8
      <4> HIDE DEF Shifted
      <4> QED BY <1>5, <4>1
    <3>2. ASSUME NEW i \in Shifted PROVE i \in A
      <4>1. i \in 1..n + 1 /\ i # 1
        <5> HIDE DEF Shifted
        <5> QED BY <1>4, <1>6, <3>2
      <4> HIDE DEF Shifted
      <4> QED BY <1>1, <1>5, <3>2, <4>1
    <3>3. (\A i \in A : i \in Shifted) /\ (\A i \in Shifted : i \in A)
      BY <3>1, <3>2
    <3> HIDE DEF A, Shifted
    <3> QED BY <3>3
  <2>2. Cardinality(A) = Cardinality(B) /\ Cardinality(B) \in Nat
    <3> HIDE DEF A, B, Shifted
    <3> QED BY <1>2, <1>3, <2>1
  <2> HIDE DEF A, B
  <2> QED BY <1>0, <1>8, <2>2
<1> QED BY <1>7, <1>8

-----------------------------------------------------------------------------
(* What the router makes of the bytes it has.                              *)

LEMMA FirstInType ==
    ASSUME NEW S \in SUBSET Nat, NEW otherwise
    PROVE  FirstIn(S, otherwise) \in S \cup {otherwise}
<1>1. CASE S = {}
  BY <1>1 DEF FirstIn
<1>2. CASE S # {}
  <2>1. \E x \in S : \A y \in S : x <= y
    BY <1>2, LeastExists
  <2>2. Min(S) \in S
    BY <2>1 DEF Min
  <2> QED BY <1>2, <2>2 DEF FirstIn
<1> QED BY <1>1, <1>2

(* A token has its first byte, and an F4 has three.                        *)
LEMMA TokenEndType ==
    ASSUME NEW buf \in Bytes, NEW i \in 1..Len(buf)
    PROVE  /\ TokenEnd(buf, i) \in {0} \cup i..Len(buf)
           /\ F4At(buf, i) => TokenEnd(buf, i) = i + 2
<1>1. Len(buf) \in Nat /\ i \in Nat
  BY NumberOf
<1>2. \A j : Class(buf, j) # "none" => j \in 1..Len(buf)
  BY DEF Class
<1>3. PlainEnd(buf, i) \in i..Len(buf)
  <2> DEFINE S == {j \in i..Len(buf) : Class(buf, j + 1) = "esc"}
  <2>1. S \in SUBSET Nat /\ S \subseteq i..Len(buf) /\ Len(buf) \in i..Len(buf)
    BY <1>1
  <2>2. PlainEnd(buf, i) = FirstIn(S, Len(buf))
    BY DEF PlainEnd
  <2> HIDE DEF S
  <2>3. FirstIn(S, Len(buf)) \in S \cup {Len(buf)}
    BY <2>1, FirstInType
  <2> QED BY <2>1, <2>2, <2>3
<1>4. CsiEnd(buf, i) \in {0} \cup i..Len(buf)
  <2> DEFINE S == {j \in i + 2..Len(buf) : Class(buf, j) # "par"}
  <2>1. S \in SUBSET Nat /\ S \subseteq i..Len(buf)
    BY <1>1
  <2>2. CsiEnd(buf, i) = FirstIn(S, 0)
    BY DEF CsiEnd
  <2> HIDE DEF S
  <2>3. FirstIn(S, 0) \in S \cup {0}
    BY <2>1, FirstInType
  <2> QED BY <2>1, <2>2, <2>3
<1>5. i + 2 <= Len(buf) => i + 2 \in i..Len(buf)
  BY <1>1
<1>6. Class(buf, i + 1) # "none" => i + 1 \in i..Len(buf)
  BY <1>1, <1>2
<1>7. TokenEnd(buf, i) \in {0} \cup i..Len(buf)
  <2>1. CASE Class(buf, i) # "esc"
    BY <2>1, <1>3 DEF TokenEnd
  <2>2. CASE Class(buf, i) = "esc"
    BY <2>2, <1>4, <1>5, <1>6 DEF TokenEnd, EscAwaitsMore
  <2> QED BY <2>1, <2>2
<1>8. ASSUME F4At(buf, i) PROVE TokenEnd(buf, i) = i + 2
  <2>1. Class(buf, i) = "esc" /\ Class(buf, i + 1) = "O" /\ Class(buf, i + 2) = "S"
    BY <1>8 DEF F4At
  <2>2. i + 2 <= Len(buf)
    BY <1>1, <1>2, <2>1
  <2> QED BY <2>1, <2>2 DEF TokenEnd
<1> QED BY <1>7, <1>8

LEMMA FromTokenCases ==
    ASSUME NEW buf \in Bytes, NEW f, NEW i \in 1..Len(buf) + 1, NEW rest
    PROVE  /\ i > Len(buf) => FromToken(buf, f, i, rest) = Parsed(<<>>, <<>>)
           /\ i <= Len(buf) /\ TokenEnd(buf, i) = 0 =>
                 FromToken(buf, f, i, rest) = Parsed(<<>>, SubSeq(buf, i, Len(buf)))
           /\ i <= Len(buf) /\ TokenEnd(buf, i) # 0 =>
                 FromToken(buf, f, i, rest)
                   = Parsed(<<Decision(buf, i, f)>> \o rest.results, rest.escBuf)
<1>1. Len(buf) \in Nat /\ (i > Len(buf) <=> ~(i <= Len(buf)))
  BY NumberOf
<1> QED BY <1>1 DEF FromToken

IsParsing(f, buf, who, a) ==
    f = [i \in a..Len(buf) + 1 |-> FromToken(buf, who, i, f[TokenEnd(buf, i) + 1])]

(* Two tables agree on a place when they do on the places behind it.       *)
LEMMA FromTokenSame ==
    ASSUME NEW buf \in Bytes, NEW who, NEW i \in 1..Len(buf) + 1, NEW f, NEW g,
           \A j \in i + 1..Len(buf) + 1 : f[j] = g[j]
    PROVE  FromToken(buf, who, i, f[TokenEnd(buf, i) + 1])
             = FromToken(buf, who, i, g[TokenEnd(buf, i) + 1])
<1>1. Len(buf) \in Nat
  BY NumberOf
<1>2. CASE i > Len(buf)
  <2>1. \A rest : FromToken(buf, who, i, rest) = Parsed(<<>>, <<>>)
    BY <1>2, FromTokenCases
  <2> QED BY <2>1
<1>3. CASE i <= Len(buf) /\ TokenEnd(buf, i) = 0
  <2>1. \A rest : FromToken(buf, who, i, rest) = Parsed(<<>>, SubSeq(buf, i, Len(buf)))
    BY <1>3, FromTokenCases
  <2> QED BY <2>1
<1>4. CASE i <= Len(buf) /\ TokenEnd(buf, i) # 0
  <2>1. i \in 1..Len(buf)
    BY <1>1, <1>4
  <2>2. TokenEnd(buf, i) \in i..Len(buf)
    BY <1>4, <2>1, TokenEndType
  <2>3. TokenEnd(buf, i) + 1 \in i + 1..Len(buf) + 1
    BY <1>1, <2>1, <2>2
  <2> QED BY <2>3
<1> QED BY <1>1, <1>2, <1>3, <1>4

LEMMA ParsingExists ==
    ASSUME NEW buf \in Bytes, NEW who
    PROVE  \E f : IsParsing(f, buf, who, 1)
<1> DEFINE m == Len(buf) + 1
           S == {n \in Nat : n < m => \E f : IsParsing(f, buf, who, m - n)}
<1>0. Len(buf) \in Nat /\ m \in Nat /\ m >= 1
  BY NumberOf
<1>1. 0 \in S
  <2> DEFINE f == [i \in m - 0..m |-> Parsed(<<>>, <<>>)]
  <2>1. ASSUME NEW i \in m - 0..m
        PROVE  f[i] = FromToken(buf, who, i, f[TokenEnd(buf, i) + 1])
    <3>1. i > Len(buf) /\ i \in 1..Len(buf) + 1
      BY <1>0
    <3>2. f[i] = Parsed(<<>>, <<>>)
      OBVIOUS
    <3> HIDE DEF f
    <3>3. \A rest : FromToken(buf, who, i, rest) = Parsed(<<>>, <<>>)
      BY <3>1, FromTokenCases
    <3> QED BY <3>2, <3>3
  <2>2. f = [i \in m - 0..m |-> f[i]]
    OBVIOUS
  <2> HIDE DEF f
  <2>3. IsParsing(f, buf, who, m - 0)
    BY <2>1, <2>2 DEF IsParsing
  <2> QED BY <2>3
<1>2. ASSUME NEW n \in S PROVE n + 1 \in S
  <2>0. n \in Nat /\ (n < m => \E f : IsParsing(f, buf, who, m - n))
    OBVIOUS
  <2>1. ASSUME n + 1 < m PROVE \E f : IsParsing(f, buf, who, m - (n + 1))
    <3> DEFINE a == m - (n + 1)
    <3>1. a \in 1..m /\ a + 1 = m - n /\ n < m
      BY <1>0, <2>0, <2>1
    <3>2. PICK f : IsParsing(f, buf, who, a + 1)
      BY <2>0, <3>1
    <3> HIDE DEF a
    <3> DEFINE here == FromToken(buf, who, a, f[TokenEnd(buf, a) + 1])
               g == [i \in a..m |-> IF i = a THEN here ELSE f[i]]
    <3>3. \A i \in a + 1..m : f[i] = FromToken(buf, who, i, f[TokenEnd(buf, i) + 1])
      BY <3>2 DEF IsParsing
    <3>4. \A i \in a + 1..m : i \in a..m /\ i # a
      BY <1>0, <3>1
    <3>5. g[a] = here /\ \A i \in a + 1..m : g[i] = f[i]
      <4>1. a \in a..m
        BY <3>1
      <4> HIDE DEF here
      <4> QED BY <3>4, <4>1
    <3>6. g = [i \in a..m |-> g[i]]
      OBVIOUS
    <3> HIDE DEF g
    <3>7. ASSUME NEW i \in a..m
          PROVE  g[i] = FromToken(buf, who, i, g[TokenEnd(buf, i) + 1])
      <4>1. i \in 1..Len(buf) + 1 /\ \A j \in i + 1..m : j \in a + 1..m
        BY <1>0, <3>1
      <4>2. FromToken(buf, who, i, f[TokenEnd(buf, i) + 1])
              = FromToken(buf, who, i, g[TokenEnd(buf, i) + 1])
        <5>1. \A j \in i + 1..Len(buf) + 1 : f[j] = g[j]
          BY <3>5, <4>1
        <5> HIDE DEF m
        <5> QED BY <4>1, <5>1, FromTokenSame
      <4>3. i = a \/ i \in a + 1..m
        BY <1>0, <3>1
      <4> QED BY <3>3, <3>5, <4>2, <4>3
    <3>8. IsParsing(g, buf, who, a)
      BY <3>6, <3>7 DEF IsParsing
    <3> QED BY <3>8 DEF a
  <2> QED BY <2>0, <2>1
<1>3. S = Nat
  <2> HIDE DEF S
  <2>1. S \in SUBSET Nat
    BY DEF S
  <2> QED BY <1>1, <1>2, <2>1, Counting
<1>4. Len(buf) \in S /\ Len(buf) < m /\ m - Len(buf) = 1
  BY <1>0, <1>3
<1> QED BY <1>4

LEMMA FeedReading ==
    ASSUME NEW buf \in Bytes, NEW who
    PROVE  \E f : /\ Feed(buf, who) = f[1]
                  /\ \A i \in 1..Len(buf) + 1 :
                        f[i] = FromToken(buf, who, i, f[TokenEnd(buf, i) + 1])
<1> DEFINE g == CHOOSE f : f = [i \in 1..Len(buf) + 1 |->
                                  FromToken(buf, who, i, f[TokenEnd(buf, i) + 1])]
<1>1. \E f : f = [i \in 1..Len(buf) + 1 |-> FromToken(buf, who, i, f[TokenEnd(buf, i) + 1])]
  BY ParsingExists DEF IsParsing
<1>2. g = [i \in 1..Len(buf) + 1 |-> FromToken(buf, who, i, g[TokenEnd(buf, i) + 1])]
  BY <1>1
<1>3. Feed(buf, who) = g[1]
  BY DEF Feed
<1> HIDE DEF g
<1>4. \A i \in 1..Len(buf) + 1 : g[i] = FromToken(buf, who, i, g[TokenEnd(buf, i) + 1])
  BY <1>2
<1> QED BY <1>3, <1>4

(* The decisions about bytes and what is kept of them: the same bytes in   *)
(* their order, but for those of an F4.                                    *)
Routes(p, bytes) ==
    /\ p.results \in Seq(Choice) /\ p.escBuf \in Bytes
    /\ Numbers(Flat(p.results)) \cup Numbers(p.escBuf) \subseteq Numbers(bytes)
    /\ Len(Flat(p.results)) + Len(p.escBuf) + 3 * Toggles(p.results) = Len(bytes)
    /\ Ordered(bytes) => /\ Ordered(Flat(p.results)) /\ Ordered(p.escBuf)
                         /\ Under(Numbers(Flat(p.results)), Numbers(p.escBuf))

LEMMA NoNumbers == Numbers(<<>>) = {} /\ Ordered(<<>>) /\ <<>> \in Bytes /\ Len(<<>>) = 0
<1>1. <<>> \in Bytes /\ Len(<<>>) = 0
  BY EmptySeq DEF Bytes
<1>2. 1..0 = {}
  OBVIOUS
<1> QED BY <1>1, <1>2 DEF Numbers, Ordered

LEMMA KeepsAll ==
    ASSUME NEW s \in Bytes
    PROVE  Routes(Parsed(<<>>, s), s)
<1> DEFINE p == Parsed(<<>>, s)
<1>1. p.results = <<>> /\ p.escBuf = s
  BY DEF Parsed
<1>2. Flat(<<>>) = <<>> /\ Toggles(<<>>) = 0 /\ <<>> \in Seq(Choice)
  BY FlatNone, TogglesNone, EmptySeq
<1>3. Len(s) \in Nat /\ Numbers(<<>>) = {} /\ Ordered(<<>>) /\ Len(<<>>) = 0
  BY NumberOf, NoNumbers
<1> HIDE DEF p
<1>6. /\ Flat(p.results) = <<>> /\ Toggles(p.results) = 0 /\ p.results \in Seq(Choice)
      /\ Numbers(Flat(p.results)) = {} /\ Ordered(Flat(p.results)) /\ Len(Flat(p.results)) = 0
  BY <1>1, <1>2, <1>3, Zenon
<1>7. Len(Flat(p.results)) + Len(p.escBuf) + 3 * Toggles(p.results) = Len(s)
  BY <1>1, <1>3, <1>6
<1>8. Under(Numbers(Flat(p.results)), Numbers(p.escBuf))
  BY <1>6 DEF Under
<1>9. Numbers(Flat(p.results)) \cup Numbers(p.escBuf) \subseteq Numbers(s)
  BY <1>1, <1>6
<1>10. p.escBuf \in Bytes /\ (Ordered(s) => Ordered(p.escBuf))
  BY <1>1
<1> QED BY <1>6, <1>7, <1>8, <1>9, <1>10, Zenon DEF Routes, p

LEMMA FromTokenRoutes ==
    ASSUME NEW buf \in Bytes, NEW who \in {"terminal", "chat"}, NEW i \in 1..Len(buf) + 1,
           NEW rest,
           i <= Len(buf) /\ TokenEnd(buf, i) # 0 =>
              Routes(rest, SubSeq(buf, TokenEnd(buf, i) + 1, Len(buf)))
    PROVE  Routes(FromToken(buf, who, i, rest), SubSeq(buf, i, Len(buf)))
<1>0. Len(buf) \in Nat
  BY NumberOf
<1>1. CASE i > Len(buf)
  <2>1. SubSeq(buf, i, Len(buf)) = <<>>
    BY <1>0, <1>1, SubSeqEmpty
  <2>2. FromToken(buf, who, i, rest) = Parsed(<<>>, <<>>)
    BY <1>1, FromTokenCases
  <2> QED BY <2>1, <2>2, KeepsAll, NoNumbers
<1>2. CASE i <= Len(buf) /\ TokenEnd(buf, i) = 0
  <2>1. SubSeq(buf, i, Len(buf)) \in Bytes
    <3>1. Len(buf) \in i - 1..Len(buf)
      BY <1>0, <1>2
    <3> QED BY <3>1, Divided
  <2>2. FromToken(buf, who, i, rest) = Parsed(<<>>, SubSeq(buf, i, Len(buf)))
    BY <1>2, FromTokenCases
  <2> QED BY <2>1, <2>2, KeepsAll
<1>3. CASE i <= Len(buf) /\ TokenEnd(buf, i) # 0
  <2> DEFINE end == TokenEnd(buf, i)
             t == SubSeq(buf, i, end)
             u == SubSeq(buf, end + 1, Len(buf))
             all == SubSeq(buf, i, Len(buf))
             d == Decision(buf, i, who)
             rs == rest.results
             p == Parsed(<<d>> \o rs, rest.escBuf)
  <2>1. i \in 1..Len(buf) /\ end \in i..Len(buf) /\ end \in i - 1..Len(buf)
    <3>1. i \in 1..Len(buf)
      BY <1>0, <1>3
    <3>2. end \in i..Len(buf)
      BY <1>3, <3>1, TokenEndType
    <3> HIDE DEF end
    <3> QED BY <1>0, <3>1, <3>2
  <2>2. /\ t \in Bytes /\ u \in Bytes /\ all = t \o u /\ Len(t) = end - i + 1
    BY <2>1, Divided
  <2>3. FromToken(buf, who, i, rest) = p
    BY <1>3, FromTokenCases
  <2>4. Routes(rest, u)
    BY <1>3
  <2>5. /\ d \in Choice
        /\ \/ d.bytes = <<>> /\ Len(t) = 3 /\ d.target = "toggle"
           \/ d.bytes = t /\ d.target # "toggle"
    <3>1. CASE F4At(buf, i)
      <4>1. d = [target |-> "toggle", bytes |-> <<>>]
        BY <3>1 DEF Decision, Result
      <4>2. end = i + 2
        BY <2>1, <3>1, TokenEndType
      <4>3. Len(t) = 3
        <5> HIDE DEF end, t
        <5> QED BY <2>1, <2>2, <4>2
      <4> HIDE DEF d, t
      <4> QED BY <4>1, <4>3, NoNumbers DEF Choice
    <3>2. CASE ~F4At(buf, i)
      <4>1. d = [target |-> who, bytes |-> t]
        BY <3>2 DEF Decision, Result
      <4> HIDE DEF d, t
      <4> QED BY <2>2, <4>1 DEF Choice
    <3> QED BY <3>1, <3>2
  <2>6. p.results = <<d>> \o rs /\ p.escBuf = rest.escBuf
    BY DEF Parsed
  <2> HIDE DEF end, t, u, all, d, rs, p
  <2> DEFINE b == d.bytes
             F == Flat(rs)
             E == rest.escBuf
  <2>7. /\ rs \in Seq(Choice) /\ E \in Bytes
        /\ Numbers(F) \cup Numbers(E) \subseteq Numbers(u)
        /\ Len(F) + Len(E) + 3 * Toggles(rs) = Len(u)
        /\ Ordered(u) => Ordered(F) /\ Ordered(E) /\ Under(Numbers(F), Numbers(E))
    BY <2>4 DEF Routes, rs
  <2>8. F \in Bytes /\ b \in Bytes
    BY <2>5, <2>7, FlatType DEF Choice
  <2>9. /\ <<d>> \o rs \in Seq(Choice) /\ Flat(<<d>> \o rs) = b \o F
        /\ Toggles(<<d>> \o rs) = Toggles(rs) + (IF d.target = "toggle" THEN 1 ELSE 0)
        /\ Toggles(rs) \in Nat
    BY <2>5, <2>7, FlatCons, TogglesCons
  <2> HIDE DEF b, F, E
  <2>10. /\ Numbers(all) = Numbers(t) \cup Numbers(u) /\ Len(all) = Len(t) + Len(u)
         /\ Ordered(all) => Ordered(t) /\ Ordered(u) /\ Under(Numbers(t), Numbers(u))
    BY <2>2, Together
  <2>11. /\ Numbers(b \o F) = Numbers(b) \cup Numbers(F) /\ Len(b \o F) = Len(b) + Len(F)
         /\ Ordered(b) /\ Ordered(F) /\ Under(Numbers(b), Numbers(F)) => Ordered(b \o F)
    BY <2>8, Together
  <2>12. /\ Numbers(b) \subseteq Numbers(t) /\ (Ordered(t) => Ordered(b))
         /\ Len(b) + 3 * (IF d.target = "toggle" THEN 1 ELSE 0) = Len(t)
    <3>1. CASE b = <<>> /\ Len(t) = 3 /\ d.target = "toggle"
      BY <3>1, NoNumbers
    <3>2. CASE b = t /\ d.target # "toggle"
      <4>1. Len(t) \in Nat
        BY <2>2, NumberOf
      <4> QED BY <3>2, <4>1
    <3> QED BY <2>5, <3>1, <3>2 DEF b
  <2>13. Numbers(b \o F) \cup Numbers(E) \subseteq Numbers(all)
    BY <2>7, <2>10, <2>11, <2>12
  <2>14. Len(b \o F) + Len(E) + 3 * Toggles(<<d>> \o rs) = Len(all)
    <3>1. Len(b) \in Nat /\ Len(F) \in Nat /\ Len(E) \in Nat
      BY <2>7, <2>8, NumberOf
    <3>2. Toggles(rs) \in Nat /\ Len(F) + Len(E) + 3 * Toggles(rs) = Len(u)
      BY <2>7, <2>9
    <3>3. Len(b \o F) = Len(b) + Len(F) /\ Len(all) = Len(t) + Len(u)
      BY <2>10, <2>11
    <3>6. Len(u) \in Nat
      BY <2>2, NumberOf
    <3>7. /\ (Len(b) + Len(F)) + Len(E) + 3 * (Toggles(rs) + 1) = (Len(b) + 3) + Len(u)
           /\ (Len(b) + Len(F)) + Len(E) + 3 * Toggles(rs) = Len(b) + Len(u)
      <4> DEFINE x == Len(b)
                 y == Len(F)
                 z == Len(E)
                 k == Toggles(rs)
                 n == Len(u)
      <4>1. x \in Nat /\ y \in Nat /\ z \in Nat /\ k \in Nat /\ n \in Nat
        BY <3>1, <3>2, <3>6, Zenon
      <4>2. y + z + 3 * k = n
        BY <3>2, Zenon
      <4> HIDE DEF x, y, z, k, n
      <4>3. (x + y) + z + 3 * (k + 1) = (x + 3) + n /\ (x + y) + z + 3 * k = x + n
        BY <4>1, <4>2
      <4> QED BY <4>3, Zenon DEF x, y, z, k, n
    <3>4. CASE d.target = "toggle"
      <4>1. Toggles(<<d>> \o rs) = Toggles(rs) + 1 /\ Len(t) = Len(b) + 3
        BY <2>9, <2>12, <3>1, <3>4
      <4> QED BY <3>3, <3>7, <4>1, Zenon
    <3>5. CASE d.target # "toggle"
      <4>1. Toggles(<<d>> \o rs) = Toggles(rs) /\ Len(t) = Len(b)
        BY <2>9, <2>12, <3>1, <3>5
      <4> QED BY <3>3, <3>7, <4>1, Zenon
    <3> QED BY <3>4, <3>5
  <2>15. ASSUME Ordered(all)
         PROVE  Ordered(b \o F) /\ Ordered(E) /\ Under(Numbers(b \o F), Numbers(E))
    <3>1. Ordered(t) /\ Ordered(u) /\ Under(Numbers(t), Numbers(u))
      BY <2>10, <2>15
    <3>2. Under(Numbers(b), Numbers(F)) /\ Under(Numbers(b), Numbers(E))
      BY <2>7, <2>12, <3>1 DEF Under
    <3>3. Under(Numbers(b) \cup Numbers(F), Numbers(E))
      BY <2>7, <3>1, <3>2 DEF Under
    <3>4. Ordered(b \o F)
      BY <2>7, <2>11, <2>12, <3>1, <3>2
    <3> QED BY <2>7, <2>11, <3>1, <3>3, <3>4
  <2>16. Routes(p, all)
    BY <2>6, <2>7, <2>9, <2>13, <2>14, <2>15 DEF Routes, E
  <2> QED BY <2>3, <2>16 DEF all
<1> QED BY <1>0, <1>1, <1>2, <1>3

LEMMA FeedRoutes ==
    ASSUME NEW buf \in Bytes, NEW who \in {"terminal", "chat"}
    PROVE  Routes(Feed(buf, who), buf)
<1> DEFINE m == Len(buf) + 1
<1>0. Len(buf) \in Nat /\ m \in Nat /\ m >= 1
  BY NumberOf
<1>1. PICK f : /\ Feed(buf, who) = f[1]
               /\ \A i \in 1..m : f[i] = FromToken(buf, who, i, f[TokenEnd(buf, i) + 1])
  BY FeedReading
<1> DEFINE Done(i) == Routes(f[i], SubSeq(buf, i, Len(buf)))
           S == {n \in Nat : \A i \in 1..m : m - i < n => Done(i)}
<1>2. ASSUME NEW i \in 1..m, \A j \in i + 1..m : Done(j) PROVE Done(i)
  <2>1. ASSUME i <= Len(buf), TokenEnd(buf, i) # 0 PROVE Done(TokenEnd(buf, i) + 1)
    <3>1. i \in 1..Len(buf)
      BY <1>0, <2>1
    <3>2. TokenEnd(buf, i) \in i..Len(buf)
      BY <2>1, <3>1, TokenEndType
    <3>3. TokenEnd(buf, i) + 1 \in i + 1..m
      BY <1>0, <3>1, <3>2
    <3> HIDE DEF Done
    <3> QED BY <1>2, <3>3
  <2>2. Routes(FromToken(buf, who, i, f[TokenEnd(buf, i) + 1]), SubSeq(buf, i, Len(buf)))
    BY <2>1, FromTokenRoutes
  <2> QED BY <1>1, <2>2
<1> HIDE DEF Done
<1>3. 0 \in S
  BY <1>0
<1>4. ASSUME NEW n \in S PROVE n + 1 \in S
  <2>0. n \in Nat /\ \A i \in 1..m : m - i < n => Done(i)
    OBVIOUS
  <2>1. ASSUME NEW i \in 1..m, m - i < n + 1 PROVE Done(i)
    <3>1. \A j \in i + 1..m : j \in 1..m /\ m - j < n
      BY <1>0, <2>0, <2>1
    <3>2. \A j \in i + 1..m : Done(j)
      BY <2>0, <3>1
    <3> QED BY <1>2, <3>2
  <2> QED BY <2>0, <2>1
<1>5. S = Nat
  <2> HIDE DEF S
  <2>1. S \in SUBSET Nat
    BY DEF S
  <2> QED BY <1>3, <1>4, <2>1, Counting
<1>6. m \in S /\ 1 \in 1..m /\ m - 1 < m
  BY <1>0, <1>5
<1>7. Done(1)
  BY <1>6
<1>8. SubSeq(buf, 1, Len(buf)) = buf
  BY SubSeqFull DEF Bytes
<1> QED BY <1>1, <1>7, <1>8 DEF Done

-----------------------------------------------------------------------------
(* The places of the bytes typed.                                          *)

(* What has gone to either side, the decisions to be carried out, what the *)
(* router keeps and what is to be read follow each other.                  *)
Arranged(x, y, w, e, t, n) ==
    /\ x \in Bytes /\ y \in Bytes /\ w \in Bytes /\ e \in Bytes /\ t \in Bytes
    /\ Ordered(x) /\ Ordered(y) /\ Ordered(w) /\ Ordered(e) /\ Ordered(t)
    /\ Numbers(x) \cap Numbers(y) = {}
    /\ Under(Numbers(x) \cup Numbers(y), Numbers(w) \cup Numbers(e) \cup Numbers(t))
    /\ Under(Numbers(w), Numbers(e) \cup Numbers(t)) /\ Under(Numbers(e), Numbers(t))
    /\ Numbers(x) \cup Numbers(y) \cup Numbers(w) \cup Numbers(e) \cup Numbers(t) \subseteq 1..n

Routing ==
    /\ results \in Seq(Choice) /\ nTyped \in Nat /\ toggles \in Nat
    /\ loop \notin {"handling", "sending"} => results = <<>>
    /\ Arranged(sent, toPanel, Flat(results), escBuf, tty, nTyped)
    /\ Len(sent) + Len(toPanel) + Len(Flat(results)) + Len(escBuf) + Len(tty) + 3 * toggles
         = nTyped

LEMMA ArrangedType ==
    ASSUME NEW x, NEW y, NEW w, NEW e, NEW t, NEW n, Arranged(x, y, w, e, t, n)
    PROVE  /\ Numbers(x) \subseteq Nat /\ Numbers(y) \subseteq Nat /\ Numbers(w) \subseteq Nat
           /\ Numbers(e) \subseteq Nat /\ Numbers(t) \subseteq Nat
           /\ Len(x) \in Nat /\ Len(y) \in Nat /\ Len(w) \in Nat /\ Len(e) \in Nat
           /\ Len(t) \in Nat
<1>1. x \in Bytes /\ y \in Bytes /\ w \in Bytes /\ e \in Bytes /\ t \in Bytes
  BY DEF Arranged
<1> QED BY <1>1, NumberOf

LEMMA ArrangedSwaps ==
    ASSUME NEW x, NEW y, NEW w, NEW e, NEW t, NEW n, Arranged(x, y, w, e, t, n)
    PROVE  Arranged(y, x, w, e, t, n)
<1>1. Numbers(x) \cup Numbers(y) = Numbers(y) \cup Numbers(x)
  OBVIOUS
<1>2. Under(Numbers(y) \cup Numbers(x), Numbers(w) \cup Numbers(e) \cup Numbers(t))
  BY <1>1, Zenon DEF Arranged
<1> QED BY <1>1, <1>2 DEF Arranged

(* The first bytes of those waiting go to a side.                          *)
LEMMA FirstGoes ==
    ASSUME NEW x, NEW y, NEW b \in Bytes, NEW w \in Bytes, NEW e, NEW t, NEW n,
           Arranged(x, y, b \o w, e, t, n)
    PROVE  Arranged(x \o b, y, w, e, t, n)
<1> DEFINE X == Numbers(x)
           Y == Numbers(y)
           B == Numbers(b)
           W == Numbers(w)
           E == Numbers(e)
           T == Numbers(t)
<1>1. /\ Numbers(b \o w) = B \cup W
      /\ Ordered(b \o w) => Ordered(b) /\ Ordered(w) /\ Under(B, W)
  BY Together
<1>2. /\ x \in Bytes /\ y \in Bytes /\ e \in Bytes /\ t \in Bytes
      /\ Ordered(x) /\ Ordered(y) /\ Ordered(b) /\ Ordered(w) /\ Ordered(e) /\ Ordered(t)
      /\ X \cap Y = {} /\ Under(X \cup Y, B \cup W \cup E \cup T)
      /\ Under(B \cup W, E \cup T) /\ Under(E, T) /\ Under(B, W)
      /\ X \cup Y \cup (B \cup W) \cup E \cup T \subseteq 1..n
  BY <1>1 DEF Arranged
<1>3. /\ x \o b \in Bytes /\ Numbers(x \o b) = X \cup B
      /\ Ordered(x) /\ Ordered(b) /\ Under(X, B) => Ordered(x \o b)
  BY <1>2, Together
<1>4. Y \subseteq Nat
  BY <1>2, NumberOf
<1> HIDE DEF X, Y, B, W, E, T
<1>5. Under(X, B) /\ Under(W, E \cup T) /\ Under((X \cup B) \cup Y, W \cup E \cup T)
  BY <1>2 DEF Under
<1>6. (X \cup B) \cap Y = {}
  <2>1. \A i \in B : \A j \in Y : j < i /\ j \in Nat
    BY <1>2, <1>4 DEF Under
  <2>2. \A i \in B : i \notin Y
    BY <2>1
  <2> QED BY <1>2, <2>2
<1>7. (X \cup B) \cup Y \cup W \cup E \cup T \subseteq 1..n
  BY <1>2
<1> QED BY <1>2, <1>3, <1>5, <1>6, <1>7 DEF Arranged, X, Y, B, W, E, T

(* What the router makes of what it has kept and the first of what is to be*)
(* read keeps its place.                                                   *)
LEMMA ReadKeepsPlaces ==
    ASSUME NEW x, NEW y, NEW e, NEW a \in Bytes, NEW t \in Bytes, NEW n,
           Arranged(x, y, <<>>, e, a \o t, n),
           NEW p, Routes(p, e \o a)
    PROVE  Arranged(x, y, Flat(p.results), p.escBuf, t, n)
<1> DEFINE X == Numbers(x)
           Y == Numbers(y)
           A == Numbers(a)
           E == Numbers(e)
           T == Numbers(t)
           f == Flat(p.results)
           k == p.escBuf
           F == Numbers(f)
           K == Numbers(k)
<1>1. /\ Numbers(a \o t) = A \cup T
      /\ Ordered(a \o t) => Ordered(a) /\ Ordered(t) /\ Under(A, T)
  BY Together
<1>2. /\ x \in Bytes /\ y \in Bytes /\ e \in Bytes
      /\ Ordered(x) /\ Ordered(y) /\ Ordered(e) /\ Ordered(a) /\ Ordered(t) /\ Under(A, T)
      /\ X \cap Y = {} /\ Under(X \cup Y, Numbers(<<>>) \cup E \cup (A \cup T))
      /\ Under(E, A \cup T)
      /\ X \cup Y \cup Numbers(<<>>) \cup E \cup (A \cup T) \subseteq 1..n
  BY <1>1 DEF Arranged
<1>3. /\ Numbers(e \o a) = E \cup A
      /\ Ordered(e) /\ Ordered(a) /\ Under(E, A) => Ordered(e \o a)
  BY <1>2, Together
<1>4. /\ f \in Bytes /\ k \in Bytes /\ F \cup K \subseteq Numbers(e \o a)
      /\ Ordered(e \o a) => Ordered(f) /\ Ordered(k) /\ Under(F, K)
  <2>1. p.results \in Seq(Choice)
    BY DEF Routes
  <2>2. f \in Bytes
    BY <2>1, FlatType
  <2> QED BY <2>2 DEF Routes
<1> HIDE DEF X, Y, A, E, T, f, k, F, K
<1>5. Under(E, A)
  BY <1>2 DEF Under
<1>6. Ordered(f) /\ Ordered(k) /\ Under(F, K) /\ F \cup K \subseteq E \cup A
  BY <1>2, <1>3, <1>4, <1>5
<1>7. Under(F, K \cup T) /\ Under(K, T) /\ Under(X \cup Y, F \cup K \cup T)
  BY <1>2, <1>6 DEF Under
<1>8. X \cup Y \cup F \cup K \cup T \subseteq 1..n
  BY <1>2, <1>6
<1> QED BY <1>2, <1>4, <1>6, <1>7, <1>8 DEF Arranged, X, Y, T, F, K, f, k

(* What is typed comes last.                                               *)
LEMMA TypedComesLast ==
    ASSUME NEW x, NEW y, NEW w, NEW e, NEW t, NEW n \in Nat, Arranged(x, y, w, e, t, n),
           NEW k \in Seq(STRING)
    PROVE  LET typed == [i \in 1..Len(k) |-> [c |-> k[i], n |-> n + i]]
           IN /\ Arranged(x, y, w, e, t \o typed, n + Len(k))
              /\ Len(t \o typed) = Len(t) + Len(k)
<1> DEFINE typed == [i \in 1..Len(k) |-> [c |-> k[i], n |-> n + i]]
           X == Numbers(x)
           Y == Numbers(y)
           W == Numbers(w)
           E == Numbers(e)
           T == Numbers(t)
           K == Numbers(typed)
<1>1. Len(k) \in Nat /\ \A i \in 1..Len(k) : k[i] \in STRING
  BY LenProperties, ElementOfSeq
<1>2. typed \in Bytes /\ Len(typed) = Len(k) /\ \A i \in 1..Len(k) : typed[i].n = n + i
  <2>1. \A i \in 1..Len(k) : [c |-> k[i], n |-> n + i] \in Byte
    BY <1>1 DEF Byte
  <2>2. typed \in [1..Len(k) -> Byte]
    BY <2>1
  <2> QED BY <1>1, <2>2 DEF Bytes
<1> HIDE DEF typed
<1>3. \A i \in K : i \in n + 1..n + Len(k)
  BY <1>1, <1>2 DEF Numbers
<1>4. Ordered(typed)
  BY <1>1, <1>2 DEF Ordered
<1>5. /\ x \in Bytes /\ y \in Bytes /\ w \in Bytes /\ e \in Bytes /\ t \in Bytes
      /\ Ordered(x) /\ Ordered(y) /\ Ordered(w) /\ Ordered(e) /\ Ordered(t)
      /\ X \cap Y = {} /\ Under(X \cup Y, W \cup E \cup T)
      /\ Under(W, E \cup T) /\ Under(E, T)
      /\ X \cup Y \cup W \cup E \cup T \subseteq 1..n
  BY DEF Arranged
<1>6. /\ t \o typed \in Bytes /\ Numbers(t \o typed) = T \cup K
      /\ Len(t \o typed) = Len(t) + Len(typed)
      /\ Ordered(t) /\ Ordered(typed) /\ Under(T, K) => Ordered(t \o typed)
  BY <1>2, <1>5, Together
<1> HIDE DEF X, Y, W, E, T, K
<1>7. \A i \in X \cup Y \cup W \cup E \cup T : \A j \in K : i < j
  BY <1>1, <1>3, <1>5
<1>8. /\ Under(T, K) /\ Under(X \cup Y, W \cup E \cup (T \cup K))
      /\ Under(W, E \cup (T \cup K)) /\ Under(E, T \cup K)
  BY <1>5, <1>7 DEF Under
<1>9. X \cup Y \cup W \cup E \cup (T \cup K) \subseteq 1..n + Len(k)
  <2>1. 1..n \subseteq 1..n + Len(k) /\ n + 1..n + Len(k) \subseteq 1..n + Len(k)
    BY <1>1
  <2>2. K \subseteq 1..n + Len(k)
    BY <1>3, <2>1
  <2> QED BY <1>5, <2>1, <2>2
<1>10. Arranged(x, y, w, e, t \o typed, n + Len(k))
  BY <1>4, <1>5, <1>6, <1>8, <1>9 DEF Arranged, X, Y, W, E, T, K
<1> QED BY <1>2, <1>6, <1>10 DEF typed

-----------------------------------------------------------------------------
(* Steps.                                                                  *)

LEMMA HeadAndTail ==
    ASSUME NEW T, NEW s \in Seq(T), s # <<>>
    PROVE  s = <<Head(s)>> \o Tail(s) /\ Head(s) \in T /\ Tail(s) \in Seq(T)
<1>1. Len(s) \in Nat \ {0}
  BY EmptySeq
<1>2. 1 \in 1..Len(s) /\ Len(s) \in 1..Len(s)
  BY <1>1
<1>3. SubSeq(s, 1, Len(s)) = <<s[1]>> \o SubSeq(s, 1 + 1, Len(s))
  BY <1>2, SubSeqRecursiveFirst
<1>4. SubSeq(s, 1, Len(s)) = s /\ Tail(s) = SubSeq(s, 2, Len(s)) /\ Head(s) = s[1]
  BY SubSeqFull, TailIsSubSeq
<1>5. s = <<Head(s)>> \o Tail(s)
  BY <1>3, <1>4
<1> QED BY <1>5, HeadTailProperties

LEMMA FirstDecision ==
    ASSUME NEW rs \in Seq(Choice), rs # <<>>
    PROVE  /\ Head(rs) \in Choice /\ Head(rs).bytes \in Bytes /\ Tail(rs) \in Seq(Choice)
           /\ Flat(rs) = Head(rs).bytes \o Flat(Tail(rs))
<1>1. rs = <<Head(rs)>> \o Tail(rs) /\ Head(rs) \in Choice /\ Tail(rs) \in Seq(Choice)
  BY HeadAndTail
<1>2. Flat(<<Head(rs)>> \o Tail(rs)) = Head(rs).bytes \o Flat(Tail(rs))
  BY <1>1, FlatCons
<1>3. Head(rs).bytes \in Bytes
  BY <1>1 DEF Choice
<1> QED BY <1>1, <1>2, <1>3, Zenon

LEMMA TogglesType == ASSUME NEW rs \in Seq(Choice) PROVE Toggles(rs) \in Nat
<1>1. [target |-> "toggle", bytes |-> <<>>] \in Choice
  BY NoNumbers DEF Choice
<1> QED BY <1>1, TogglesCons

LEMMA MovedOn ==
    \A x, y, b, w, e, t, k, n \in Nat :
        x + y + (b + w) + e + t + 3 * k = n => /\ (x + b) + y + w + e + t + 3 * k = n
                                              /\ x + (y + b) + w + e + t + 3 * k = n
  OBVIOUS

LEMMA GoesToHost ==
    ASSUME Routing, NEW b \in Bytes, results' \in Seq(Choice),
           Flat(results) = b \o Flat(results'), sent' = sent \o b,
           UNCHANGED <<toPanel, escBuf, tty, nTyped, toggles>>,
           loop' \in {"handling", "sending"}
    PROVE  Routing'
<1> DEFINE w == Flat(results')
<1>1. w \in Bytes
  BY FlatType
<1>2. Arranged(sent, toPanel, b \o w, escBuf, tty, nTyped)
  BY Zenon DEF Routing
<1>3. Len(sent) + Len(toPanel) + Len(b \o w) + Len(escBuf) + Len(tty) + 3 * toggles = nTyped
  BY Zenon DEF Routing
<1> HIDE DEF w
<1>4. Arranged(sent \o b, toPanel, w, escBuf, tty, nTyped)
  BY <1>1, <1>2, FirstGoes
<1>5. /\ Len(sent) \in Nat /\ Len(toPanel) \in Nat /\ Len(b) \in Nat /\ Len(w) \in Nat
      /\ Len(escBuf) \in Nat /\ Len(tty) \in Nat /\ toggles \in Nat /\ nTyped \in Nat
  BY <1>1, <1>2, ArrangedType, NumberOf DEF Routing
<1>6. sent \in Bytes
  BY <1>2 DEF Arranged
<1>7. Len(b \o w) = Len(b) + Len(w) /\ Len(sent \o b) = Len(sent) + Len(b)
  BY <1>1, <1>6, Together
<1>8. (Len(sent) + Len(b)) + Len(toPanel) + Len(w) + Len(escBuf) + Len(tty) + 3 * toggles = nTyped
  BY <1>3, <1>5, <1>7, MovedOn
<1>9. Len(sent \o b) + Len(toPanel) + Len(w) + Len(escBuf) + Len(tty) + 3 * toggles = nTyped
  BY <1>7, <1>8, Zenon
<1> QED BY <1>4, <1>5, <1>9 DEF Routing, w

LEMMA GoesToPanel ==
    ASSUME Routing, NEW b \in Bytes, results' \in Seq(Choice),
           Flat(results) = b \o Flat(results'), toPanel' = toPanel \o b,
           UNCHANGED <<sent, escBuf, tty, nTyped, toggles>>,
           loop' \in {"handling", "sending"}
    PROVE  Routing'
<1> DEFINE w == Flat(results')
<1>1. w \in Bytes
  BY FlatType
<1>2. Arranged(sent, toPanel, b \o w, escBuf, tty, nTyped)
  BY Zenon DEF Routing
<1>3. Len(sent) + Len(toPanel) + Len(b \o w) + Len(escBuf) + Len(tty) + 3 * toggles = nTyped
  BY Zenon DEF Routing
<1> HIDE DEF w
<1>4. Arranged(sent, toPanel \o b, w, escBuf, tty, nTyped)
  <2>1. Arranged(toPanel, sent, b \o w, escBuf, tty, nTyped)
    BY <1>2, ArrangedSwaps
  <2>2. Arranged(toPanel \o b, sent, w, escBuf, tty, nTyped)
    BY <1>1, <2>1, FirstGoes
  <2> QED BY <2>2, ArrangedSwaps
<1>5. /\ Len(sent) \in Nat /\ Len(toPanel) \in Nat /\ Len(b) \in Nat /\ Len(w) \in Nat
      /\ Len(escBuf) \in Nat /\ Len(tty) \in Nat /\ toggles \in Nat /\ nTyped \in Nat
  BY <1>1, <1>2, ArrangedType, NumberOf DEF Routing
<1>6. toPanel \in Bytes
  BY <1>2 DEF Arranged
<1>7. Len(b \o w) = Len(b) + Len(w) /\ Len(toPanel \o b) = Len(toPanel) + Len(b)
  BY <1>1, <1>6, Together
<1>8. Len(sent) + (Len(toPanel) + Len(b)) + Len(w) + Len(escBuf) + Len(tty) + 3 * toggles = nTyped
  BY <1>3, <1>5, <1>7, MovedOn
<1>9. Len(sent) + Len(toPanel \o b) + Len(w) + Len(escBuf) + Len(tty) + 3 * toggles = nTyped
  BY <1>7, <1>8, Zenon
<1> QED BY <1>4, <1>5, <1>9 DEF Routing, w

LEMMA RoutingStays ==
    ASSUME Routing, UNCHANGED <<sent, toPanel, results, escBuf, tty, nTyped, toggles>>,
           loop' \notin {"handling", "sending"} => results = <<>>
    PROVE  Routing'
  BY DEF Routing

(* A decision without bytes, or whose bytes have all gone.                 *)
LEMMA DecisionEnds ==
    ASSUME Routing, results # <<>>, Head(results).bytes = <<>>, results' = Tail(results),
           UNCHANGED <<sent, toPanel, escBuf, tty, nTyped, toggles>>,
           loop' \in {"handling", "sending"}
    PROVE  Routing'
<1>1. /\ Tail(results) \in Seq(Choice) /\ Flat(results) = <<>> \o Flat(Tail(results))
  BY FirstDecision DEF Routing
<1>2. Flat(Tail(results)) \in Bytes /\ <<>> \o Flat(Tail(results)) = Flat(Tail(results))
  BY <1>1, FlatType, ConcatEmptySeq DEF Bytes
<1>3. Flat(results') = Flat(results)
  BY <1>1, <1>2, Zenon
<1> QED BY <1>1, <1>3 DEF Routing

LEMMA ReadRoutes == ASSUME Routing, FocusKnown, Read PROVE Routing'
<1>1. PICK n \in 1..Len(tty) :
         LET parsed == Feed(Joined(SubSeq(tty, 1, n)), focus)
         IN /\ results' = parsed.results /\ escBuf' = parsed.escBuf
            /\ toggles' = toggles + Toggles(parsed.results)
            /\ tty' = SubSeq(tty, n + 1, Len(tty))
  BY DEF Read
<1> DEFINE a == SubSeq(tty, 1, n)
           t == SubSeq(tty, n + 1, Len(tty))
           p == Feed(Joined(a), focus)
<1>2. /\ results = <<>> /\ loop' = "handling" /\ UNCHANGED <<nTyped, sent, toPanel>>
      /\ results' = p.results /\ escBuf' = p.escBuf /\ tty' = t
      /\ toggles' = toggles + Toggles(p.results)
  BY <1>1 DEF Read, Routing
<1>3. /\ nTyped \in Nat /\ toggles \in Nat
      /\ Arranged(sent, toPanel, <<>>, escBuf, tty, nTyped)
      /\ Len(sent) + Len(toPanel) + 0 + Len(escBuf) + Len(tty) + 3 * toggles = nTyped
  BY <1>2, FlatNone, NoNumbers DEF Routing
<1>4. tty \in Bytes /\ escBuf \in Bytes
  BY <1>3 DEF Arranged
<1>5. a \in Bytes /\ t \in Bytes /\ tty = a \o t /\ Len(tty) = Len(a) + Len(t)
  <2>1. Len(tty) \in Nat
    BY <1>4, NumberOf
  <2>2. 1 \in 1..Len(tty) + 1 /\ n \in 1 - 1..Len(tty)
    BY <2>1
  <2>3. a \in Bytes /\ t \in Bytes /\ a \o t = SubSeq(tty, 1, Len(tty))
    BY <1>4, <2>2, Divided
  <2>4. SubSeq(tty, 1, Len(tty)) = tty
    BY <1>4, SubSeqFull DEF Bytes
  <2>5. tty = a \o t
    BY <2>3, <2>4, Zenon
  <2>6. Len(a \o t) = Len(a) + Len(t)
    BY <2>3, Together
  <2> QED BY <2>3, <2>5, <2>6, Zenon
<1>6. Routes(p, escBuf \o a)
  <2>1. escBuf \o a \in Bytes /\ focus \in {"terminal", "chat"} /\ Joined(a) = escBuf \o a
    BY <1>4, <1>5, Together DEF Joined, FocusKnown
  <2> QED BY <2>1, FeedRoutes
<1> HIDE DEF a, t, p
<1>7. Arranged(sent, toPanel, Flat(p.results), p.escBuf, t, nTyped)
  <2>1. Arranged(sent, toPanel, <<>>, escBuf, a \o t, nTyped)
    BY <1>3, <1>5, Zenon
  <2> QED BY <1>5, <1>6, <2>1, ReadKeepsPlaces
<1>8. /\ p.results \in Seq(Choice)
      /\ Len(Flat(p.results)) + Len(p.escBuf) + 3 * Toggles(p.results) = Len(escBuf) + Len(a)
  BY <1>4, <1>5, <1>6, Together DEF Routes
<1>9. /\ Len(sent) \in Nat /\ Len(toPanel) \in Nat /\ Len(escBuf) \in Nat
      /\ Len(a) \in Nat /\ Len(t) \in Nat /\ Len(Flat(p.results)) \in Nat
      /\ Len(p.escBuf) \in Nat /\ Toggles(p.results) \in Nat
  BY <1>3, <1>5, <1>7, <1>8, ArrangedType, NumberOf, TogglesType
<1>10. Len(sent) + Len(toPanel) + Len(Flat(p.results)) + Len(p.escBuf) + Len(t)
         + 3 * (toggles + Toggles(p.results)) = nTyped
  <2>1. /\ Len(sent) + Len(toPanel) + 0 + Len(escBuf) + (Len(a) + Len(t)) + 3 * toggles = nTyped
        /\ toggles \in Nat /\ nTyped \in Nat
    BY <1>3, <1>5, Zenon
  <2> DEFINE x == Len(sent)
             y == Len(toPanel)
             e == Len(escBuf)
             b == Len(a)
             r == Len(t)
             f == Len(Flat(p.results))
             k == Len(p.escBuf)
             h == Toggles(p.results)
  <2>2. /\ x \in Nat /\ y \in Nat /\ e \in Nat /\ b \in Nat /\ r \in Nat
        /\ f \in Nat /\ k \in Nat /\ h \in Nat
    BY <1>9, Zenon
  <2>3. x + y + 0 + e + (b + r) + 3 * toggles = nTyped
    BY <2>1, Zenon
  <2>4. f + k + 3 * h = e + b
    BY <1>8, Zenon
  <2> HIDE DEF x, y, e, b, r, f, k, h
  <2>5. x + y + f + k + r + 3 * (toggles + h) = nTyped
    BY <2>1, <2>2, <2>3, <2>4
  <2> QED BY <2>5, Zenon DEF x, y, f, k, r, h
<1>11. toggles + Toggles(p.results) \in Nat
  BY <1>3, <1>9
<1> QED BY <1>2, <1>3, <1>7, <1>8, <1>10, <1>11 DEF Routing

(* What is kept goes to a side when all else has gone.                     *)
LEMMA KeptGoes ==
    ASSUME NEW x, NEW y, NEW e, NEW n, Arranged(x, y, <<>>, e, <<>>, n)
    PROVE  Arranged(x \o e, y, <<>>, <<>>, <<>>, n) /\ Arranged(x, y \o e, <<>>, <<>>, <<>>, n)
<1>1. e \in Bytes /\ e \o <<>> = e /\ <<>> \in Bytes
  BY NoNumbers, ConcatEmptySeq DEF Arranged, Bytes
<1>2. Numbers(<<>>) = {} /\ Ordered(<<>>)
  BY NoNumbers
<1>3. Arranged(x, y, e, <<>>, <<>>, n)
  BY <1>1, <1>2 DEF Arranged, Under
<1>4. Arranged(x, y, e \o <<>>, <<>>, <<>>, n)
  BY <1>1, <1>3, Zenon
<1>5. Arranged(y, x, e \o <<>>, <<>>, <<>>, n)
  BY <1>4, ArrangedSwaps
<1>6. Arranged(x \o e, y, <<>>, <<>>, <<>>, n)
  BY <1>1, <1>4, FirstGoes
<1>7. Arranged(y \o e, x, <<>>, <<>>, <<>>, n)
  BY <1>1, <1>5, FirstGoes
<1> QED BY <1>6, <1>7, ArrangedSwaps

LEMMA FlushRoutes == ASSUME Routing, FocusKnown, FlushAfterTimeout PROVE Routing'
<1>1. /\ loop = "reading" /\ results = <<>> /\ tty = <<>>
      /\ UNCHANGED <<nTyped, tty, results, toggles>>
  BY DEF FlushAfterTimeout, Routing, keyboard
<1>2. CASE ~Kept
  <2>1. UNCHANGED <<escBuf, sent, toPanel, loop>>
    BY <1>2 DEF FlushAfterTimeout
  <2> QED BY <1>1, <2>1, RoutingStays
<1>3. CASE Kept
  <2>1. /\ escBuf' = <<>> /\ loop' \in {"flushing", "reading"}
        /\ \/ sent' = sent \o escBuf /\ toPanel' = toPanel
           \/ toPanel' = toPanel \o escBuf /\ sent' = sent
    BY <1>1, <1>3 DEF FlushAfterTimeout
  <2>2. Flat(<<>>) = <<>> /\ Len(<<>>) = 0
    BY FlatNone, NoNumbers
  <2>3. Arranged(sent, toPanel, <<>>, escBuf, <<>>, nTyped)
    BY <1>1, <2>2 DEF Routing
  <2>4. /\ Arranged(sent \o escBuf, toPanel, <<>>, <<>>, <<>>, nTyped)
        /\ Arranged(sent, toPanel \o escBuf, <<>>, <<>>, <<>>, nTyped)
    BY <2>3, KeptGoes
  <2>5. Arranged(sent', toPanel', <<>>, <<>>, <<>>, nTyped)
    BY <2>1, <2>4
  <2>6. /\ Len(sent) \in Nat /\ Len(toPanel) \in Nat /\ Len(escBuf) \in Nat
        /\ nTyped \in Nat /\ toggles \in Nat
    BY <2>3, ArrangedType DEF Routing
  <2>7. /\ Len(sent \o escBuf) = Len(sent) + Len(escBuf)
        /\ Len(toPanel \o escBuf) = Len(toPanel) + Len(escBuf)
    <3>1. sent \in Bytes /\ toPanel \in Bytes /\ escBuf \in Bytes
      BY <2>3 DEF Arranged
    <3> QED BY <3>1, Together
  <2>8. Len(sent) + Len(toPanel) + 0 + Len(escBuf) + 0 + 3 * toggles = nTyped
    BY <1>1, <2>2 DEF Routing
  <2>9. Len(sent') + Len(toPanel') = Len(sent) + Len(toPanel) + Len(escBuf)
        /\ Len(sent') \in Nat /\ Len(toPanel') \in Nat
    <3>1. CASE sent' = sent \o escBuf /\ toPanel' = toPanel
      BY <3>1, <2>6, <2>7
    <3>2. CASE toPanel' = toPanel \o escBuf /\ sent' = sent
      BY <3>2, <2>6, <2>7
    <3> QED BY <2>1, <3>1, <3>2
  <2>10. Len(sent') + Len(toPanel') + 0 + 0 + 0 + 3 * toggles = nTyped
    BY <2>6, <2>8, <2>9
  <2> QED BY <1>1, <2>1, <2>2, <2>5, <2>6, <2>10, EmptySeq DEF Routing
<1> QED BY <1>2, <1>3

LEMMA ChatKeyRoutes == ASSUME Routing, HandleChatKey PROVE Routing'
<1> DEFINE r == Head(results)
           b == Head(r.bytes)
           d == Result("chat", Tail(r.bytes))
           rest == Tail(results)
<1>1. /\ results # <<>> /\ r.bytes # <<>> /\ toPanel' = Append(toPanel, b)
      /\ results' = <<d>> \o rest /\ loop' \in {"handling", "sending"}
      /\ UNCHANGED <<nTyped, tty, escBuf, sent, toggles>>
  BY DEF HandleChatKey, keyboard
<1>2. /\ r \in Choice /\ r.bytes \in Bytes /\ rest \in Seq(Choice)
      /\ Flat(results) = r.bytes \o Flat(rest) /\ Flat(rest) \in Bytes
  BY <1>1, FirstDecision, FlatType DEF Routing
<1>3. r.bytes = <<b>> \o Tail(r.bytes) /\ b \in Byte /\ Tail(r.bytes) \in Bytes
  <2> HIDE DEF r
  <2> QED BY <1>1, <1>2, HeadAndTail DEF Bytes
<1>4. d \in Choice /\ d.bytes = Tail(r.bytes)
  <2>1. d = [target |-> "chat", bytes |-> Tail(r.bytes)]
    BY DEF Result
  <2> HIDE DEF d, r
  <2> QED BY <1>3, <2>1 DEF Choice
<1>5. /\ results' \in Seq(Choice) /\ Flat(results') = Tail(r.bytes) \o Flat(rest)
  <2> HIDE DEF d, r, rest
  <2>1. <<d>> \o rest \in Seq(Choice) /\ Flat(<<d>> \o rest) = d.bytes \o Flat(rest)
    BY <1>2, <1>4, FlatCons
  <2> QED BY <1>1, <1>4, <2>1, Zenon
<1> HIDE DEF r, b, d, rest
<1>6. <<b>> \in Bytes
  BY <1>3 DEF Bytes
<1>7. Flat(results) = <<b>> \o Flat(results')
  <2>1. (<<b>> \o Tail(r.bytes)) \o Flat(rest) = <<b>> \o (Tail(r.bytes) \o Flat(rest))
    BY <1>2, <1>3, <1>6, BytesAssociative, Zenon
  <2> QED BY <1>2, <1>3, <1>5, <2>1, Zenon
<1>8. toPanel' = toPanel \o <<b>>
  <2>1. toPanel \in Seq(Byte)
    BY DEF Routing, Arranged, Bytes
  <2> QED BY <1>1, <1>3, <2>1, AppendIsConcat
<1> QED BY <1>1, <1>5, <1>6, <1>7, <1>8, GoesToPanel

LEMMA TypingRoutes == ASSUME Routing, NEW k \in Key, TypeKey(k) PROVE Routing'
<1> DEFINE typed == [i \in 1..Len(k) |-> [c |-> k[i], n |-> nTyped + i]]
<1>1. /\ k \in Seq(STRING) /\ nTyped' = nTyped + Len(k) /\ tty' = tty \o typed
      /\ UNCHANGED <<loop, results, escBuf, sent, toPanel, toggles>>
  BY KeyAssumption DEF TypeKey, router, history
<1>2. /\ nTyped \in Nat /\ toggles \in Nat /\ results \in Seq(Choice)
      /\ Arranged(sent, toPanel, Flat(results), escBuf, tty, nTyped)
      /\ Len(sent) + Len(toPanel) + Len(Flat(results)) + Len(escBuf) + Len(tty) + 3 * toggles
           = nTyped
  BY DEF Routing
<1>3. /\ Arranged(sent, toPanel, Flat(results), escBuf, tty \o typed, nTyped + Len(k))
      /\ Len(tty \o typed) = Len(tty) + Len(k)
  BY <1>1, <1>2, TypedComesLast
<1> HIDE DEF typed
<1>4. Len(k) \in Nat
  BY <1>1, LenProperties
<1>5. nTyped' \in Nat
  BY <1>1, <1>2, <1>4
<1>6. Len(sent) + Len(toPanel) + Len(Flat(results)) + Len(escBuf) + (Len(tty) + Len(k))
        + 3 * toggles = nTyped + Len(k)
  <2>1. /\ Len(sent) \in Nat /\ Len(toPanel) \in Nat /\ Len(Flat(results)) \in Nat
        /\ Len(escBuf) \in Nat /\ Len(tty) \in Nat
    BY <1>2, ArrangedType
  <2> QED BY <1>2, <1>4, <2>1
<1>7. Flat(results') = Flat(results)
  BY <1>1
<1>8. Arranged(sent', toPanel', Flat(results'), escBuf', tty', nTyped')
  BY <1>1, <1>3, <1>7, Zenon
<1>9. Len(sent') + Len(toPanel') + Len(Flat(results')) + Len(escBuf') + Len(tty')
        + 3 * toggles' = nTyped'
  BY <1>1, <1>3, <1>6, <1>7, Zenon
<1>10. results' \in Seq(Choice) /\ toggles' \in Nat
       /\ (loop' \notin {"handling", "sending"} => results' = <<>>)
  BY <1>1, <1>2 DEF Routing
<1> QED BY <1>5, <1>8, <1>9, <1>10, Zenon DEF Routing

LEMMA InitRouting == Init => Routing
<1> SUFFICES ASSUME Init PROVE Routing
  OBVIOUS
<1>1. /\ sent = <<>> /\ toPanel = <<>> /\ results = <<>> /\ escBuf = <<>> /\ tty = <<>>
      /\ nTyped = 0 /\ toggles = 0
  BY DEF Init
<1>2. Flat(results) = <<>> /\ results \in Seq(Choice)
  BY <1>1, FlatNone, EmptySeq
<1>3. Arranged(<<>>, <<>>, <<>>, <<>>, <<>>, 0)
  BY NoNumbers DEF Arranged, Under
<1>4. Arranged(sent, toPanel, Flat(results), escBuf, tty, nTyped)
  BY <1>1, <1>2, <1>3, Zenon
<1>5. /\ Len(sent) = 0 /\ Len(toPanel) = 0 /\ Len(Flat(results)) = 0 /\ Len(escBuf) = 0
      /\ Len(tty) = 0
  BY <1>1, <1>2, NoNumbers, Zenon
<1>6. Len(sent) + Len(toPanel) + Len(Flat(results)) + Len(escBuf) + Len(tty) + 3 * toggles
        = nTyped
  BY <1>1, <1>5
<1> QED BY <1>1, <1>2, <1>4, <1>6 DEF Routing

LEMMA RoutingStep == ASSUME Routing, FocusKnown, [Next]_vars PROVE Routing'
<1> USE DEF keyboard, router, history
<1>1. CASE UNCHANGED vars
  BY <1>1, RoutingStays DEF vars, Routing
<1>2. CASE Callback \/ Resize
  <2>1. UNCHANGED <<sent, toPanel, results, escBuf, tty, nTyped, toggles, loop>>
    BY <1>2 DEF Callback, OnOutput, OnChat, HandleResize, Resize
  <2> QED BY <2>1, RoutingStays DEF Routing
<1>3. CASE HandshakeEnds
  BY <1>3, RoutingStays DEF HandshakeEnds, Routing
<1>4. CASE Read
  BY <1>4, ReadRoutes
<1>5. CASE FlushAfterTimeout
  BY <1>5, FlushRoutes
<1>6. CASE EndOfTurn
  <2>1. UNCHANGED <<sent, toPanel, results, escBuf, tty, nTyped, toggles>> /\ results = <<>>
    BY <1>6 DEF EndOfTurn, Routing
  <2> QED BY <2>1, RoutingStays
<1>7. CASE HandleToggle
  <2>1. /\ results # <<>> /\ Head(results).target = "toggle" /\ results' = Tail(results)
        /\ loop' = "handling"
        /\ UNCHANGED <<sent, toPanel, escBuf, tty, nTyped, toggles>>
    BY <1>7 DEF HandleToggle
  <2>2. Head(results).bytes = <<>>
    <3>1. Head(results) \in Choice
      BY <2>1, FirstDecision DEF Routing
    <3> QED BY <2>1, <3>1 DEF Choice
  <2> QED BY <2>1, <2>2, DecisionEnds
<1>8. CASE HandleTerminal
  <2>1. /\ results # <<>> /\ sent' = sent \o Head(results).bytes
        /\ results' = Tail(results) /\ loop' = "sending"
        /\ UNCHANGED <<toPanel, escBuf, tty, nTyped, toggles>>
    BY <1>8 DEF HandleTerminal
  <2>2. /\ Head(results).bytes \in Bytes /\ results' \in Seq(Choice)
        /\ Flat(results) = Head(results).bytes \o Flat(results')
    <3>1. /\ Head(results).bytes \in Bytes /\ Tail(results) \in Seq(Choice)
          /\ Flat(results) = Head(results).bytes \o Flat(Tail(results))
      BY <2>1, FirstDecision DEF Routing
    <3> QED BY <2>1, <3>1, Zenon
  <2> QED BY <2>1, <2>2, GoesToHost
<1>9. CASE HandleChatKey
  BY <1>9, ChatKeyRoutes
<1>10. CASE ChatChunkEnds
  <2>1. /\ results # <<>> /\ Head(results).bytes = <<>> /\ results' = Tail(results)
        /\ loop' = "handling"
        /\ UNCHANGED <<sent, toPanel, escBuf, tty, nTyped, toggles>>
    BY <1>10 DEF ChatChunkEnds
  <2> QED BY <2>1, DecisionEnds
<1>11. CASE Resume
  BY <1>11, RoutingStays DEF Resume
<1>12. CASE \E k \in Key : TypeKey(k)
  BY <1>12, TypingRoutes
<1> QED BY <1>1, <1>2, <1>3, <1>4, <1>5, <1>6, <1>7, <1>8, <1>9, <1>10, <1>11, <1>12
        DEF Next, Turn

LEMMA RoutingIsRouted == ASSUME Routing PROVE InputIsRouted
<1> DEFINE w == Flat(results)
<1>1. Waiting = w
  BY DEF Waiting, Flat
<1>2. /\ Arranged(sent, toPanel, w, escBuf, tty, nTyped)
      /\ Len(sent) + Len(toPanel) + Len(w) + Len(escBuf) + Len(tty) + 3 * toggles = nTyped
  BY DEF Routing
<1> HIDE DEF w
<1>3. /\ sent \in Bytes /\ toPanel \in Bytes /\ w \in Bytes /\ escBuf \in Bytes /\ tty \in Bytes
      /\ Ordered(sent) /\ Ordered(toPanel) /\ Ordered(w) /\ Ordered(escBuf) /\ Ordered(tty)
      /\ Numbers(sent) \cap Numbers(toPanel) = {}
      /\ Under(Numbers(w), Numbers(escBuf) \cup Numbers(tty))
      /\ Under(Numbers(escBuf), Numbers(tty))
  BY <1>2 DEF Arranged
<1>4. ASSUME NEW s \in Bytes, Ordered(s) PROVE InOrder(s)
  <2>1. Len(s) \in Nat
    BY NumberOf
  <2>2. \A i \in 1..Len(s) - 1 : i \in 1..Len(s) /\ i + 1 \in 1..Len(s) /\ i < i + 1
    BY <2>1
  <2> QED BY <1>4, <2>2 DEF Ordered, InOrder
<1>5. w \o escBuf \in Bytes /\ Ordered(w \o escBuf)
      /\ Numbers(w \o escBuf) = Numbers(w) \cup Numbers(escBuf)
  <2>1. Under(Numbers(w), Numbers(escBuf))
    BY <1>3 DEF Under
  <2> QED BY <1>3, <2>1, Together
<1>6. (w \o escBuf) \o tty \in Bytes /\ Ordered((w \o escBuf) \o tty)
  <2>1. Under(Numbers(w \o escBuf), Numbers(tty))
    BY <1>3, <1>5 DEF Under
  <2> QED BY <1>3, <1>5, <2>1, Together
<1>7. InOrder(sent) /\ InOrder(toPanel) /\ InOrder((w \o escBuf) \o tty)
  BY <1>3, <1>4, <1>6
<1> QED BY <1>1, <1>2, <1>3, <1>7, Zenon DEF InputIsRouted

(* However the reads cut the keys and whatever has the keyboard meanwhile, *)
(* no byte typed is lost, doubled or overtaken by a later one on its side  *)
(* (input_router.py:43-125, main.py:512-536).                              *)
THEOREM KeysAreRouted == Spec => []InputIsRouted
<1>1. RInv => FocusKnown
  BY DEF RInv
<1>2. Init => RInv /\ Routing
  BY InitRInv, InitRouting
<1>3. (RInv /\ Routing) /\ [Next]_vars => (RInv /\ Routing)'
  BY <1>1, RenderStep, RoutingStep
<1> QED BY <1>2, <1>3, RoutingIsRouted, PTL DEF Spec
-----------------------------------------------------------------------------
(* What decisions come to, however the bytes are divided among them.       *)

Side == {"terminal", "chat"}
Label == Side \cup {"either", "toggle"}
Name == [Side -> Label]
Mark == Label \X Nat
MarksAt(s, w) == [j \in 1..Len(s) |-> <<w, s[j].n>>]
MarksOf(name) == [d \in Choice |-> IF d.target = "toggle" THEN <<<<"toggle", 0>>>>
                                    ELSE MarksAt(d.bytes, name[d.target])]

LEMMA Names == BySide \in Name /\ OnEitherSide \in Name
  BY DEF BySide, OnEitherSide, Name, Label, Side

LEMMA MarksAtType ==
    ASSUME NEW s \in Bytes, NEW w \in Label
    PROVE  MarksAt(s, w) \in Seq(Mark) /\ Len(MarksAt(s, w)) = Len(s)
<1>1. Len(s) \in Nat /\ \A j \in 1..Len(s) : <<w, s[j].n>> \in Mark
  BY NumberOf DEF Mark
<1>2. MarksAt(s, w) \in Seq(Mark)
  BY <1>1, IsASeq DEF MarksAt
<1>3. DOMAIN MarksAt(s, w) = 1..Len(s)
  BY DEF MarksAt
<1> QED BY <1>1, <1>2, <1>3, LenProperties

LEMMA MarksAtJoined ==
    ASSUME NEW s \in Bytes, NEW t \in Bytes, NEW w \in Label
    PROVE  MarksAt(s \o t, w) = MarksAt(s, w) \o MarksAt(t, w)
<1> DEFINE a == MarksAt(s, w)
           b == MarksAt(t, w)
           c == MarksAt(s \o t, w)
           u == s \o t
           m == Len(s)
           n == Len(t)
<1>1. m \in Nat /\ n \in Nat /\ u \in Bytes /\ Len(u) = m + n
  BY NumberOf, Together
<1>2. \A i \in 1..m + n : u[i] = IF i <= m THEN s[i] ELSE t[i - m]
  BY ConcatProperties DEF Bytes
<1>3. a \in Seq(Mark) /\ Len(a) = m /\ b \in Seq(Mark) /\ Len(b) = n
      /\ c \in Seq(Mark) /\ Len(c) = m + n
  BY <1>1, MarksAtType
<1>4. a \o b \in Seq(Mark) /\ Len(a \o b) = m + n
      /\ \A i \in 1..m + n : (a \o b)[i] = IF i <= m THEN a[i] ELSE b[i - m]
  <2>1. a \in Seq(Mark) /\ b \in Seq(Mark) /\ Len(a) = m /\ Len(b) = n
    BY <1>3
  <2> HIDE DEF a, b, c, u, m, n
  <2>2. /\ a \o b \in Seq(Mark) /\ Len(a \o b) = Len(a) + Len(b)
        /\ \A i \in 1..Len(a) + Len(b) :
              (a \o b)[i] = IF i <= Len(a) THEN a[i] ELSE b[i - Len(a)]
    BY <2>1, ConcatProperties, Zenon
  <2> QED BY <2>1, <2>2, Zenon
<1>5. /\ \A i \in 1..m : a[i] = <<w, s[i].n>>
      /\ \A i \in 1..n : b[i] = <<w, t[i].n>>
      /\ \A i \in 1..m + n : c[i] = <<w, u[i].n>>
  BY <1>1 DEF MarksAt
<1> HIDE DEF a, b, c, u, m, n
<1>6. ASSUME NEW i \in 1..m + n PROVE c[i] = (a \o b)[i]
  <2>1. i <= m => i \in 1..m
    BY <1>1
  <2>2. ~(i <= m) => i - m \in 1..n
    BY <1>1
  <2> QED BY <1>2, <1>4, <1>5, <2>1, <2>2
<1>7. c = a \o b
  <2> DEFINE ab == a \o b
  <2>1. ab \in Seq(Mark) /\ Len(ab) = m + n /\ \A i \in 1..m + n : c[i] = ab[i]
    BY <1>4, <1>6
  <2> HIDE DEF ab
  <2>2. c = ab
    BY <1>3, <2>1, SeqEqual
  <2> QED BY <2>2 DEF ab
<1> QED BY <1>7 DEF a, b, c, u

LEMMA MarksOfType == ASSUME NEW name \in Name PROVE Lays(MarksOf(name), Choice, Seq(Mark))
<1>1. <<<<"toggle", 0>>>> \in Seq(Mark)
  <2>1. <<"toggle", 0>> \in Mark
    BY DEF Mark, Label
  <2> QED BY <2>1
<1>2. ASSUME NEW d \in Choice, d.target # "toggle"
      PROVE  MarksAt(d.bytes, name[d.target]) \in Seq(Mark)
  <2>1. d.bytes \in Bytes /\ d.target \in Side
    BY <1>2 DEF Choice, Side
  <2>2. name[d.target] \in Label
    BY <2>1 DEF Name
  <2> QED BY <2>1, <2>2, MarksAtType
<1> QED BY <1>1, <1>2, SequencesJoin DEF MarksOf, Lays

LEMMA MergedIsLaid ==
    ASSUME NEW rs \in Seq(Choice), NEW name \in Name
    PROVE  Merged(rs, name) = Laid(MarksOf(name), rs)
<1>1. \A i \in 1..Len(rs) : rs[i] \in Choice
  BY ElementOfSeq
<1>2. [i \in 1..Len(rs) |-> IF rs[i].target = "toggle" THEN <<<<"toggle", 0>>>>
                            ELSE [j \in 1..Len(rs[i].bytes) |->
                                      <<name[rs[i].target], rs[i].bytes[j].n>>]]
        = [i \in 1..Len(rs) |-> MarksOf(name)[rs[i]]]
  BY <1>1 DEF MarksOf, MarksAt
<1> QED BY <1>2 DEF Merged, Laid

LEMMA MergedCons ==
    ASSUME NEW name \in Name
    PROVE
    /\ Merged(<<>>, name) = <<>>
    /\ \A rs \in Seq(Choice) : Merged(rs, name) \in Seq(Mark)
    /\ \A d \in Choice, rs \in Seq(Choice) :
          /\ <<d>> \o rs \in Seq(Choice)
          /\ Merged(<<d>> \o rs, name) = MarksOf(name)[d] \o Merged(rs, name)
<1>1. Merged(<<>>, name) = <<>>
  BY MergedIsLaid, LaidNone, EmptySeq
<1>2. ASSUME NEW rs \in Seq(Choice) PROVE Merged(rs, name) \in Seq(Mark)
  BY MergedIsLaid, MarksOfType, LaidType, Zenon
<1>3. ASSUME NEW d \in Choice, NEW rs \in Seq(Choice)
      PROVE  /\ <<d>> \o rs \in Seq(Choice)
             /\ Merged(<<d>> \o rs, name) = MarksOf(name)[d] \o Merged(rs, name)
  <2>1. /\ Cons(d, rs) \in Seq(Choice)
        /\ Laid(MarksOf(name), Cons(d, rs)) = MarksOf(name)[d] \o Laid(MarksOf(name), rs)
    BY MarksOfType, LaidCons
  <2>2. /\ Merged(Cons(d, rs), name) = Laid(MarksOf(name), Cons(d, rs))
        /\ Merged(rs, name) = Laid(MarksOf(name), rs)
    BY <2>1, MergedIsLaid, Zenon
  <2> QED BY <2>1, <2>2, Zenon DEF Cons
<1> QED BY <1>1, <1>2, <1>3

LEMMA MergedFirst ==
    ASSUME NEW name \in Name, NEW d \in Choice, NEW rs \in Seq(Choice)
    PROVE  /\ Cons(d, rs) \in Seq(Choice) /\ Merged(rs, name) \in Seq(Mark)
           /\ Merged(Cons(d, rs), name) = MarksOf(name)[d] \o Merged(rs, name)
  BY MergedCons, Zenon DEF Cons
-----------------------------------------------------------------------------
(* Tokens of bytes that are laid end to end.                               *)

LEMMA ClassJoined ==
    ASSUME NEW t \in Bytes, NEW u \in Bytes
    PROVE  /\ \A j \in 1..Len(t) : Class(t \o u, j) = Class(t, j)
           /\ \A j \in Nat \ {0} : Class(t \o u, Len(t) + j) = Class(u, j)
<1> DEFINE n == Len(t)
           m == Len(u)
           c == t \o u
<1>1. n \in Nat /\ m \in Nat /\ Len(c) = n + m
  BY NumberOf, Together
<1>2. \A i \in 1..n + m : c[i] = IF i <= n THEN t[i] ELSE u[i - n]
  BY ConcatProperties DEF Bytes
<1>3. \A j \in 1..n : j \in 1..n + m /\ j <= n
  BY <1>1
<1>4. \A j \in Nat \ {0} : (n + j \in 1..n + m <=> j \in 1..m) /\ ~(n + j <= n) /\ (n + j) - n = j
  BY <1>1
<1> HIDE DEF n, m, c
<1>5. ASSUME NEW j \in 1..n PROVE Class(c, j) = Class(t, j)
  BY <1>1, <1>2, <1>3 DEF Class, n
<1>6. ASSUME NEW j \in Nat \ {0} PROVE Class(c, n + j) = Class(u, j)
  BY <1>1, <1>2, <1>4 DEF Class, m
<1> QED BY <1>5, <1>6 DEF c, n

LEMMA ClassInside ==
    ASSUME NEW buf, NEW j, Class(buf, j) # "none"
    PROVE  j \in 1..Len(buf)
  BY DEF Class

LEMMA FirstInNone == ASSUME NEW o PROVE FirstIn({}, o) = o
  BY DEF FirstIn

LEMMA FirstInLeast ==
    ASSUME NEW S \in SUBSET Nat, S # {}, NEW o
    PROVE  FirstIn(S, o) \in S /\ \A x \in S : FirstIn(S, o) <= x
<1>1. \E x \in S : \A y \in S : x <= y
  BY LeastExists
<1>2. Min(S) \in S /\ \A x \in S : Min(S) <= x
  BY <1>1 DEF Min
<1> QED BY <1>2 DEF FirstIn

LEMMA FirstInIs ==
    ASSUME NEW S \in SUBSET Nat, NEW x \in S, \A y \in S : x <= y, NEW o
    PROVE  FirstIn(S, o) = x
<1>1. FirstIn(S, o) \in S /\ FirstIn(S, o) <= x
  BY FirstInLeast
<1>2. x <= FirstIn(S, o) /\ x \in Nat /\ FirstIn(S, o) \in Nat
  BY <1>1
<1> QED BY <1>1, <1>2

Shifted(S, R, n) ==
    /\ S \in SUBSET Nat /\ R \in SUBSET Nat /\ n \in Nat
    /\ \A x \in S : n + x \in R
    /\ \A y \in R : \E x \in S : y = n + x

LEMMA FirstInShifts ==
    ASSUME NEW S, NEW R, NEW n, Shifted(S, R, n), NEW o \in Nat
    PROVE  /\ FirstIn(R, n + o) = n + FirstIn(S, o)
           /\ S = {} <=> R = {}
           /\ S # {} => FirstIn(R, o) = n + FirstIn(S, o)
<1>0. /\ S \in SUBSET Nat /\ R \in SUBSET Nat /\ n \in Nat
      /\ (\A x \in S : n + x \in R) /\ (\A y \in R : \E x \in S : y = n + x)
  BY DEF Shifted
<1>1. S = {} <=> R = {}
  BY <1>0
<1>2. CASE S = {}
  BY <1>0, <1>1, <1>2, FirstInNone
<1>3. CASE S # {}
  <2>1. PICK x \in S : FirstIn(S, o) = x /\ \A y \in S : x <= y
    BY <1>0, <1>3, FirstInLeast
  <2>2. n + x \in R
    BY <1>0
  <2>3. ASSUME NEW y \in R PROVE n + x <= y
    <3>1. PICK z \in S : y = n + z
      BY <1>0
    <3>2. x <= z /\ x \in Nat /\ z \in Nat
      BY <1>0, <2>1
    <3> QED BY <1>0, <3>1, <3>2
  <2>4. FirstIn(R, n + o) = n + x /\ FirstIn(R, o) = n + x
    BY <1>0, <2>2, <2>3, FirstInIs
  <2> QED BY <1>1, <1>3, <2>1, <2>4
<1> QED BY <1>2, <1>3

(* The bytes that come before a token do not change it.                    *)
LEMMA ShiftedEnd ==
    ASSUME NEW t \in Bytes, NEW u \in Bytes, NEW i \in 1..Len(u)
    PROVE  TokenEnd(t \o u, Len(t) + i)
             = IF TokenEnd(u, i) = 0 THEN 0 ELSE Len(t) + TokenEnd(u, i)
<1> DEFINE n == Len(t)
           m == Len(u)
           c == t \o u
<1>1. n \in Nat /\ m \in Nat /\ i \in Nat \ {0} /\ i <= m /\ Len(c) = n + m
  BY NumberOf, Together
<1>2. \A j \in Nat \ {0} : Class(c, n + j) = Class(u, j)
  BY ClassJoined
<1>3. Len(u) = m
  OBVIOUS
<1> HIDE DEF n, m, c
<1>4. /\ Class(c, n + i) = Class(u, i)
      /\ Class(c, (n + i) + 1) = Class(u, i + 1)
  <2>1. i + 1 \in Nat \ {0} /\ (n + i) + 1 = n + (i + 1)
    BY <1>1
  <2> QED BY <1>1, <1>2, <2>1
<1>5. PlainEnd(c, n + i) = n + PlainEnd(u, i) /\ PlainEnd(u, i) # 0
  <2> DEFINE S == {j \in i..m : Class(u, j + 1) = "esc"}
             R == {j \in n + i..n + m : Class(c, j + 1) = "esc"}
  <2>1. ASSUME NEW x \in S PROVE n + x \in R
    <3>1. x \in i..m /\ Class(u, x + 1) = "esc"
      OBVIOUS
    <3>2. n + x \in n + i..n + m /\ x + 1 \in Nat \ {0} /\ (n + x) + 1 = n + (x + 1)
      BY <1>1, <3>1
    <3> QED BY <1>2, <3>1, <3>2
  <2>2. ASSUME NEW y \in R PROVE \E x \in S : y = n + x
    <3>1. y \in n + i..n + m /\ Class(c, y + 1) = "esc"
      OBVIOUS
    <3>2. /\ y - n \in i..m /\ y = n + (y - n)
          /\ (y - n) + 1 \in Nat \ {0} /\ n + ((y - n) + 1) = y + 1
      BY <1>1, <3>1
    <3>3. Class(u, (y - n) + 1) = "esc"
      BY <1>2, <3>1, <3>2
    <3> QED BY <3>2, <3>3
  <2>3. S \in SUBSET Nat /\ R \in SUBSET Nat /\ 0 \notin S
    BY <1>1
  <2>4. PlainEnd(u, i) = FirstIn(S, m) /\ PlainEnd(c, n + i) = FirstIn(R, n + m)
    BY <1>1, <1>3 DEF PlainEnd
  <2> HIDE DEF S, R
  <2>5. FirstIn(R, n + m) = n + FirstIn(S, m)
    <3>1. Shifted(S, R, n)
      BY <1>1, <2>1, <2>2, <2>3 DEF Shifted
    <3> QED BY <1>1, <3>1, FirstInShifts
  <2>6. FirstIn(S, m) \in S \cup {m}
    BY <2>3, FirstInType
  <2> QED BY <1>1, <2>3, <2>4, <2>5, <2>6
<1>6. CsiEnd(c, n + i) = IF CsiEnd(u, i) = 0 THEN 0 ELSE n + CsiEnd(u, i)
  <2> DEFINE S == {j \in i + 2..m : Class(u, j) # "par"}
             R == {j \in (n + i) + 2..n + m : Class(c, j) # "par"}
  <2>1. ASSUME NEW x \in S PROVE n + x \in R
    <3>1. x \in i + 2..m /\ Class(u, x) # "par"
      OBVIOUS
    <3>2. n + x \in (n + i) + 2..n + m /\ x \in Nat \ {0}
      BY <1>1, <3>1
    <3> QED BY <1>2, <3>1, <3>2
  <2>2. ASSUME NEW y \in R PROVE \E x \in S : y = n + x
    <3>1. y \in (n + i) + 2..n + m /\ Class(c, y) # "par"
      OBVIOUS
    <3>2. y - n \in i + 2..m /\ y = n + (y - n) /\ y - n \in Nat \ {0}
      BY <1>1, <3>1
    <3>3. Class(u, y - n) # "par"
      BY <1>2, <3>1, <3>2
    <3> QED BY <3>2, <3>3
  <2>3. S \in SUBSET Nat /\ R \in SUBSET Nat /\ 0 \notin S
    BY <1>1
  <2>4. CsiEnd(u, i) = FirstIn(S, 0) /\ CsiEnd(c, n + i) = FirstIn(R, 0)
    BY <1>1, <1>3 DEF CsiEnd
  <2> HIDE DEF S, R
  <2>5. (S = {} <=> R = {}) /\ (S # {} => FirstIn(R, 0) = n + FirstIn(S, 0))
    <3>1. Shifted(S, R, n)
      BY <1>1, <2>1, <2>2, <2>3 DEF Shifted
    <3> QED BY <1>1, <3>1, FirstInShifts
  <2>6. CASE S = {}
    BY <2>4, <2>5, <2>6, FirstInNone
  <2>7. CASE S # {}
    <3>1. FirstIn(S, 0) \in S
      BY <2>3, <2>7, FirstInLeast
    <3> QED BY <2>3, <2>4, <2>5, <2>7, <3>1
  <2> QED BY <2>6, <2>7
<1>7. (n + i) + 2 <= n + m <=> i + 2 <= m
  BY <1>1
<1>8. n + (i + 1) = (n + i) + 1 /\ n + (i + 2) = (n + i) + 2 /\ i + 1 # 0 /\ i + 2 # 0
  BY <1>1
<1>9. TokenEnd(c, n + i) = IF TokenEnd(u, i) = 0 THEN 0 ELSE n + TokenEnd(u, i)
  <2>1. CASE Class(u, i) # "esc"
    BY <1>4, <1>5, <2>1 DEF TokenEnd
  <2>2. CASE Class(u, i) = "esc" /\ Class(u, i + 1) = "none"
    BY <1>4, <2>2 DEF TokenEnd, EscAwaitsMore
  <2>3. CASE Class(u, i) = "esc" /\ Class(u, i + 1) = "["
    BY <1>4, <1>6, <2>3 DEF TokenEnd
  <2>4. CASE Class(u, i) = "esc" /\ Class(u, i + 1) = "O"
    BY <1>1, <1>3, <1>4, <1>7, <1>8, <2>4 DEF TokenEnd
  <2>5. CASE Class(u, i) = "esc" /\ Class(u, i + 1) \notin {"none", "[", "O"}
    BY <1>4, <1>8, <2>5 DEF TokenEnd
  <2> QED BY <2>1, <2>2, <2>3, <2>4, <2>5
<1> QED BY <1>9 DEF n, c

LEMMA ShiftedPart ==
    ASSUME NEW t \in Bytes, NEW u \in Bytes, NEW i \in 1..Len(u), NEW e \in 1..Len(u)
    PROVE  SubSeq(t \o u, Len(t) + i, Len(t) + e) = SubSeq(u, i, e)
<1>1. Len(t) \in Nat /\ Len(u) \in Nat
  BY NumberOf
<1>2. /\ Len(t) + i \in Len(t) + 1..Len(t) + Len(u) /\ (Len(t) + i) - Len(t) = i
      /\ Len(t) + e \in Len(t) + 1..Len(t) + Len(u) /\ (Len(t) + e) - Len(t) = e
  BY <1>1
<1>3. t \in Seq(Byte) /\ u \in Seq(Byte)
  BY DEF Bytes
<1>4. SubSeq(t \o u, Len(t) + i, Len(t) + e)
        = SubSeq(u, (Len(t) + i) - Len(t), (Len(t) + e) - Len(t))
  BY <1>2, <1>3, SubSeqOfConcat2
<1> QED BY <1>2, <1>4

LEMMA ShiftedDecision ==
    ASSUME NEW t \in Bytes, NEW u \in Bytes, NEW i \in 1..Len(u), NEW who,
           TokenEnd(u, i) # 0
    PROVE  Decision(t \o u, Len(t) + i, who) = Decision(u, i, who)
<1> DEFINE n == Len(t)
           c == t \o u
<1>1. n \in Nat /\ i \in Nat \ {0} /\ Len(u) \in Nat
  BY NumberOf
<1>2. \A j \in Nat \ {0} : Class(c, n + j) = Class(u, j)
  BY ClassJoined
<1>3. TokenEnd(u, i) \in 1..Len(u) /\ TokenEnd(c, n + i) = n + TokenEnd(u, i)
  <2>1. TokenEnd(u, i) \in i..Len(u)
    BY TokenEndType
  <2> QED BY <1>1, <2>1, ShiftedEnd
<1>4. SubSeq(c, n + i, TokenEnd(c, n + i)) = SubSeq(u, i, TokenEnd(u, i))
  <2>1. SubSeq(c, n + i, n + TokenEnd(u, i)) = SubSeq(u, i, TokenEnd(u, i))
    BY <1>3, ShiftedPart, Zenon
  <2> QED BY <1>3, <2>1, Zenon
<1> HIDE DEF n, c
<1>5. F4At(c, n + i) <=> F4At(u, i)
  <2>1. /\ i + 1 \in Nat \ {0} /\ (n + i) + 1 = n + (i + 1)
        /\ i + 2 \in Nat \ {0} /\ (n + i) + 2 = n + (i + 2)
    BY <1>1
  <2> QED BY <1>1, <1>2, <2>1 DEF F4At
<1> QED BY <1>4, <1>5 DEF Decision, n, c

IsTable(f, buf, who) ==
    \A i \in 1..Len(buf) + 1 : f[i] = FromToken(buf, who, i, f[TokenEnd(buf, i) + 1])

(* What follows a token is parsed as if nothing had come before.           *)
LEMMA SuffixParsed ==
    ASSUME NEW t \in Bytes, NEW u \in Bytes, NEW who, NEW F, NEW f,
           IsTable(F, t \o u, who), IsTable(f, u, who)
    PROVE  \A i \in 1..Len(u) + 1 : F[Len(t) + i] = f[i]
<1> DEFINE n == Len(t)
           m == Len(u)
           c == t \o u
           Same(i) == F[n + i] = f[i]
           S == {k \in Nat : k <= m => Same((m + 1) - k)}
           U == {k \in Nat : \A l \in 0..k : l \in S}
<1>1. n \in Nat /\ m \in Nat /\ c \in Bytes /\ Len(c) = n + m
  BY NumberOf, Together
<1>2. ASSUME NEW i \in 1..m + 1, \A j \in i + 1..m + 1 : Same(j) PROVE Same(i)
  <2>1. n + i \in 1..Len(c) + 1 /\ (i > m <=> n + i > Len(c)) /\ (i <= m <=> n + i <= Len(c))
        /\ (i <= m <=> ~(i > m)) /\ (i <= m => i \in 1..m /\ m \in 1..m) /\ i \in Nat \ {0}
    BY <1>1
  <2>2. /\ F[n + i] = FromToken(c, who, n + i, F[TokenEnd(c, n + i) + 1])
        /\ f[i] = FromToken(u, who, i, f[TokenEnd(u, i) + 1])
    <3>1. i \in 1..Len(u) + 1
      OBVIOUS
    <3> QED BY <2>1, <3>1 DEF IsTable
  <2>3. CASE i > m
    <3>1. /\ \A rest : FromToken(c, who, n + i, rest) = Parsed(<<>>, <<>>)
          /\ \A rest : FromToken(u, who, i, rest) = Parsed(<<>>, <<>>)
      BY <1>1, <2>1, <2>3, FromTokenCases
    <3> QED BY <2>2, <3>1
  <2>4. CASE i <= m /\ TokenEnd(u, i) = 0
    <3>1. TokenEnd(c, n + i) = 0
      BY <2>1, <2>4, ShiftedEnd
    <3>2. SubSeq(c, n + i, n + m) = SubSeq(u, i, m)
      <4>1. i \in 1..Len(u) /\ m \in 1..Len(u)
        BY <2>1, <2>4
      <4> HIDE DEF c, n, m, Same, S, U
      <4>2. SubSeq(t \o u, Len(t) + i, Len(t) + m) = SubSeq(u, i, m)
        BY <4>1, ShiftedPart, Zenon
      <4> QED BY <4>2, Zenon DEF c, n
    <3>3. /\ \A rest : FromToken(c, who, n + i, rest) = Parsed(<<>>, SubSeq(c, n + i, Len(c)))
          /\ \A rest : FromToken(u, who, i, rest) = Parsed(<<>>, SubSeq(u, i, m))
      BY <1>1, <2>1, <2>4, <3>1, FromTokenCases
    <3> QED BY <1>1, <2>2, <3>2, <3>3
  <2>5. CASE i <= m /\ TokenEnd(u, i) # 0
    <3> DEFINE e == TokenEnd(u, i)
    <3>1. e \in i..m /\ TokenEnd(c, n + i) = n + e
      BY <2>1, <2>5, TokenEndType, ShiftedEnd
    <3>2. Decision(c, n + i, who) = Decision(u, i, who)
      BY <2>1, <2>5, ShiftedDecision
    <3> DEFINE r == f[e + 1]
    <3>3. F[TokenEnd(c, n + i) + 1] = r
      <4>1. e + 1 \in i + 1..m + 1 /\ (n + e) + 1 = n + (e + 1)
        BY <1>1, <2>1, <3>1
      <4> HIDE DEF e
      <4>2. Same(e + 1)
        BY <1>2, <4>1
      <4> QED BY <3>1, <4>1, <4>2
    <3>4. TokenEnd(c, n + i) # 0
      BY <1>1, <2>1, <3>1
    <3>5. /\ \A rest : FromToken(c, who, n + i, rest)
                         = Parsed(<<Decision(c, n + i, who)>> \o rest.results, rest.escBuf)
          /\ \A rest : FromToken(u, who, i, rest)
                         = Parsed(<<Decision(u, i, who)>> \o rest.results, rest.escBuf)
      <4>1. /\ n + i \in 1..Len(c) + 1 /\ n + i <= Len(c) /\ TokenEnd(c, n + i) # 0
            /\ i \in 1..Len(u) + 1 /\ i <= Len(u) /\ TokenEnd(u, i) # 0
        BY <2>1, <2>5, <3>4
      <4> HIDE DEF c, n, m, e, r, Same, S, U
      <4> QED BY <1>1, <4>1, FromTokenCases, Zenon
    <3>6. f[i] = FromToken(u, who, i, r) /\ F[n + i] = FromToken(c, who, n + i, r)
      BY <2>2, <3>3, Zenon
    <3> HIDE DEF r, e, c, n, m
    <3> QED BY <3>2, <3>5, <3>6, Zenon
  <2> QED BY <2>1, <2>3, <2>4, <2>5
<1>3. 0 \in U
  <2>1. m + 1 \in 1..m + 1 /\ (m + 1) - 0 = m + 1 /\ \A j \in (m + 1) + 1..m + 1 : FALSE
    BY <1>1
  <2> HIDE DEF Same
  <2>2. Same(m + 1)
    BY <1>2, <2>1
  <2>3. \A l \in 0..0 : l = 0
    OBVIOUS
  <2> QED BY <2>1, <2>2, <2>3
<1>4. ASSUME NEW k \in U PROVE k + 1 \in U
  <2>1. k \in Nat /\ \A l \in 0..k : l \in Nat /\ (l <= m => Same((m + 1) - l))
    OBVIOUS
  <2> HIDE DEF Same
  <2>2. ASSUME k + 1 <= m PROVE Same((m + 1) - (k + 1))
    <3>1. (m + 1) - (k + 1) \in 1..m + 1
      BY <1>1, <2>1, <2>2
    <3>2. ASSUME NEW j \in ((m + 1) - (k + 1)) + 1..m + 1 PROVE Same(j)
      <4>1. (m + 1) - j \in 0..k /\ (m + 1) - j <= m /\ (m + 1) - ((m + 1) - j) = j
        BY <1>1, <2>1, <2>2
      <4> QED BY <2>1, <4>1
    <3> QED BY <1>2, <3>1, <3>2
  <2>3. \A l \in 0..k + 1 : l \in 0..k \/ l = k + 1
    BY <2>1
  <2>4. k + 1 \in Nat
    BY <2>1
  <2> QED BY <2>1, <2>2, <2>3, <2>4
<1>5. U = Nat
  <2> HIDE DEF U
  <2>1. U \in SUBSET Nat
    BY DEF U
  <2> QED BY <1>3, <1>4, <2>1, Counting
<1>6. ASSUME NEW i \in 1..m + 1 PROVE Same(i)
  <2>1. (m + 1) - i \in Nat /\ (m + 1) - i <= m /\ (m + 1) - ((m + 1) - i) = i
        /\ (m + 1) - i \in 0..(m + 1) - i
    BY <1>1
  <2> HIDE DEF Same
  <2>2. (m + 1) - i \in U
    BY <1>5, <2>1
  <2>3. Same((m + 1) - ((m + 1) - i))
    BY <2>1, <2>2
  <2> QED BY <2>1, <2>3
<1> QED BY <1>6

(* feed() token by token.                                                  *)
LEMMA FeedTable ==
    ASSUME NEW buf \in Bytes, NEW who
    PROVE  \E f : Feed(buf, who) = f[1] /\ IsTable(f, buf, who)
  BY FeedReading DEF IsTable

LEMMA FeedNone == ASSUME NEW who PROVE Feed(<<>>, who) = Parsed(<<>>, <<>>)
<1> DEFINE none == <<>>
<1>1. none \in Bytes /\ Len(none) = 0
  BY NoNumbers
<1> HIDE DEF none
<1>2. PICK f : Feed(none, who) = f[1] /\ IsTable(f, none, who)
  BY <1>1, FeedTable
<1>3. 1 \in 1..Len(none) + 1 /\ 1 > Len(none)
  BY <1>1
<1>4. f[1] = FromToken(none, who, 1, f[TokenEnd(none, 1) + 1])
  BY <1>2, <1>3 DEF IsTable
<1>5. \A rest : FromToken(none, who, 1, rest) = Parsed(<<>>, <<>>)
  BY <1>1, <1>3, FromTokenCases
<1>6. Feed(none, who) = Parsed(<<>>, <<>>)
  BY <1>2, <1>4, <1>5
<1> QED BY <1>6 DEF none

LEMMA FeedKept ==
    ASSUME NEW buf \in Bytes, NEW who, buf # <<>>, TokenEnd(buf, 1) = 0
    PROVE  Feed(buf, who) = Parsed(<<>>, buf)
<1>1. PICK f : Feed(buf, who) = f[1] /\ IsTable(f, buf, who)
  BY FeedTable
<1>2. Len(buf) \in Nat \ {0} /\ SubSeq(buf, 1, Len(buf)) = buf
  BY EmptySeq, SubSeqFull DEF Bytes
<1>3. 1 \in 1..Len(buf) + 1 /\ 1 <= Len(buf)
  BY <1>2
<1>4. f[1] = FromToken(buf, who, 1, f[TokenEnd(buf, 1) + 1])
  BY <1>1, <1>3 DEF IsTable
<1>5. \A rest : FromToken(buf, who, 1, rest) = Parsed(<<>>, SubSeq(buf, 1, Len(buf)))
  BY <1>3, FromTokenCases
<1> QED BY <1>1, <1>2, <1>4, <1>5

Chosen(t, who) == IF F4At(t, 1) THEN Result("toggle", <<>>) ELSE Result(who, t)

LEMMA FeedFirst ==
    ASSUME NEW t \in Bytes, NEW u \in Bytes, NEW who, t # <<>>, TokenEnd(t \o u, 1) = Len(t)
    PROVE  Feed(t \o u, who)
             = Parsed(Cons(Chosen(t, who), Feed(u, who).results), Feed(u, who).escBuf)
<1> DEFINE c == t \o u
           n == Len(t)
           d == Decision(c, 1, who)
<1>1. PICK F : Feed(c, who) = F[1] /\ IsTable(F, c, who)
  BY Together, FeedTable
<1>2. PICK f : Feed(u, who) = f[1] /\ IsTable(f, u, who)
  BY FeedTable
<1>3. n \in Nat \ {0} /\ Len(u) \in Nat /\ c \in Bytes /\ Len(c) = n + Len(u)
  BY EmptySeq, NumberOf, Together DEF Bytes
<1>4. 1 \in 1..Len(c) + 1 /\ 1 <= Len(c) /\ 1 \in 1..Len(u) + 1 /\ n # 0 /\ 1 \in 1..n
      /\ n \in 1..n /\ 1 \in 1..Len(c)
  BY <1>3
<1>5. F[n + 1] = f[1]
  BY <1>1, <1>2, <1>4, SuffixParsed
<1>6. F[1] = FromToken(c, who, 1, F[n + 1])
  BY <1>1, <1>4 DEF IsTable
<1>7. \A rest : FromToken(c, who, 1, rest) = Parsed(<<d>> \o rest.results, rest.escBuf)
  BY <1>3, <1>4, FromTokenCases
<1>8. d = Chosen(t, who)
  <2>1. F4At(c, 1) <=> F4At(t, 1)
    <3>1. \A j \in 1..n : Class(c, j) = Class(t, j)
      BY ClassJoined
    <3>2. F4At(c, 1) => n = 3
      <4>1. F4At(c, 1) => TokenEnd(c, 1) = 1 + 2
        <5> HIDE DEF c, n
        <5> QED BY <1>3, <1>4, TokenEndType
      <4> QED BY <4>1
    <3>3. Class(t, 3) = "S" => 3 \in 1..n
      BY ClassInside
    <3>4. 3 \in 1..n => 2 \in 1..n /\ 1 \in 1..n
      BY <1>3
    <3>5. n = 3 => 3 \in 1..n
      OBVIOUS
    <3> HIDE DEF n, c
    <3> QED BY <3>1, <3>2, <3>3, <3>4, <3>5 DEF F4At
  <2>2. SubSeq(c, 1, n) = t
    <3>1. t \in Seq(Byte) /\ u \in Seq(Byte)
      BY DEF Bytes
    <3>2. SubSeq(c, 1, n) = SubSeq(t, 1, n) /\ SubSeq(t, 1, n) = t
      BY <1>4, <3>1, SubSeqOfConcat1, SubSeqFull
    <3> QED BY <3>2
  <2> QED BY <2>1, <2>2 DEF Decision, Chosen
<1> HIDE DEF c, n, d
<1>9. Feed(c, who) = Parsed(<<d>> \o Feed(u, who).results, Feed(u, who).escBuf)
  BY <1>1, <1>2, <1>5, <1>6, <1>7, Zenon
<1> QED BY <1>8, <1>9, Zenon DEF c, Cons

(* A run of plain bytes up to the end of the buffer: what is read next may *)
(* continue it.                                                            *)
PlainRun(p) == Class(p, 1) # "esc" /\ TokenEnd(p, 1) = Len(p)

(* Any other token is the same whatever is read after it.                  *)
LEMMA TokenStays ==
    ASSUME NEW p \in Bytes, NEW q \in Bytes, p # <<>>, TokenEnd(p, 1) # 0,
           PlainRun(p) => q = <<>> \/ Class(q, 1) = "esc"
    PROVE  TokenEnd(p \o q, 1) = TokenEnd(p, 1)
<1> DEFINE m == Len(p)
           n == Len(q)
           c == p \o q
           e == TokenEnd(p, 1)
<1>1. m \in Nat \ {0} /\ n \in Nat /\ Len(c) = m + n
  BY EmptySeq, NumberOf, Together DEF Bytes
<1>2. \A j \in 1..m : Class(c, j) = Class(p, j)
  BY ClassJoined
<1>3. Class(c, m + 1) = Class(q, 1)
  BY ClassJoined
<1>4. 1 \in 1..m /\ Class(c, 1) = Class(p, 1) /\ Len(p) = m
  BY <1>1, <1>2
<1>5. CASE Class(p, 1) # "esc"
  <2> DEFINE S == {j \in 1..m : Class(p, j + 1) = "esc"}
             R == {j \in 1..m + n : Class(c, j + 1) = "esc"}
  <2>1. e = FirstIn(S, m) /\ TokenEnd(c, 1) = FirstIn(R, m + n)
    BY <1>1, <1>4, <1>5 DEF TokenEnd, PlainEnd
  <2>2. S \in SUBSET Nat /\ R \in SUBSET Nat
    BY <1>1
  <2>3. \A y \in R : y < m => y \in S
    <3>1. \A y \in R : y \in Nat \ {0} /\ (y < m => y + 1 \in 1..m /\ y \in 1..m)
      BY <1>1
    <3> QED BY <1>2, <3>1
  <2>4. CASE S # {}
    <3>1. e \in S /\ \A y \in S : e <= y
      <4> HIDE DEF S, R, e
      <4> QED BY <2>1, <2>2, <2>4, FirstInLeast
    <3>2. e \in 1..m /\ Class(p, e + 1) = "esc"
      BY <3>1
    <3>3. e + 1 \in 1..m
      BY <3>2, ClassInside
    <3>4. e \in R
      BY <1>1, <1>2, <3>2, <3>3
    <3>5. \A y \in R : e <= y
      <4>1. ASSUME NEW y \in R, y < e PROVE FALSE
        <5>1. y \in S
          BY <1>1, <2>2, <2>3, <3>2, <4>1
        <5>2. y \in Nat /\ e \in Nat
          BY <2>2, <3>2
        <5> HIDE DEF S, R, e
        <5>3. e <= y
          BY <3>1, <5>1
        <5> QED BY <4>1, <5>2, <5>3
      <4>2. \A y \in R : y \in Nat /\ e \in Nat
        BY <2>2, <3>2
      <4> HIDE DEF S, R, e
      <4> QED BY <4>1, <4>2
    <3> HIDE DEF S, R, e
    <3>6. FirstIn(R, m + n) = e
      BY <2>2, <3>4, <3>5, FirstInIs
    <3> QED BY <2>1, <3>6 DEF e
  <2>5. CASE S = {}
    <3>1. e = m
      <4> HIDE DEF S, R, e
      <4> QED BY <2>1, <2>5, FirstInNone
    <3>2. q = <<>> \/ Class(q, 1) = "esc"
      BY <1>5, <3>1 DEF PlainRun
    <3>3. CASE q = <<>>
      <4>1. c = p
        BY <3>3, ConcatEmptySeq DEF Bytes
      <4> QED BY <4>1
    <3>4. CASE Class(q, 1) = "esc"
      <4>1. m \in R
        BY <1>1, <1>3, <3>4
      <4>2. \A y \in R : m <= y
        <5>1. \A y \in R : ~(y < m)
          <6> HIDE DEF S, R
          <6> QED BY <2>3, <2>5
        <5>2. \A y \in R : y \in Nat
          BY <2>2
        <5> HIDE DEF S, R, e
        <5> QED BY <1>1, <5>1, <5>2
      <4> HIDE DEF S, R, e
      <4>3. FirstIn(R, m + n) = m
        BY <2>2, <4>1, <4>2, FirstInIs
      <4> QED BY <2>1, <3>1, <4>3 DEF e
    <3> QED BY <3>2, <3>3, <3>4
  <2> QED BY <2>4, <2>5
<1>6. CASE Class(p, 1) = "esc"
  <2>1. Class(p, 2) # "none"
    BY <1>6 DEF TokenEnd, EscAwaitsMore
  <2>2. 2 \in 1..m /\ Class(c, 2) = Class(p, 2) /\ 1 + 1 = 2
    BY <1>2, <2>1, ClassInside
  <2>3. CASE Class(p, 2) = "["
    <3> DEFINE S == {j \in 1 + 2..m : Class(p, j) # "par"}
               R == {j \in 1 + 2..m + n : Class(c, j) # "par"}
    <3>1. e = FirstIn(S, 0) /\ TokenEnd(c, 1) = FirstIn(R, 0)
      BY <1>1, <1>4, <1>6, <2>2, <2>3 DEF TokenEnd, CsiEnd
    <3>2. S \in SUBSET Nat /\ R \in SUBSET Nat
      BY <1>1
    <3>3. S # {}
      BY <3>1, FirstInNone
    <3>4. e \in S /\ \A y \in S : e <= y
      <4> HIDE DEF S, R, e
      <4> QED BY <3>1, <3>2, <3>3, FirstInLeast
    <3>5. e \in 1 + 2..m /\ Class(p, e) # "par"
      BY <3>4
    <3>6. e \in R
      <4>1. e \in 1..m /\ e \in 1 + 2..m + n
        BY <1>1, <3>5
      <4> QED BY <1>2, <3>5, <4>1
    <3>7. \A y \in R : e <= y
      <4>1. ASSUME NEW y \in R, y < e PROVE FALSE
        <5>1. y \in 1 + 2..m + n /\ Class(c, y) # "par"
          OBVIOUS
        <5>2. y \in 1..m /\ y \in 1 + 2..m
          BY <1>1, <3>5, <4>1, <5>1
        <5>3. y \in S
          BY <1>2, <5>1, <5>2
        <5>4. y \in Nat /\ e \in Nat
          BY <3>5, <5>2
        <5> HIDE DEF S, R, e
        <5> QED BY <3>4, <4>1, <5>3, <5>4
      <4>2. \A y \in R : y \in Nat /\ e \in Nat
        BY <3>2, <3>5
      <4> HIDE DEF S, R, e
      <4> QED BY <4>1, <4>2
    <3> HIDE DEF S, R, e
    <3>8. FirstIn(R, 0) = e
      BY <3>2, <3>6, <3>7, FirstInIs
    <3> QED BY <3>1, <3>8 DEF e
  <2>4. CASE Class(p, 2) = "O"
    <3>1. 1 + 2 <= m
      BY <1>4, <1>6, <2>2, <2>4 DEF TokenEnd
    <3>2. 1 + 2 <= m + n
      BY <1>1, <3>1
    <3> QED BY <1>1, <1>4, <1>6, <2>2, <2>4, <3>1, <3>2 DEF TokenEnd
  <2>5. CASE Class(p, 2) \notin {"none", "[", "O"}
    BY <1>4, <1>6, <2>2, <2>5 DEF TokenEnd
  <2> QED BY <2>1, <2>3, <2>4, <2>5
<1> QED BY <1>5, <1>6

LEMMA RunGrows ==
    ASSUME NEW p \in Bytes, NEW q \in Bytes, p # <<>>, q # <<>>,
           PlainRun(p), Class(q, 1) # "esc"
    PROVE  TokenEnd(q, 1) \in 1..Len(q) /\ TokenEnd(p \o q, 1) = Len(p) + TokenEnd(q, 1)
<1> DEFINE m == Len(p)
           n == Len(q)
           c == p \o q
           S == {j \in 1..n : Class(q, j + 1) = "esc"}
           R == {j \in 1..m + n : Class(c, j + 1) = "esc"}
           P == {j \in 1..m : Class(p, j + 1) = "esc"}
<1>1. m \in Nat \ {0} /\ n \in Nat \ {0} /\ Len(c) = m + n
  BY EmptySeq, NumberOf, Together DEF Bytes
<1>2. \A j \in 1..m : Class(c, j) = Class(p, j)
  BY ClassJoined
<1>3. \A j \in Nat \ {0} : Class(c, m + j) = Class(q, j)
  BY ClassJoined
<1>4. 1 \in 1..m /\ Class(c, 1) = Class(p, 1) /\ Class(p, 1) # "esc"
  BY <1>1, <1>2 DEF PlainRun
<1>5. /\ TokenEnd(q, 1) = FirstIn(S, n) /\ TokenEnd(c, 1) = FirstIn(R, m + n)
      /\ FirstIn(P, m) = m
  BY <1>1, <1>4 DEF TokenEnd, PlainEnd, PlainRun
<1>6. S \in SUBSET Nat /\ R \in SUBSET Nat /\ P \in SUBSET Nat
  BY <1>1
<1>7. \A y \in P : m <= y
  <2> HIDE DEF P, S, R, m
  <2>1. CASE P = {}
    BY <2>1
  <2>2. CASE P # {}
    BY <1>5, <1>6, <2>2, FirstInLeast
  <2> QED BY <2>1, <2>2
<1>8. ASSUME NEW y \in R PROVE y > m
  <2>1. y \in 1..m + n /\ Class(c, y + 1) = "esc"
    OBVIOUS
  <2>2. CASE y < m
    <3>1. y + 1 \in 1..m /\ y \in 1..m
      BY <1>1, <2>1, <2>2
    <3>2. y \in P
      BY <1>2, <2>1, <3>1
    <3>3. m <= y
      <4> HIDE DEF P, R, S, m, n, c
      <4> QED BY <1>7, <3>2
    <3> QED BY <1>1, <2>1, <2>2, <3>3
  <2>3. CASE y = m
    BY <1>3, <2>1, <2>3
  <2> QED BY <1>1, <2>1, <2>2, <2>3
<1>9. ASSUME NEW x \in S PROVE m + x \in R
  <2>1. x \in 1..n /\ Class(q, x + 1) = "esc"
    OBVIOUS
  <2>2. m + x \in 1..m + n /\ x + 1 \in Nat \ {0} /\ (m + x) + 1 = m + (x + 1)
    BY <1>1, <2>1
  <2> QED BY <1>3, <2>1, <2>2
<1>10. ASSUME NEW y \in R PROVE \E x \in S : y = m + x
  <2>1. y \in 1..m + n /\ Class(c, y + 1) = "esc" /\ y > m
    BY <1>8
  <2>2. /\ y - m \in 1..n /\ y = m + (y - m)
        /\ (y - m) + 1 \in Nat \ {0} /\ m + ((y - m) + 1) = y + 1
    BY <1>1, <2>1
  <2>3. Class(q, (y - m) + 1) = "esc"
    BY <1>3, <2>1, <2>2
  <2> QED BY <2>2, <2>3
<1>11. S \subseteq 1..n
  OBVIOUS
<1> HIDE DEF S, R, P, c
<1>12. FirstIn(R, m + n) = m + FirstIn(S, n)
  <2>1. Shifted(S, R, m)
    BY <1>1, <1>6, <1>9, <1>10 DEF Shifted
  <2>2. n \in Nat
    BY <1>1
  <2> HIDE DEF m, n
  <2> QED BY <2>1, <2>2, FirstInShifts
<1>13. FirstIn(S, n) \in 1..n
  <2>1. FirstIn(S, n) \in S \cup {n}
    BY <1>6, FirstInType
  <2>2. n \in 1..n
    BY <1>1
  <2> HIDE DEF m, n
  <2> QED BY <1>11, <2>1, <2>2
<1> QED BY <1>5, <1>12, <1>13 DEF c

-----------------------------------------------------------------------------
(* One read more is a cut that does not matter.                            *)

Agrees(p, q, who, name) ==
    LET first  == Feed(p, who)
        second == Feed(first.escBuf \o q, who)
        whole  == Feed(p \o q, who)
    IN /\ Merged(first.results \o second.results, name) = Merged(whole.results, name)
       /\ second.escBuf = whole.escBuf

LEMMA FeedType ==
    ASSUME NEW buf \in Bytes, NEW who \in Side
    PROVE  Feed(buf, who).results \in Seq(Choice) /\ Feed(buf, who).escBuf \in Bytes
  BY FeedRoutes, Zenon DEF Routes, Side

LEMMA FeedAny ==
    \A t, u \in Bytes, who \in Side :
        t # <<>> /\ TokenEnd(t \o u, 1) = Len(t) =>
            Feed(t \o u, who)
              = Parsed(Cons(Chosen(t, who), Feed(u, who).results), Feed(u, who).escBuf)
  BY FeedFirst

LEMMA ParsedReading ==
    \A r, b : Parsed(r, b).results = r /\ Parsed(r, b).escBuf = b
  BY DEF Parsed

LEMMA ChoicesAssociative == \A s, t, u \in Seq(Choice) : (s \o t) \o u = s \o (t \o u)
  BY SequencesJoin, Zenon DEF Joinable

LEMMA MarksAssociative == \A s, t, u \in Seq(Mark) : (s \o t) \o u = s \o (t \o u)
  BY SequencesJoin, Zenon DEF Joinable

LEMMA ConsJoined ==
    \A d \in Choice, a, b \in Seq(Choice), name \in Name :
        Merged(Cons(d, a) \o b, name) = MarksOf(name)[d] \o Merged(a \o b, name)
<1> TAKE d \in Choice, a, b \in Seq(Choice), name \in Name
<1>1. <<d>> \in Seq(Choice) /\ a \o b \in Seq(Choice)
  <2> DEFINE T == Choice
  <2>1. d \in T /\ a \in Seq(T) /\ b \in Seq(T)
    OBVIOUS
  <2> HIDE DEF T
  <2>2. <<d>> \in Seq(T) /\ a \o b \in Seq(T)
    BY <2>1, ConcatProperties
  <2> QED BY <2>2 DEF T
<1>2. (<<d>> \o a) \o b = <<d>> \o (a \o b)
  <2> DEFINE first == <<d>>
  <2>1. first \in Seq(Choice)
    BY <1>1
  <2> HIDE DEF first
  <2>2. (first \o a) \o b = first \o (a \o b)
    BY <2>1, ChoicesAssociative, Zenon
  <2> QED BY <2>2 DEF first
<1>3. Cons(d, a) \o b = Cons(d, a \o b)
  BY <1>2, Zenon DEF Cons
<1>4. Merged(Cons(d, a \o b), name) = MarksOf(name)[d] \o Merged(a \o b, name)
  BY <1>1, MergedCons, Zenon DEF Cons
<1> QED BY <1>3, <1>4, Zenon

LEMMA ChosenIs == ASSUME NEW t \in Bytes, NEW who \in Side PROVE Chosen(t, who) \in Choice
<1>1. <<>> \in Bytes
  BY NoNumbers
<1> QED BY <1>1 DEF Chosen, Choice, Result, Side

LEMMA ChosenType ==
    ASSUME NEW t \in Bytes, NEW who \in Side, NEW name \in Name
    PROVE  /\ Chosen(t, who) \in Choice
           /\ Class(t, 1) # "esc" => MarksOf(name)[Chosen(t, who)] = MarksAt(t, name[who])
<1>2. Chosen(t, who) \in Choice
  BY ChosenIs
<1>3. ASSUME Class(t, 1) # "esc" PROVE MarksOf(name)[Chosen(t, who)] = MarksAt(t, name[who])
  <2>1. Chosen(t, who) = Result(who, t)
    BY <1>3 DEF Chosen, F4At
  <2>2. /\ Result(who, t).target = who /\ who # "toggle"
        /\ Result(who, t).bytes = t
    BY DEF Result, Side
  <2>3. MarksOf(name)[Result(who, t)]
          = MarksAt(Result(who, t).bytes, name[Result(who, t).target])
    BY <1>2, <2>1, <2>2 DEF MarksOf
  <2> QED BY <2>1, <2>2, <2>3, Zenon
<1> QED BY <1>2, <1>3

(* All of what is read first is kept.                                      *)
LEMMA AgreesKept ==
    ASSUME NEW p \in Bytes, NEW q \in Bytes, NEW who \in Side, NEW name \in Name,
           p = <<>> \/ TokenEnd(p, 1) = 0
    PROVE  Agrees(p, q, who, name)
<1>1. Feed(p, who) = Parsed(<<>>, p)
  BY FeedNone, FeedKept
<1>2. Feed(p, who).results = <<>> /\ Feed(p, who).escBuf = p
  BY <1>1, ParsedReading
<1> DEFINE r == Feed(p \o q, who).results
<1>3. <<>> \o r = r
  <2>1. p \o q \in Bytes
    BY Together
  <2>2. r \in Seq(Choice)
    BY <2>1, FeedType
  <2> HIDE DEF r
  <2> QED BY <2>2, ConcatEmptySeq, Zenon
<1> QED BY <1>2, <1>3, Zenon DEF Agrees

(* The first token is the same in all that is read.                        *)
LEMMA AgreesAfter ==
    ASSUME NEW t \in Bytes, NEW u \in Bytes, NEW q \in Bytes, NEW who \in Side,
           NEW name \in Name, t # <<>>,
           TokenEnd(t \o u, 1) = Len(t), TokenEnd((t \o u) \o q, 1) = Len(t),
           Agrees(u, q, who, name)
    PROVE  Agrees(t \o u, q, who, name)
<1> DEFINE d == Chosen(t, who)
           a == Feed(u, who).results
           x == Feed(u, who).escBuf
           b == Feed(x \o q, who).results
           y == Feed(x \o q, who).escBuf
           w == Feed(u \o q, who).results
           z == Feed(u \o q, who).escBuf
           s == t \o u
<1>1. u \o q \in Bytes /\ (t \o u) \o q = t \o (u \o q)
  <2>1. u \o q \in Bytes
    BY Together, Zenon
  <2>2. (t \o u) \o q = t \o (u \o q)
    BY BytesAssociative, Zenon
  <2> QED BY <2>1, <2>2
<1>2. Feed(s, who) = Parsed(Cons(d, a), x)
  BY FeedFirst
<1>3. Feed(s \o q, who) = Parsed(Cons(d, w), z)
  <2>1. TokenEnd(t \o (u \o q), 1) = Len(t)
    BY <1>1, Zenon
  <2>2. Feed(t \o (u \o q), who) = Parsed(Cons(d, w), z)
    BY <1>1, <2>1, FeedAny, Zenon
  <2> QED BY <1>1, <2>2, Zenon
<1>4. a \in Seq(Choice) /\ x \in Bytes /\ w \in Seq(Choice)
  BY <1>1, FeedType
<1>5. b \in Seq(Choice)
  <2>1. x \o q \in Bytes
    BY <1>4, Together
  <2> QED BY <2>1, FeedType
<1>6. Merged(a \o b, name) = Merged(w, name) /\ y = z
  BY DEF Agrees
<1>7. d \in Choice
  BY ChosenType
<1> HIDE DEF a, x, b, y, w, z, d, s
<1>8. Feed(s, who).results = Cons(d, a) /\ Feed(s, who).escBuf = x
      /\ Feed(s \o q, who).results = Cons(d, w) /\ Feed(s \o q, who).escBuf = z
  BY <1>2, <1>3, ParsedReading, Zenon
<1>9. Merged(Cons(d, a) \o b, name) = MarksOf(name)[d] \o Merged(a \o b, name)
  BY <1>4, <1>5, <1>7, ConsJoined, Zenon
<1>10. Merged(Cons(d, w), name) = MarksOf(name)[d] \o Merged(w, name)
  BY <1>4, <1>7, MergedFirst, Zenon
<1>11. Merged(Cons(d, a) \o b, name) = Merged(Cons(d, w), name)
  BY <1>6, <1>9, <1>10, Zenon
<1>12. Feed(x \o q, who).results = b /\ Feed(x \o q, who).escBuf = y
  BY DEF b, y
<1>13. Agrees(s, q, who, name)
  BY <1>6, <1>8, <1>11, <1>12, Zenon DEF Agrees
<1> QED BY <1>13 DEF s

(* A run of plain bytes that goes on is cut.                               *)
LEMMA AgreesRun ==
    ASSUME NEW p \in Bytes, NEW q \in Bytes, NEW who \in Side, NEW name \in Name,
           p # <<>>, q # <<>>,
           PlainRun(p), Class(q, 1) # "esc"
    PROVE  Agrees(p, q, who, name)
<1> DEFINE e == TokenEnd(q, 1)
           t == SubSeq(q, 1, e)
           u == SubSeq(q, e + 1, Len(q))
           g == Feed(u, who).results
           z == Feed(u, who).escBuf
           c == Chosen(p, who)
           d == Chosen(t, who)
           f == Chosen(p \o t, who)
           w == name[who]
<1>1. Len(q) \in Nat \ {0} /\ Len(p) \in Nat \ {0} /\ e \in 1..Len(q)
      /\ TokenEnd(p \o q, 1) = Len(p) + e
  BY EmptySeq, RunGrows DEF Bytes
<1>2. t \in Bytes /\ u \in Bytes /\ t \o u = q /\ Len(t) = e
  <2>1. 1 \in 1..Len(q) + 1 /\ e \in 1 - 1..Len(q) /\ e - 1 + 1 = e
    BY <1>1
  <2>2. SubSeq(q, 1, Len(q)) = q
    BY SubSeqFull DEF Bytes
  <2> HIDE DEF e
  <2> QED BY <2>1, <2>2, Divided
<1> HIDE DEF t, u
<1>3. t # <<>> /\ p \o t \in Bytes /\ Len(p \o t) = Len(p) + e /\ p \o t # <<>>
  <2>1. t # <<>>
    BY <1>1, <1>2
  <2>2. p \o t \in Bytes /\ Len(p \o t) = Len(p) + e
    BY <1>2, Together
  <2>3. Len(p) + e # 0
    BY <1>1
  <2> QED BY <2>1, <2>2, <2>3
<1>4. Feed(p, who) = Parsed(Cons(c, <<>>), <<>>)
  <2>1. p \o <<>> = p /\ <<>> \in Bytes
    BY ConcatEmptySeq, NoNumbers DEF Bytes
  <2>2. TokenEnd(p \o <<>>, 1) = Len(p)
    BY <2>1 DEF PlainRun
  <2>3. Feed(<<>>, who).results = <<>> /\ Feed(<<>>, who).escBuf = <<>>
    BY FeedNone, ParsedReading
  <2>4. Feed(p \o <<>>, who)
          = Parsed(Cons(c, Feed(<<>>, who).results), Feed(<<>>, who).escBuf)
    BY <2>1, <2>2, FeedFirst, Zenon
  <2> QED BY <2>1, <2>3, <2>4, Zenon
<1>5. Feed(q, who) = Parsed(Cons(d, g), z)
  <2>1. TokenEnd(t \o u, 1) = Len(t)
    BY <1>2
  <2>2. Feed(t \o u, who) = Parsed(Cons(d, g), z)
    BY <1>2, <1>3, <2>1, FeedAny, Zenon
  <2> QED BY <1>2, <2>2, Zenon
<1>6. Feed(p \o q, who) = Parsed(Cons(f, g), z)
  <2>1. p \o q = (p \o t) \o u
    BY <1>2, BytesAssociative, Zenon
  <2>2. TokenEnd((p \o t) \o u, 1) = Len(p \o t)
    BY <1>1, <1>3, <2>1, Zenon
  <2>3. Feed((p \o t) \o u, who) = Parsed(Cons(f, g), z)
    BY <1>2, <1>3, <2>2, FeedAny, Zenon
  <2> QED BY <2>1, <2>3, Zenon
<1>7. c \in Choice /\ d \in Choice /\ f \in Choice /\ g \in Seq(Choice)
  BY <1>2, <1>3, ChosenType, FeedType
<1>8. MarksOf(name)[f] = MarksOf(name)[c] \o MarksOf(name)[d]
      /\ MarksOf(name)[c] \in Seq(Mark) /\ MarksOf(name)[d] \in Seq(Mark)
  <2>1. 1 \in 1..Len(p) /\ 1 \in 1..Len(t)
    BY <1>1, <1>2
  <2>2. Class(p \o t, 1) = Class(p, 1) /\ Class(q, 1) = Class(t, 1)
    BY <1>2, <2>1, ClassJoined
  <2>3. Class(p, 1) # "esc" /\ Class(t, 1) # "esc" /\ Class(p \o t, 1) # "esc"
    BY <2>2 DEF PlainRun
  <2>4. /\ MarksOf(name)[f] = MarksAt(p \o t, w)
        /\ MarksOf(name)[c] = MarksAt(p, w) /\ MarksOf(name)[d] = MarksAt(t, w)
    BY <1>2, <1>3, <2>3, ChosenType
  <2>0. w \in Label
    BY DEF Name
  <2> HIDE DEF w
  <2>5. MarksAt(p \o t, w) = MarksAt(p, w) \o MarksAt(t, w)
    BY <1>2, <2>0, MarksAtJoined
  <2>6. MarksAt(p, w) \in Seq(Mark) /\ MarksAt(t, w) \in Seq(Mark)
    BY <1>2, <2>0, MarksAtType
  <2> QED BY <2>4, <2>5, <2>6, Zenon
<1> HIDE DEF g, z, c, d, f
<1>9. Merged(Cons(c, <<>>) \o Cons(d, g), name) = Merged(Cons(f, g), name)
  <2> DEFINE m == Merged(g, name)
             marks(x) == MarksOf(name)[x]
  <2>1. <<>> \in Seq(Choice) /\ Cons(d, g) \in Seq(Choice) /\ m \in Seq(Mark)
    BY <1>7, EmptySeq, MergedFirst
  <2>2. <<>> \o Cons(d, g) = Cons(d, g)
    BY <2>1, ConcatEmptySeq, Zenon
  <2>3. Merged(Cons(c, <<>>) \o Cons(d, g), name) = marks(c) \o Merged(<<>> \o Cons(d, g), name)
    <3> DEFINE k == Cons(d, g)
    <3>1. <<>> \in Seq(Choice) /\ k \in Seq(Choice)
      BY <2>1
    <3> HIDE DEF k
    <3>2. Merged(Cons(c, <<>>) \o k, name) = MarksOf(name)[c] \o Merged(<<>> \o k, name)
      BY <1>7, <3>1, ConsJoined, Zenon
    <3> QED BY <3>2 DEF k
  <2>4. Merged(Cons(d, g), name) = marks(d) \o m /\ Merged(Cons(f, g), name) = marks(f) \o m
    <3>1. Merged(Cons(d, g), name) = MarksOf(name)[d] \o Merged(g, name)
      BY <1>7, MergedFirst, Zenon
    <3>2. Merged(Cons(f, g), name) = MarksOf(name)[f] \o Merged(g, name)
      BY <1>7, MergedFirst, Zenon
    <3> QED BY <3>1, <3>2
  <2>5. (marks(c) \o marks(d)) \o m = marks(c) \o (marks(d) \o m)
    BY <1>8, <2>1, MarksAssociative, Zenon
  <2>6. marks(f) = marks(c) \o marks(d)
    BY <1>8
  <2> HIDE DEF m, marks
  <2> QED BY <2>2, <2>3, <2>4, <2>5, <2>6, Zenon
<1>10. /\ Feed(p, who).results = Cons(c, <<>>) /\ Feed(p, who).escBuf = <<>>
       /\ Feed(q, who).results = Cons(d, g) /\ Feed(q, who).escBuf = z
       /\ Feed(p \o q, who).results = Cons(f, g) /\ Feed(p \o q, who).escBuf = z
  <2>1. Feed(p, who).results = Cons(c, <<>>) /\ Feed(p, who).escBuf = <<>>
    BY <1>4, ParsedReading, Zenon
  <2>2. Feed(q, who).results = Cons(d, g) /\ Feed(q, who).escBuf = z
    BY <1>5, ParsedReading, Zenon
  <2>3. Feed(p \o q, who).results = Cons(f, g) /\ Feed(p \o q, who).escBuf = z
    BY <1>6, ParsedReading, Zenon
  <2> QED BY <2>1, <2>2, <2>3, Zenon
<1>11. <<>> \o q = q
  BY ConcatEmptySeq DEF Bytes
<1> QED BY <1>9, <1>10, <1>11, Zenon DEF Agrees

(* By induction on the length of what is read first.                       *)
LEMMA CutAnywhere ==
    ASSUME NEW q \in Bytes, NEW who \in Side, NEW name \in Name
    PROVE  \A p \in Bytes : Agrees(p, q, who, name)
<1> DEFINE S == {k \in Nat : \A p \in Bytes : Len(p) <= k => Agrees(p, q, who, name)}
<1>1. 0 \in S
  <2>1. ASSUME NEW p \in Bytes, Len(p) <= 0 PROVE Agrees(p, q, who, name)
    <3>1. p = <<>>
      BY <2>1, EmptySeq DEF Bytes
    <3> QED BY <3>1, AgreesKept
  <2> QED BY <2>1
<1>2. ASSUME NEW k \in S PROVE k + 1 \in S
  <2>1. k \in Nat /\ \A p \in Bytes : Len(p) <= k => Agrees(p, q, who, name)
    OBVIOUS
  <2>2. ASSUME NEW p \in Bytes, Len(p) <= k + 1 PROVE Agrees(p, q, who, name)
    <3> DEFINE e == TokenEnd(p, 1)
               t == SubSeq(p, 1, e)
               u == SubSeq(p, e + 1, Len(p))
    <3>1. CASE p = <<>> \/ e = 0
      BY <3>1, AgreesKept
    <3>2. CASE p # <<>> /\ PlainRun(p) /\ q # <<>> /\ Class(q, 1) # "esc"
      BY <3>2, AgreesRun
    <3>3. CASE p # <<>> /\ e # 0 /\ (PlainRun(p) => q = <<>> \/ Class(q, 1) = "esc")
      <4>1. Len(p) \in Nat \ {0}
        BY <3>3, EmptySeq DEF Bytes
      <4>2. e \in 1..Len(p)
        <5>1. 1 \in 1..Len(p)
          BY <4>1
        <5> QED BY <3>3, <5>1, TokenEndType
      <4>3. t \in Bytes /\ u \in Bytes /\ t \o u = p /\ Len(t) = e /\ Len(u) = Len(p) - e
        <5>1. 1 \in 1..Len(p) + 1 /\ e \in 1 - 1..Len(p) /\ e - 1 + 1 = e
          BY <4>1, <4>2
        <5>2. SubSeq(p, 1, Len(p)) = p
          BY SubSeqFull DEF Bytes
        <5> HIDE DEF e
        <5> QED BY <5>1, <5>2, Divided
      <4> HIDE DEF t, u
      <4>4. Agrees(u, q, who, name)
        <5>1. Len(u) <= k
          BY <2>1, <2>2, <4>1, <4>2, <4>3
        <5> QED BY <2>1, <4>3, <5>1
      <4>5. TokenEnd(p \o q, 1) = e
        BY <3>3, TokenStays
      <4>6. t # <<>>
        BY <4>2, <4>3
      <4>7. TokenEnd(t \o u, 1) = Len(t) /\ TokenEnd((t \o u) \o q, 1) = Len(t)
        BY <4>3, <4>5, Zenon DEF e
      <4>8. Agrees(t \o u, q, who, name)
        BY <4>3, <4>4, <4>6, <4>7, AgreesAfter, Zenon
      <4> QED BY <4>3, <4>8, Zenon
    <3> QED BY <3>1, <3>2, <3>3
  <2> QED BY <2>1, <2>2
<1>3. S = Nat
  <2> HIDE DEF S
  <2>1. S \in SUBSET Nat
    BY DEF S
  <2> QED BY <1>1, <1>2, <2>1, Counting
<1>4. ASSUME NEW p \in Bytes PROVE Agrees(p, q, who, name)
  <2>1. Len(p) \in S /\ Len(p) <= Len(p)
    BY <1>3, NumberOf
  <2> QED BY <2>1
<1> QED BY <1>4

-----------------------------------------------------------------------------
(* The side that has the keyboard decides where bytes go, and nothing else.*)

SameChoice(c, d) == c.bytes = d.bytes /\ (c.target = "toggle" <=> d.target = "toggle")

Alike(rs, ss) ==
    /\ rs \in Seq(Choice) /\ ss \in Seq(Choice) /\ Len(rs) = Len(ss)
    /\ \A i \in 1..Len(rs) : SameChoice(rs[i], ss[i])

LEMMA AlikeNone == Alike(<<>>, <<>>)
  BY EmptySeq DEF Alike

LEMMA AlikeCons ==
    ASSUME NEW c \in Choice, NEW d \in Choice, SameChoice(c, d),
           NEW rs, NEW ss, Alike(rs, ss)
    PROVE  Alike(Cons(c, rs), Cons(d, ss))
<1> DEFINE a == Cons(c, rs)
           b == Cons(d, ss)
<1>1. /\ rs \in Seq(Choice) /\ ss \in Seq(Choice) /\ Len(rs) = Len(ss) /\ Len(rs) \in Nat
      /\ \A i \in 1..Len(rs) : SameChoice(rs[i], ss[i])
  BY LenProperties DEF Alike
<1>2. /\ a \in Seq(Choice) /\ Len(a) = Len(rs) + 1 /\ a[1] = c
      /\ \A i \in 1..Len(rs) : a[i + 1] = rs[i]
  BY <1>1, ConsReading DEF Cons
<1>3. /\ b \in Seq(Choice) /\ Len(b) = Len(rs) + 1 /\ b[1] = d
      /\ \A i \in 1..Len(rs) : b[i + 1] = ss[i]
  BY <1>1, ConsReading DEF Cons
<1> HIDE DEF a, b
<1>4. ASSUME NEW i \in 1..Len(a)
      PROVE  SameChoice(a[i], b[i])
  <2>1. CASE i = 1
    BY <1>2, <1>3, <2>1
  <2>2. CASE i # 1
    <3>1. i - 1 \in 1..Len(rs) /\ (i - 1) + 1 = i
      BY <1>1, <1>2, <2>2
    <3> DEFINE k == i - 1
    <3>2. a[i] = rs[k] /\ b[i] = ss[k]
      BY <1>2, <1>3, <3>1
    <3>3. k \in 1..Len(rs)
      BY <3>1
    <3> HIDE DEF k
    <3>4. SameChoice(rs[k], ss[k])
      BY <1>1, <3>3, Zenon
    <3> QED BY <3>2, <3>4, Zenon
  <2> QED BY <2>1, <2>2
<1>5. Alike(a, b)
  BY <1>2, <1>3, <1>4 DEF Alike
<1> QED BY <1>5 DEF a, b

LEMMA AlikeMerged ==
    ASSUME NEW r \in Seq(Choice), NEW rs, NEW ss, Alike(rs, ss)
    PROVE  Merged(r \o rs, OnEitherSide) = Merged(r \o ss, OnEitherSide)
<1> DEFINE a == r \o rs
           b == r \o ss
           n == Len(r)
           m == Len(rs)
           T == Choice
           Of(c, i) == IF c[i].target = "toggle" THEN <<<<"toggle", 0>>>>
                       ELSE [j \in 1..Len(c[i].bytes) |->
                                 <<OnEitherSide[c[i].target], c[i].bytes[j].n>>]
<1>1. /\ r \in Seq(T) /\ rs \in Seq(T) /\ ss \in Seq(T) /\ Len(ss) = m
      /\ \A i \in 1..m : SameChoice(rs[i], ss[i])
  BY DEF Alike
<1>2. n \in Nat /\ m \in Nat
  BY <1>1, LenProperties
<1>3. /\ a \in Seq(T) /\ Len(a) = n + m
      /\ \A i \in 1..n + m : a[i] = IF i <= n THEN r[i] ELSE rs[i - n]
  <2> HIDE DEF T
  <2> QED BY <1>1, ConcatProperties
<1>4. /\ b \in Seq(T) /\ Len(b) = n + m
      /\ \A i \in 1..n + m : b[i] = IF i <= n THEN r[i] ELSE ss[i - n]
  <2>1. Len(ss) = m
    BY <1>1
  <2> HIDE DEF T, m
  <2>2. /\ b \in Seq(T) /\ Len(b) = n + Len(ss)
        /\ \A i \in 1..n + Len(ss) : b[i] = IF i <= n THEN r[i] ELSE ss[i - n]
    BY <1>1, ConcatProperties
  <2> QED BY <2>1, <2>2, Zenon
<1>5. \A i \in 1..n + m : a[i] \in Choice /\ b[i] \in Choice
  <2>1. \A c \in Seq(T) : \A i \in 1..Len(c) : c[i] \in T
    BY ElementOfSeq
  <2> HIDE DEF a, b, m, n, T
  <2>2. \A i \in 1..n + m : a[i] \in T /\ b[i] \in T
    BY <1>3, <1>4, <2>1
  <2> QED BY <2>2 DEF T
<1> HIDE DEF a, b, n, m
<1>6. ASSUME NEW i \in 1..n + m PROVE Of(a, i) = Of(b, i)
  <2>0. SameChoice(a[i], b[i])
    <3>1. CASE i <= n
      <4>1. a[i] = b[i]
        BY <1>3, <1>4, <3>1
      <4> QED BY <4>1 DEF SameChoice
    <3>2. CASE ~(i <= n)
      <4>1. i - n \in 1..m
        BY <1>2, <3>2
      <4> DEFINE k == i - n
      <4>2. a[i] = rs[k] /\ b[i] = ss[k]
        BY <1>3, <1>4, <3>2
      <4>3. k \in 1..m
        BY <4>1
      <4> HIDE DEF k
      <4>4. SameChoice(rs[k], ss[k])
        BY <1>1, <4>3, Zenon
      <4> QED BY <4>2, <4>4, Zenon
    <3> QED BY <3>1, <3>2
  <2>1. a[i].bytes = b[i].bytes /\ (a[i].target = "toggle" <=> b[i].target = "toggle")
    BY <2>0 DEF SameChoice
  <2>2. a[i].target # "toggle" => a[i].target \in Side /\ b[i].target \in Side
    BY <1>5, <2>1 DEF Choice, Side
  <2>3. \A t \in Side : OnEitherSide[t] = "either"
    BY DEF OnEitherSide, Side
  <2>4. CASE a[i].target = "toggle"
    BY <2>1, <2>4
  <2>5. CASE a[i].target # "toggle"
    <3>1. /\ OnEitherSide[a[i].target] = "either" /\ OnEitherSide[b[i].target] = "either"
          /\ b[i].target # "toggle"
      BY <2>1, <2>2, <2>3, <2>5
    <3> QED BY <2>1, <2>5, <3>1
  <2> QED BY <2>4, <2>5
<1>7. Merged(a, OnEitherSide) = FlattenSeq([i \in 1..n + m |-> Of(a, i)])
  BY <1>3 DEF Merged
<1>8. Merged(b, OnEitherSide) = FlattenSeq([i \in 1..n + m |-> Of(b, i)])
  BY <1>4 DEF Merged
<1> HIDE DEF Of
<1>9. [i \in 1..n + m |-> Of(a, i)] = [i \in 1..n + m |-> Of(b, i)]
  BY <1>6, Zenon
<1>10. Merged(a, OnEitherSide) = Merged(b, OnEitherSide)
  BY <1>7, <1>8, <1>9, Zenon
<1> QED BY <1>10 DEF a, b

(* By induction on the number of bytes.                                    *)
LEMMA FeedAlike ==
    ASSUME NEW who \in Side, NEW she \in Side
    PROVE  \A buf \in Bytes : /\ Alike(Feed(buf, who).results, Feed(buf, she).results)
                              /\ Feed(buf, who).escBuf = Feed(buf, she).escBuf
<1> DEFINE Same(buf) == /\ Alike(Feed(buf, who).results, Feed(buf, she).results)
                        /\ Feed(buf, who).escBuf = Feed(buf, she).escBuf
           S == {k \in Nat : \A buf \in Bytes : Len(buf) <= k => Same(buf)}
<1>1. ASSUME NEW buf \in Bytes, buf = <<>> \/ TokenEnd(buf, 1) = 0 PROVE Same(buf)
  <2>1. Feed(buf, who) = Parsed(<<>>, buf) /\ Feed(buf, she) = Parsed(<<>>, buf)
    BY <1>1, FeedNone, FeedKept
  <2>2. /\ Feed(buf, who).results = <<>> /\ Feed(buf, she).results = <<>>
        /\ Feed(buf, who).escBuf = buf /\ Feed(buf, she).escBuf = buf
    BY <2>1, ParsedReading
  <2> QED BY <2>2, AlikeNone, Zenon
<1>2. ASSUME NEW t \in Bytes, NEW u \in Bytes, t # <<>>, TokenEnd(t \o u, 1) = Len(t), Same(u)
      PROVE  Same(t \o u)
  <2> DEFINE a == Feed(u, who).results
             b == Feed(u, she).results
             c == Chosen(t, who)
             d == Chosen(t, she)
             s == t \o u
  <2>1. /\ Feed(s, who) = Parsed(Cons(c, a), Feed(u, who).escBuf)
        /\ Feed(s, she) = Parsed(Cons(d, b), Feed(u, she).escBuf)
    BY <1>2, FeedFirst
  <2>2. c \in Choice /\ d \in Choice
    BY ChosenIs
  <2>3. SameChoice(c, d)
    BY DEF SameChoice, Chosen, Result, Side
  <2>4. Alike(a, b) /\ Feed(u, who).escBuf = Feed(u, she).escBuf
    BY <1>2
  <2> HIDE DEF a, b, c, d, s
  <2>5. Alike(Cons(c, a), Cons(d, b))
    BY <2>2, <2>3, <2>4, AlikeCons
  <2>6. /\ Feed(s, who).results = Cons(c, a) /\ Feed(s, she).results = Cons(d, b)
        /\ Feed(s, who).escBuf = Feed(u, who).escBuf
        /\ Feed(s, she).escBuf = Feed(u, she).escBuf
    <3> DEFINE x == Feed(u, who).escBuf
               y == Feed(u, she).escBuf
               k == Cons(c, a)
               m == Cons(d, b)
    <3>1. Feed(s, who) = Parsed(k, x) /\ Feed(s, she) = Parsed(m, y)
      BY <2>1
    <3> HIDE DEF x, y, k, m
    <3>2. Feed(s, who).results = k /\ Feed(s, who).escBuf = x
      BY <3>1, ParsedReading
    <3>3. Feed(s, she).results = m /\ Feed(s, she).escBuf = y
      BY <3>1, ParsedReading
    <3> QED BY <3>2, <3>3 DEF x, y, k, m
  <2>7. Same(s)
    BY <2>4, <2>5, <2>6, Zenon
  <2> QED BY <2>7 DEF s
<1> HIDE DEF Same
<1>3. 0 \in S
  <2>1. ASSUME NEW buf \in Bytes, Len(buf) <= 0 PROVE Same(buf)
    <3>1. buf = <<>>
      BY <2>1, EmptySeq DEF Bytes
    <3> QED BY <1>1, <3>1
  <2> QED BY <2>1
<1>4. ASSUME NEW k \in S PROVE k + 1 \in S
  <2>1. k \in Nat /\ \A buf \in Bytes : Len(buf) <= k => Same(buf)
    OBVIOUS
  <2>2. ASSUME NEW p \in Bytes, Len(p) <= k + 1 PROVE Same(p)
    <3> DEFINE e == TokenEnd(p, 1)
               t == SubSeq(p, 1, e)
               u == SubSeq(p, e + 1, Len(p))
    <3>1. CASE p = <<>> \/ e = 0
      BY <1>1, <3>1
    <3>2. CASE p # <<>> /\ e # 0
      <4>1. Len(p) \in Nat \ {0}
        BY <3>2, EmptySeq DEF Bytes
      <4>2. e \in 1..Len(p)
        <5>1. 1 \in 1..Len(p)
          BY <4>1
        <5> QED BY <3>2, <5>1, TokenEndType
      <4>3. t \in Bytes /\ u \in Bytes /\ t \o u = p /\ Len(t) = e /\ Len(u) = Len(p) - e
        <5>1. 1 \in 1..Len(p) + 1 /\ e \in 1 - 1..Len(p) /\ e - 1 + 1 = e
          BY <4>1, <4>2
        <5>2. SubSeq(p, 1, Len(p)) = p
          BY SubSeqFull DEF Bytes
        <5> HIDE DEF e
        <5> QED BY <5>1, <5>2, Divided
      <4> HIDE DEF t, u
      <4>4. Same(u)
        <5>1. Len(u) <= k
          BY <2>1, <2>2, <4>1, <4>2, <4>3
        <5> QED BY <2>1, <4>3, <5>1
      <4>5. t # <<>>
        BY <4>2, <4>3
      <4>6. TokenEnd(t \o u, 1) = Len(t)
        BY <4>3, Zenon DEF e
      <4> QED BY <1>2, <4>3, <4>4, <4>5, <4>6, Zenon
    <3> QED BY <3>1, <3>2
  <2> QED BY <2>1, <2>2
<1>5. S = Nat
  <2> HIDE DEF S
  <2>1. S \in SUBSET Nat
    BY DEF S
  <2> QED BY <1>3, <1>4, <2>1, Counting
<1>6. ASSUME NEW p \in Bytes PROVE Same(p)
  <2>1. Len(p) \in S /\ Len(p) <= Len(p)
    BY <1>5, NumberOf
  <2> QED BY <2>1
<1> QED BY <1>6 DEF Same

(* Two reads, the second by whoever has the keyboard then.                 *)
LEMMA ReadsAgree ==
    ASSUME NEW p \in Bytes, NEW q \in Bytes, NEW who \in Side, NEW she \in Side
    PROVE  LET first  == Feed(p, who)
               second == Feed(first.escBuf \o q, she)
               whole  == Feed(p \o q, who)
               both   == first.results \o second.results
           IN  /\ Merged(both, OnEitherSide) = Merged(whole.results, OnEitherSide)
               /\ second.escBuf = whole.escBuf
               /\ she = who => Merged(both, BySide) = Merged(whole.results, BySide)
<1> DEFINE r == Feed(p, who).results
           x == Feed(p, who).escBuf
           s == Feed(x \o q, who)
           v == Feed(x \o q, she)
<1>1. r \in Seq(Choice) /\ x \in Bytes
  BY FeedType
<1>2. x \o q \in Bytes
  BY <1>1, Together
<1>3. Alike(s.results, v.results) /\ s.escBuf = v.escBuf
  BY <1>2, FeedAlike
<1>4. Agrees(p, q, who, OnEitherSide) /\ Agrees(p, q, who, BySide)
  BY Names, CutAnywhere
<1>5. Merged(r \o s.results, OnEitherSide) = Merged(r \o v.results, OnEitherSide)
  BY <1>1, <1>3, AlikeMerged
<1> QED BY <1>3, <1>4, <1>5, Zenon DEF Agrees

LEMMA RoutedWithoutCuts == ASSUME Routing, FocusKnown PROVE CutsDoNotMatter
<1>1. escBuf \in Bytes /\ tty \in Bytes /\ focus \in Side
  BY DEF Routing, Arranged, FocusKnown, Side
<1>2. \A rs : FocusAfter(rs) \in Side
  BY <1>1 DEF FocusAfter, OtherSide, Side
<1>3. ASSUME NEW k \in 1..Len(tty)
      PROVE  /\ escBuf \o SubSeq(tty, 1, k) \in Bytes
             /\ SubSeq(tty, k + 1, Len(tty)) \in Bytes
             /\ (escBuf \o SubSeq(tty, 1, k)) \o SubSeq(tty, k + 1, Len(tty)) = escBuf \o tty
  <2> DEFINE a == SubSeq(tty, 1, k)
             b == SubSeq(tty, k + 1, Len(tty))
  <2>1. a \in Bytes /\ b \in Bytes /\ a \o b = tty
    <3>1. 1 \in 1..Len(tty) + 1 /\ k \in 1 - 1..Len(tty)
      BY <1>1, NumberOf
    <3>2. SubSeq(tty, 1, Len(tty)) = tty
      BY <1>1, SubSeqFull DEF Bytes
    <3> QED BY <1>1, <3>1, <3>2, Divided
  <2> HIDE DEF a, b
  <2>2. escBuf \o a \in Bytes /\ (escBuf \o a) \o b = escBuf \o (a \o b)
    <3>1. escBuf \o a \in Bytes
      BY <1>1, <2>1, Together
    <3>2. escBuf \in Bytes /\ a \in Bytes /\ b \in Bytes
      BY <1>1, <2>1
    <3>3. (escBuf \o a) \o b = escBuf \o (a \o b)
      BY <3>2, BytesAssociative, Zenon
    <3> QED BY <3>1, <3>3, Zenon
  <2>3. escBuf \o a \in Bytes /\ b \in Bytes /\ (escBuf \o a) \o b = escBuf \o tty
    BY <2>1, <2>2, Zenon
  <2> QED BY <2>3 DEF a, b
<1>4. ASSUME NEW k \in 1..Len(tty)
      PROVE  LET p      == escBuf \o SubSeq(tty, 1, k)
                 q      == SubSeq(tty, k + 1, Len(tty))
                 first  == Feed(p, focus)
                 later  == FocusAfter(first.results)
                 second == Feed(first.escBuf \o q, later)
                 whole  == Feed(p \o q, focus)
                 both   == first.results \o second.results
             IN  /\ Merged(both, OnEitherSide) = Merged(whole.results, OnEitherSide)
                 /\ second.escBuf = whole.escBuf
                 /\ later = focus => Merged(both, BySide) = Merged(whole.results, BySide)
  <2> DEFINE p == escBuf \o SubSeq(tty, 1, k)
             q == SubSeq(tty, k + 1, Len(tty))
             she == FocusAfter(Feed(p, focus).results)
  <2>1. p \in Bytes /\ q \in Bytes /\ focus \in Side /\ she \in Side
    BY <1>1, <1>2, <1>3
  <2> HIDE DEF p, q, she
  <2>2. LET first  == Feed(p, focus)
            second == Feed(first.escBuf \o q, she)
            whole  == Feed(p \o q, focus)
            both   == first.results \o second.results
        IN  /\ Merged(both, OnEitherSide) = Merged(whole.results, OnEitherSide)
            /\ second.escBuf = whole.escBuf
            /\ she = focus => Merged(both, BySide) = Merged(whole.results, BySide)
    BY <2>1, ReadsAgree
  <2> QED BY <2>2 DEF p, q, she
<1> QED BY <1>3, <1>4, Zenon DEF CutsDoNotMatter

(* Where the reads cut the bytes changes no key, no toggle and nothing that*)
(* is kept, whatever keys are typed and however long; nor the side the     *)
(* bytes go to, if the F4 read before the cut leave the keyboard where it  *)
(* was (input_router.py:50-125, test_input_router.py:64-77).               *)
THEOREM ReadsMayCut == Spec => []CutsDoNotMatter
<1>1. RInv => FocusKnown
  BY DEF RInv
<1>2. Init => RInv /\ Routing
  BY InitRInv, InitRouting
<1>3. (RInv /\ Routing) /\ [Next]_vars => (RInv /\ Routing)'
  BY <1>1, RenderStep, RoutingStep
<1>4. RInv /\ Routing => CutsDoNotMatter
  BY <1>1, RoutedWithoutCuts
<1> QED BY <1>2, <1>3, <1>4, PTL DEF Spec
=============================================================================
