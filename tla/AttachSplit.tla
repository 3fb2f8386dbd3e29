----------------------------- MODULE AttachSplit ----------------------------
(***************************************************************************)
(* The terminal of an attached viewer with its chat panel: _ViewerSession  *)
(* and the loop of attach in src/adapters/cli/main.py, on the InputRouter, *)
(* ChatPanel, SplitRenderer and VTScreen of                                *)
(* src/infrastructure/terminal_engine/.  The connection is a healthy one;  *)
(* its failures are in ViewerCommands.                                     *)
(*                                                                         *)
(* The loop and the callbacks share one asyncio loop: a callback runs only *)
(* while the loop is suspended.  Outputs are counted; the bytes of the     *)
(* keyboard are numbered in the order in which they are typed.  The screen *)
(* is reduced to one line of the left pane, one line of the right one and  *)
(* the cursor.                                                             *)
(***************************************************************************)
EXTENDS InputRouter, SequencesExt

CONSTANTS
    Key,        \* the keys: sequences of classes of bytes
    Size,       \* the sizes a terminal may have
    MaxKeys, MaxOutput, MaxChat, MaxResizes  \* bounds, for TLC

ASSUME BoundAssumption == /\ MaxKeys \in Nat /\ MaxOutput \in Nat
                          /\ MaxChat \in Nat /\ MaxResizes \in Nat
ASSUME KeyAssumption == Key \subseteq Seq(STRING)

VARIABLES
    nKeys, nTyped, \* numbers of keys and of bytes typed
    tty,           \* bytes typed and not yet read
    loop,          \* where _viewer_loop is; suspended unless "handling"
    results,       \* routing decisions that handle_input has left
    escBuf, focus, \* of the router
    sent,          \* bytes sent to the host
    toPanel,       \* bytes given to the panel
    toggles,       \* number of F4 recognised
    chatActive,    \* _chat_active
    line,          \* ChatPanel._input_buffer
    outgoing,      \* the text being sent as a chat message
    messages,      \* ChatPanel._messages: "eu" or "other"
    nChat,         \* number of messages received
    chatDirty,     \* ChatPanel._dirty
    fed,           \* number of outputs fed to the VTScreen
    vtDirty,       \* VTScreen._dirty
    vtSize,        \* the size of the VTScreen, NoSize before there is one
    size,          \* the size the renderer has
    rendererFocus, \* SplitRenderer._focus
    frame,         \* SplitRenderer._prev_frame
    shown,         \* what the terminal shows of the split
    termSize,      \* the size of the terminal
    nResizes,      \* number of resizes
    winch          \* a SIGWINCH is to be handled

keyboard == <<nKeys, nTyped, tty>>
router == <<results, escBuf, focus>>
history == <<sent, toPanel, toggles>>
panel == <<line, outgoing, messages, nChat>>
vt == <<fed, vtSize>>
dirty == <<vtDirty, chatDirty>>
picture == <<frame, shown>>
renderer == <<size, rendererFocus>>
terminal == <<termSize, nResizes, winch>>
vars == <<nKeys, nTyped, tty, loop, results, escBuf, focus, sent, toPanel, toggles,
          chatActive, line, outgoing, messages, nChat, chatDirty, fed,
          vtDirty, vtSize, size, rendererFocus, frame, shown, termSize, nResizes,
          winch>>

NoSize == 0
NoFrame == [left |-> <<>>, right |-> <<>>, cursor |-> <<>>]
Overwritten == <<"overwritten">>

Init ==
    /\ nKeys = 0 /\ nTyped = 0 /\ tty = <<>>
    /\ loop = "handshake" /\ results = <<>> /\ escBuf = <<>> /\ focus = "terminal"
    /\ sent = <<>> /\ toPanel = <<>> /\ toggles = 0
    /\ chatActive = FALSE /\ line = <<>> /\ outgoing = <<>> /\ messages = <<>>
    /\ nChat = 0 /\ chatDirty = FALSE
    /\ fed = 0 /\ vtDirty = FALSE /\ vtSize = NoSize /\ size = NoSize
    /\ rendererFocus = "terminal" /\ frame = NoFrame /\ shown = NoFrame
    /\ termSize \in Size /\ nResizes = 0 /\ winch = FALSE

Suspended == loop \in {"handshake", "reading", "sending", "flushing"}

-----------------------------------------------------------------------------
(* SplitRenderer.render: nothing unless something is dirty; a line that has*)
(* not changed since the former frame is not drawn again.  A line stands   *)
(* for what determines it.                                                 *)
ScreenLine == <<fed, vtSize, size>>
PanelLine == <<messages, line, size>>
Frame == [left |-> ScreenLine, right |-> PanelLine, cursor |-> <<rendererFocus>>]

Redrawn(all, new) ==
    [p \in DOMAIN new |-> IF all \/ p = "cursor" \/ frame[p] # new[p]
                          THEN new[p] ELSE shown[p]]

Render(force, isDirty) ==
    IF force \/ isDirty
    THEN /\ frame' = Frame' /\ vtDirty' = FALSE /\ chatDirty' = FALSE
         /\ shown' = Redrawn(force \/ frame = NoFrame, Frame')
    ELSE UNCHANGED <<frame, shown, vtDirty, chatDirty>>

(* _ensure_vt: a VTScreen of the size the terminal has at that moment.     *)
EnsureVt == vtSize' = IF vtSize = NoSize THEN termSize ELSE vtSize

(* _activate_chat, up to its render.                                       *)
ActivateChat ==
    /\ chatActive' = TRUE /\ size' = termSize /\ rendererFocus' = "terminal"
    /\ line' = <<>>
    /\ EnsureVt

-----------------------------------------------------------------------------
(* The callbacks and the signal handler.                                   *)

OnOutput ==
    /\ Suspended /\ fed < MaxOutput
    /\ EnsureVt
    /\ fed' = fed + 1 /\ vtDirty' = TRUE
    /\ UNCHANGED <<keyboard, loop, router, history, chatActive, panel, chatDirty,
                   picture, renderer, terminal>>

OnChat ==
    /\ Suspended /\ nChat < MaxChat
    /\ nChat' = nChat + 1
    /\ messages' = Append(messages, "other")
    /\ IF chatActive
       THEN UNCHANGED <<chatActive, size, rendererFocus, line, vtSize>>
       ELSE ActivateChat
    /\ UNCHANGED <<keyboard, loop, router, history, outgoing, fed,
                   terminal>>
    /\ Render(~chatActive, TRUE)

(* The terminal is resized; the handler is installed after the handshake.  *)
Resize ==
    /\ nResizes < MaxResizes
    /\ nResizes' = nResizes + 1
    /\ termSize' \in Size \ {termSize}
    /\ winch' = (loop # "handshake")
    /\ UNCHANGED <<keyboard, loop, router, history, chatActive, panel, vt, dirty,
                   picture, renderer>>

HandleResize ==
    /\ Suspended /\ winch
    /\ winch' = FALSE
    /\ UNCHANGED <<keyboard, loop, router, history, chatActive, panel, fed,
                   rendererFocus, termSize, nResizes>>
    /\ IF chatActive
       THEN /\ vtSize' = termSize /\ size' = termSize
            /\ Render(TRUE, TRUE)
       ELSE UNCHANGED <<vtSize, size, picture, dirty>>

Callback == OnOutput \/ OnChat \/ HandleResize

-----------------------------------------------------------------------------
(* _viewer_loop.                                                           *)

(* The host has answered: a status message, written where the cursor is,   *)
(* and the buffered output unless the chat is open.                        *)
HandshakeEnds ==
    /\ loop = "handshake" /\ fed > 0
    /\ loop' = "reading"
    /\ shown' = IF chatActive THEN [shown EXCEPT !.left = Overwritten] ELSE shown
    /\ UNCHANGED <<keyboard, router, history, chatActive, panel, vt, dirty, frame,
                   renderer, terminal>>

(* Mutant: what the router keeps is forgotten when more is read.           *)
ReadOnly(data) == data

Joined(data) == escBuf \o data

Toggles(rs) == Cardinality({i \in DOMAIN rs : rs[i].target = "toggle"})

(* A read of some of the bytes typed, which are cut and routed at once.    *)
Read ==
    /\ loop = "reading" /\ tty # <<>>
    /\ \E n \in 1..Len(tty) :
          LET parsed == Feed(Joined(SubSeq(tty, 1, n)), focus)
          IN /\ results' = parsed.results /\ escBuf' = parsed.escBuf
             /\ toggles' = toggles + Toggles(parsed.results)
             /\ tty' = SubSeq(tty, n + 1, Len(tty))
    /\ loop' = "handling"
    /\ UNCHANGED <<nKeys, nTyped, focus, sent, toPanel, chatActive, panel, vt, dirty,
                   picture, renderer, terminal>>

(* Mutants: output alone is not rendered; nothing is flushed.              *)
RenderPanelIfDirty == IF chatActive THEN Render(FALSE, chatDirty)
                                    ELSE UNCHANGED <<dirty, picture>>
NeverKept == FALSE

Kept == escBuf # <<>>

(* render_if_dirty.                                                        *)
RenderIfDirty == IF chatActive THEN Render(FALSE, vtDirty \/ chatDirty)
                               ELSE UNCHANGED <<dirty, picture>>

(* A read that times out: what the router has kept goes where the focus is.*)
FlushAfterTimeout ==
    /\ loop = "reading" /\ tty = <<>>
    /\ UNCHANGED <<keyboard, results, focus, toggles, chatActive, panel, vt, renderer,
                   terminal>>
    /\ IF ~Kept
       THEN UNCHANGED <<escBuf, sent, toPanel, loop>> /\ RenderIfDirty
       ELSE /\ escBuf' = <<>>
            /\ \/ /\ focus = "terminal"
                  /\ sent' = sent \o escBuf /\ loop' = "flushing"
                  /\ UNCHANGED <<toPanel, dirty, picture>>
               \/ /\ focus = "chat"
                  /\ toPanel' = toPanel \o escBuf
                  /\ UNCHANGED <<sent, loop>> /\ RenderIfDirty

(* The end of the await on the send, and of a turn of the loop.            *)
EndOfTurn ==
    /\ \/ loop = "flushing"
       \/ loop = "handling" /\ results = <<>>
    /\ loop' = "reading"
    /\ UNCHANGED <<keyboard, router, history, chatActive, panel, vt, renderer, terminal>>
    /\ RenderIfDirty

(* Mutant: the renderer is not told of the focus.                          *)
KeepsCursor(f) == rendererFocus

CursorAt(f) == f

(* InputRouter.toggle_focus.                                               *)
OtherSide(f) == IF f = "terminal" THEN "chat" ELSE "terminal"

(* The decisions of handle_input, one after the other.                     *)
HandleToggle ==
    /\ loop = "handling" /\ results # <<>> /\ Head(results).target = "toggle"
    /\ results' = Tail(results)
    /\ UNCHANGED <<keyboard, loop, escBuf, history, outgoing, messages, nChat, fed, terminal>>
    /\ IF chatActive
       THEN /\ focus' = OtherSide(focus)
            /\ rendererFocus' = CursorAt(focus')
            /\ UNCHANGED <<chatActive, size, line, vtSize>>
       ELSE /\ ActivateChat
            /\ UNCHANGED focus
    /\ Render(TRUE, TRUE)

HandleTerminal ==
    /\ loop = "handling" /\ results # <<>> /\ Head(results).target = "terminal"
    /\ sent' = sent \o Head(results).bytes
    /\ results' = Tail(results)
    /\ loop' = "sending"
    /\ UNCHANGED <<keyboard, escBuf, focus, toPanel, toggles, chatActive, panel, vt,
                   dirty, picture, renderer, terminal>>

(* ChatPanel.handle_key of one byte: Enter and Ctrl-C ("intr") empty the   *)
(* line, Backspace takes its last byte, an ESC is ignored.                 *)
Edited(b) ==
    CASE b.c \in {"cr", "intr"} -> <<>>
      [] b.c = "del"            -> SubSeq(line, 1, Len(line) - 1)
      [] b.c = "esc"            -> line
      [] OTHER                  -> Append(line, b.c)

HandleChatKey ==
    LET r == Head(results)
        b == Head(r.bytes)
    IN
    /\ loop = "handling" /\ results # <<>> /\ r.target = "chat" /\ r.bytes # <<>>
    /\ toPanel' = Append(toPanel, b)
    /\ results' = <<Result("chat", Tail(r.bytes))>> \o Tail(results)
    /\ line' = Edited(b)
    /\ chatDirty' = (chatDirty \/ Edited(b) # line)
    /\ IF b.c = "cr" /\ line # <<>>
       THEN outgoing' = line /\ loop' = "sending"
       ELSE UNCHANGED <<outgoing, loop>>
    /\ UNCHANGED <<keyboard, escBuf, focus, sent, toggles, chatActive, messages, nChat,
                   vt, vtDirty, picture, renderer, terminal>>

(* The chunk has been given to the panel.                                  *)
ChatChunkEnds ==
    /\ loop = "handling" /\ results # <<>>
    /\ Head(results).target = "chat" /\ Head(results).bytes = <<>>
    /\ results' = Tail(results)
    /\ UNCHANGED <<keyboard, loop, escBuf, focus, history, chatActive, panel, vt,
                   renderer, terminal>>
    /\ Render(FALSE, vtDirty \/ chatDirty)

(* The end of an await on send_input or send_chat: a message of the user's *)
(* own is added to the panel after it has been sent.                       *)
Resume ==
    /\ loop = "sending"
    /\ loop' = "handling"
    /\ IF outgoing # <<>>
       THEN messages' = Append(messages, "eu") /\ chatDirty' = TRUE /\ outgoing' = <<>>
       ELSE UNCHANGED <<messages, chatDirty, outgoing>>
    /\ UNCHANGED <<keyboard, router, history, chatActive, line, nChat, vt,
                   vtDirty, picture, renderer, terminal>>

Turn == \/ Read \/ FlushAfterTimeout \/ EndOfTurn
        \/ HandleToggle \/ HandleTerminal \/ HandleChatKey \/ ChatChunkEnds \/ Resume

(* The user types.                                                         *)
TypeKey(k) ==
    /\ loop # "handshake" /\ nKeys < MaxKeys
    /\ nKeys' = nKeys + 1 /\ nTyped' = nTyped + Len(k)
    /\ tty' = tty \o [i \in 1..Len(k) |-> [c |-> k[i], n |-> nTyped + i]]
    /\ UNCHANGED <<loop, router, history, chatActive, panel, vt, dirty, picture,
                   renderer, terminal>>

Next == \/ Callback \/ Resize \/ HandshakeEnds \/ Turn
        \/ \E k \in Key : TypeKey(k)

Spec == Init /\ [][Next]_vars

(* The wait for the host polls, and the loop's reads and sends end (a read *)
(* after 50 ms).                                                           *)
Fairness == WF_vars(HandshakeEnds) /\ WF_vars(Turn) /\ WF_vars(HandleResize)
FairSpec == Spec /\ Fairness

-----------------------------------------------------------------------------
(* Properties.                                                             *)

Numbers(s) == {s[i].n : i \in 1..Len(s)}
InOrder(s) == \A i \in 1..Len(s) - 1 : s[i].n < s[i + 1].n
Waiting == FlattenSeq([i \in 1..Len(results) |-> results[i].bytes])

(* A byte typed is in one place and goes to one place, and either side has *)
(* its bytes in the order in which they were typed; those of an F4 that is *)
(* recognised go nowhere (input_router.py:43-125, main.py:512-536).        *)
InputIsRouted ==
    /\ InOrder(sent) /\ InOrder(toPanel) /\ InOrder(Waiting \o escBuf \o tty)
    /\ Numbers(sent) \cap Numbers(toPanel) = {}
    /\ Len(sent) + Len(toPanel) + Len(Waiting) + Len(escBuf) + Len(tty) + 3 * toggles
         = nTyped

(* The bytes decided upon, each with what "name" calls its side, and the   *)
(* toggles, in order.                                                      *)
Merged(rs, name) ==
    FlattenSeq([i \in 1..Len(rs) |->
        IF rs[i].target = "toggle" THEN <<<<"toggle", 0>>>>
        ELSE [j \in 1..Len(rs[i].bytes) |-> <<name[rs[i].target], rs[i].bytes[j].n>>]])

BySide == [t \in {"terminal", "chat"} |-> t]
OnEitherSide == [t \in {"terminal", "chat"} |-> "either"]

(* Where the keyboard is when these decisions have been handled: the first *)
(* F4 opens the chat and leaves it where it is, every other one turns it.  *)
FocusAfter(rs) ==
    LET turns == IF chatActive \/ Toggles(rs) = 0 THEN Toggles(rs) ELSE Toggles(rs) - 1
    IN IF turns % 2 = 0 THEN focus ELSE OtherSide(focus)

(* Where the reads cut the bytes changes no key, no toggle and nothing that*)
(* is kept (test_input_router.py:64-77).  It changes the side the rest goes*)
(* to only when an F4 before the cut moves the focus: the decisions of one *)
(* read are all taken with the focus before it (input_router.py:84, 122),  *)
(* main.py:518 turns the focus after them.                                 *)
CutsDoNotMatter ==
    \A k \in 1..Len(tty) :
        LET whole  == Feed(escBuf \o tty, focus)
            first  == Feed(escBuf \o SubSeq(tty, 1, k), focus)
            later  == FocusAfter(first.results)
            second == Feed(first.escBuf \o SubSeq(tty, k + 1, Len(tty)), later)
            both   == first.results \o second.results
        IN /\ Merged(both, OnEitherSide) = Merged(whole.results, OnEitherSide)
           /\ second.escBuf = whole.escBuf
           /\ later = focus => Merged(both, BySide) = Merged(whole.results, BySide)

(* When nothing is dirty, the last frame is that of the present state, and *)
(* the terminal shows it, a line apart that somebody else has written over;*)
(* the cursor is in the pane that has the keyboard (split_renderer.py:     *)
(* 83-151, main.py:512-546).                                               *)
RenderedIsCurrent ==
    chatActive /\ Suspended =>
        /\ frame.cursor = <<focus>> /\ shown.cursor = frame.cursor
        /\ ~vtDirty /\ ~chatDirty =>
               /\ frame = Frame
               /\ shown.right = frame.right /\ shown.left \in {frame.left, Overwritten}

TypeOK ==
    /\ nKeys \in 0..MaxKeys /\ nTyped \in Nat /\ toggles \in Nat
    /\ loop \in {"handshake", "reading", "handling", "sending", "flushing"}
    /\ focus \in {"terminal", "chat"} /\ rendererFocus \in {"terminal", "chat"}
    /\ focus = "chat" \/ line # <<>> => chatActive
    /\ chatActive => vtSize # NoSize /\ size # NoSize
    /\ termSize \in Size /\ winch \in BOOLEAN
    /\ {vtDirty, chatDirty, chatActive} \subseteq BOOLEAN

(* Output that has arrived is shown in the split without a key being typed,*)
(* by the turns of the loop whose reads time out (main.py:738-748).        *)
OutputIsShown ==
    \A n \in 1..MaxOutput :
        fed >= n /\ chatActive ~> frame.left # <<>> /\ frame.left[1] >= n

(* All that has been typed is delivered when the user pauses, an incomplete*)
(* sequence included (main.py:738-743).                                    *)
KeysArrive == []<>(Len(sent) + Len(toPanel) + 3 * toggles = nTyped)
=============================================================================
