------------------------ MODULE ViewerCommandsProofs ------------------------
(***************************************************************************)
(* The safety of the remote commands, for any numbers of outputs, messages *)
(* and keys: types, an attached screen that shows what has arrived, and a  *)
(* handshake that does not give up on a host that is there.                *)
(***************************************************************************)
EXTENDS ViewerCommands, SequenceTheorems, TLAPS

Waiting == {"entering", "checking", "sleeping"}
UpTo(n) == [i \in 1..n |-> i]

(* Before connect() nothing has happened.                                  *)
NothingBefore ==
    vpc = "start" =>
        /\ conn = "none" /\ task = "none" /\ up = <<>> /\ down = <<>> /\ toHost = <<>>
        /\ shown = <<>> /\ buffer = <<>> /\ received = 0 /\ nOutput = 0
        /\ gotOutput = FALSE

(* The frames d on their way to a viewer that has received r of the n      *)
(* outputs sent carry the numbers after r up to n: g counts the outputs up *)
(* to each frame.                                                          *)
Frame == {"output", "chat", "error"} \X Nat
Counts(g, d) ==
    \A i \in 1..Len(d) :
        IF d[i][1] = "output" THEN g[i] = g[i - 1] + 1 /\ d[i][2] = g[i]
                              ELSE g[i] = g[i - 1]
Counted(d, r, n) ==
    \E g \in [0..Len(d) -> Nat] : g[0] = r /\ g[Len(d)] = n /\ Counts(g, d)
Numbered == vpc # "ended" => Counted(down, received, nOutput)

(* attach buffers until its handshake ends, and nothing after it.          *)
BufferedThenShown ==
    cmd = "attach" =>
        /\ vpc \in Waiting => buffering /\ shown = <<>> /\ buffer = UpTo(received)
        /\ vpc = "using" => /\ ~buffering
                            /\ ~chatOpen => shown = UpTo(received)

(* A viewer that is connected has joined, or its join comes first; what it *)
(* typed reaches the host after it has joined; and what ends the receive   *)
(* task, a refusal or a lost connection, has closed the connection.        *)
JoinComesFirst ==
    /\ conn = "open" => member \/ (up # <<>> /\ up[1] = "join")
    /\ conn = "open" /\ toHost # <<>> => member
    /\ (\E i \in 1..Len(down) : down[i][1] = "error") => conn = "closed"
    /\ task = "done" /\ vpc \in Waiting => conn = "closed"
    /\ there => hostOn

(* The Enter of attach, or what the host makes of it, is somewhere.        *)
EnterIsAnswered ==
    cmd = "attach" /\ vpc \in {"checking", "sleeping"} /\ conn = "open" /\ there /\ ~suppressed =>
        \/ gotOutput
        \/ \E i \in 1..Len(up) : up[i] = "input"
        \/ toHost # <<>>
        \/ \E i \in 1..Len(down) : down[i][1] = "output"

IInv == /\ TypeOK /\ NothingBefore /\ Numbered /\ BufferedThenShown /\ JoinComesFirst
        /\ EnterIsAnswered /\ AttachFindsHost

-----------------------------------------------------------------------------
(* Numbered frames.                                                        *)

(* Nothing is on its way before an output is sent.                         *)
LEMMA CountedEmpty == Counted(<<>>, 0, 0)
<1> DEFINE g == [i \in 0..Len(<<>>) |-> 0]
<1>1. g \in [0..Len(<<>>) -> Nat] /\ g[0] = 0 /\ g[Len(<<>>)] = 0 /\ Counts(g, <<>>)
  BY DEF Counts
<1> QED
  BY <1>1 DEF Counted

(* The host sends the next output.                                         *)
LEMMA CountedOutput ==
    ASSUME NEW d \in Seq(Frame), NEW r \in Nat, NEW n \in Nat, Counted(d, r, n)
    PROVE  Counted(Append(d, <<"output", n + 1>>), r, n + 1)
<1>1. PICK g \in [0..Len(d) -> Nat] : g[0] = r /\ g[Len(d)] = n /\ Counts(g, d)
  BY DEF Counted
<1> DEFINE f == <<"output", n + 1>>
           e == Append(d, f)
           h == [i \in 0..Len(d) + 1 |-> IF i = Len(d) + 1 THEN n + 1 ELSE g[i]]
<1>2. /\ Len(d) \in Nat /\ Len(e) = Len(d) + 1 /\ e[Len(d) + 1] = f
      /\ \A i \in 1..Len(d) : e[i] = d[i]
  OBVIOUS
<1>3. f[1] = "output" /\ f[2] = n + 1
  OBVIOUS
<1> HIDE DEF e, f
<1>4. h \in [0..Len(e) -> Nat] /\ h[0] = r /\ h[Len(e)] = n + 1
  BY <1>1, <1>2
<1>5. Counts(h, e)
  <2> SUFFICES ASSUME NEW i \in 1..Len(e)
               PROVE  IF e[i][1] = "output" THEN h[i] = h[i - 1] + 1 /\ e[i][2] = h[i]
                                            ELSE h[i] = h[i - 1]
    BY DEF Counts
  <2>1. CASE i = Len(d) + 1
    BY <2>1, <1>1, <1>2, <1>3
  <2>2. CASE i # Len(d) + 1
    <3>1. i \in 1..Len(d) /\ e[i] = d[i] /\ h[i] = g[i] /\ h[i - 1] = g[i - 1]
      BY <2>2, <1>2
    <3> HIDE DEF h
    <3> QED
      BY <3>1, <1>1 DEF Counts
  <2> QED
    BY <2>1, <2>2
<1> QED
  BY <1>4, <1>5, <1>2 DEF Counted, e, f

(* A frame that is no output is sent.                                      *)
LEMMA CountedOther ==
    ASSUME NEW d \in Seq(Frame), NEW r \in Nat, NEW n \in Nat, Counted(d, r, n),
           NEW f \in Frame, f[1] # "output"
    PROVE  Counted(Append(d, f), r, n)
<1>1. PICK g \in [0..Len(d) -> Nat] : g[0] = r /\ g[Len(d)] = n /\ Counts(g, d)
  BY DEF Counted
<1> DEFINE e == Append(d, f)
           h == [i \in 0..Len(d) + 1 |-> IF i = Len(d) + 1 THEN n ELSE g[i]]
<1>2. /\ Len(d) \in Nat /\ Len(e) = Len(d) + 1 /\ e[Len(d) + 1] = f
      /\ \A i \in 1..Len(d) : e[i] = d[i]
  OBVIOUS
<1> HIDE DEF e
<1>4. h \in [0..Len(e) -> Nat] /\ h[0] = r /\ h[Len(e)] = n
  BY <1>1, <1>2
<1>5. Counts(h, e)
  <2> SUFFICES ASSUME NEW i \in 1..Len(e)
               PROVE  IF e[i][1] = "output" THEN h[i] = h[i - 1] + 1 /\ e[i][2] = h[i]
                                            ELSE h[i] = h[i - 1]
    BY DEF Counts
  <2>1. CASE i = Len(d) + 1
    BY <2>1, <1>1, <1>2
  <2>2. CASE i # Len(d) + 1
    <3>1. i \in 1..Len(d) /\ e[i] = d[i] /\ h[i] = g[i] /\ h[i - 1] = g[i - 1]
      BY <2>2, <1>2
    <3> HIDE DEF h
    <3> QED
      BY <3>1, <1>1 DEF Counts
  <2> QED
    BY <2>1, <2>2
<1> QED
  BY <1>4, <1>5, <1>2 DEF Counted, e

(* The first frame is received: an output is the next one.                 *)
LEMMA CountedHead ==
    ASSUME NEW d \in Seq(Frame), NEW r \in Nat, NEW n \in Nat, Counted(d, r, n),
           d # <<>>
    PROVE  IF Head(d)[1] = "output"
           THEN Head(d)[2] = r + 1 /\ Counted(Tail(d), r + 1, n)
           ELSE Counted(Tail(d), r, n)
<1>1. PICK g \in [0..Len(d) -> Nat] : g[0] = r /\ g[Len(d)] = n /\ Counts(g, d)
  BY DEF Counted
<1> DEFINE e == Tail(d)
           h == [i \in 0..Len(d) - 1 |-> g[i + 1]]
<1>2. /\ Len(d) \in Nat \ {0} /\ Len(e) = Len(d) - 1 /\ Head(d) = d[1]
      /\ \A i \in 1..Len(e) : e[i] = d[i + 1]
  BY HeadTailProperties, EmptySeq
<1> HIDE DEF e
<1>3. IF d[1][1] = "output" THEN g[1] = r + 1 /\ d[1][2] = r + 1 ELSE g[1] = r
  <2>1. 1 \in 1..Len(d) /\ 1 - 1 = 0
    BY <1>2
  <2> QED
    BY <2>1, <1>1 DEF Counts
<1>4. h \in [0..Len(e) -> Nat] /\ h[0] = g[1] /\ h[Len(e)] = n
  BY <1>1, <1>2
<1>5. Counts(h, e)
  <2> SUFFICES ASSUME NEW i \in 1..Len(e)
               PROVE  IF e[i][1] = "output" THEN h[i] = h[i - 1] + 1 /\ e[i][2] = h[i]
                                            ELSE h[i] = h[i - 1]
    BY DEF Counts
  <2>1. /\ i + 1 \in 1..Len(d) /\ e[i] = d[i + 1] /\ h[i] = g[i + 1]
        /\ h[i - 1] = g[i] /\ (i + 1) - 1 = i
    BY <1>2
  <2> HIDE DEF h
  <2> QED
    BY <2>1, <1>1 DEF Counts
<1>6. Counted(e, g[1], n)
  BY <1>4, <1>5 DEF Counted
<1> QED
  BY <1>6, <1>3, <1>2 DEF e
-----------------------------------------------------------------------------
(* The frames on their ways.                                               *)

(* What appending to a queue and taking its first element give.            *)
LEMMA SequencesOfFrames ==
    /\ \A s \in Seq({"join", "input", "chat"}) :
          /\ \A f \in {"join", "input", "chat"} : Append(s, f) \in Seq({"join", "input", "chat"})
          /\ s # <<>> => /\ Tail(s) \in Seq({"join", "input", "chat"})
                          /\ Head(s) \in {"join", "input", "chat"}
    /\ \A s \in Seq({"input"}) :
          /\ Append(s, "input") \in Seq({"input"})
          /\ s # <<>> => Tail(s) \in Seq({"input"})
    /\ \A s \in Seq(Frame) :
          /\ \A f \in Frame : Append(s, f) \in Seq(Frame)
          /\ s # <<>> => Tail(s) \in Seq(Frame) /\ Head(s) \in Frame
    /\ \A s, t \in Seq(Nat) :
          s \o t \in Seq(Nat) /\ \A n \in Nat : Append(s, n) \in Seq(Nat)
<1> HIDE DEF Frame
<1> QED
  BY HeadTailProperties, ConcatProperties

(* The frames that the relay sends.                                        *)
LEMMA FramesTyped ==
    /\ \A f \in Frame : f[1] \in {"output", "chat", "error"} /\ f[2] \in Nat
    /\ \A n \in Nat : <<"output", n + 1>> \in Frame
    /\ <<"error", 0>> \in Frame /\ <<"chat", 0>> \in Frame
BY DEF Frame

(* The types in two parts, the queues and the rest.                        *)
Queues ==
    /\ buffer \in Seq(Nat) /\ shown \in Seq(Nat) /\ nOutput \in Nat
    /\ up \in Seq({"join", "input", "chat"}) /\ toHost \in Seq({"input"})
    /\ down \in Seq(Frame)
Control ==
    /\ cmd \in Command
    /\ vpc \in {"start", "closing", "ended"} \cup AwaitsOf(cmd)
    /\ report \in {"none", "no_relay", "no_host", "host_gone", "left", "done", "crashed"}
    /\ conn \in {"none", "open", "closed"} /\ task \in {"none", "running", "done"}
    /\ {gotOutput, buffering, chatOpen, replied, token, known, member, hostOn, there,
        suppressed} \subseteq BOOLEAN
    /\ received \in Nat /\ keys \in Nat /\ nChat \in Nat

(* Together they are the type invariant.                                   *)
LEMMA TypesSplit == TypeOK <=> Queues /\ Control
BY DEF TypeOK, Queues, Control, Frame

(* The queues keep their types.                                            *)
LEMMA QueuesStep == Queues /\ [Next]_vars => Queues'
<1> SUFFICES ASSUME Queues, [Next]_vars PROVE Queues'
  OBVIOUS
<1> USE SequencesOfFrames, FramesTyped DEF Queues, access, ghosts
<1>1. CASE Connect
  BY <1>1 DEF Connect, FirstAwait
<1>2. CASE ConnectFails
  BY <1>2 DEF ConnectFails, client, session, wires, host
<1>3. CASE SendEnter
  BY <1>3 DEF SendEnter, PressesEnter, Sends, session, host
<1>4. CASE HostAnswered
  <2>1. shown' \in Seq(Nat)
    BY <1>4 DEF HostAnswered, ShowsBuffer
  <2>2. buffer' \in Seq(Nat)
    <3>1. buffer' = <<>> \/ buffer' = buffer
      BY <1>4 DEF HostAnswered
    <3>2. <<>> \in Seq(Nat)
      OBVIOUS
    <3> QED
      BY <3>1, <3>2
  <2>3. up' \in Seq({"join", "input", "chat"})
    BY <1>4 DEF HostAnswered, Sends
  <2> QED
    BY <1>4, <2>1, <2>2, <2>3 DEF HostAnswered, wires, host
<1>5. CASE NotYet
  BY <1>5 DEF NotYet, Expires, NothingComes, client, wires, host
<1>6. CASE SleepEnds
  BY <1>6 DEF SleepEnds, client, wires, host
<1>7. CASE OutputSettles
  BY <1>7 DEF OutputSettles, client, session, wires, host
<1>8. CASE SendMessage
  BY <1>8 DEF SendMessage, Sends, session, host
<1>9. CASE ReplyOrTimeout
  BY <1>9 DEF ReplyOrTimeout, client, session, wires, host
<1>10. CASE NoticeEnd
  BY <1>10 DEF NoticeEnd, client, session, wires, host
<1>11. CASE Close
  BY <1>11 DEF Close, session, host
<1>12. CASE TypeKey
  BY <1>12 DEF TypeKey, Sends, session, host
<1>13. CASE OpenChat
  BY <1>13 DEF OpenChat, client, wires, host
<1>14. CASE Leave
  BY <1>14 DEF Leave, client, session, wires, host
<1>15. CASE ReceiveOutput
  BY <1>15 DEF ReceiveOutput, OnOutput, host
<1>16. CASE ReceiveChat
  BY <1>16 DEF ReceiveChat, host
<1>17. CASE TaskEnds
  BY <1>17 DEF TaskEnds, session, host
<1>18. CASE RelayJoins
  <2>1. up' \in Seq({"join", "input", "chat"})
    <3>1. <<>> \in Seq({"join", "input", "chat"})
      OBVIOUS
    <3> QED
      BY <1>18, <3>1 DEF RelayJoins
  <2>2. down' \in Seq(Frame)
    BY <1>18 DEF RelayJoins
  <2> QED
    BY <1>18, <2>1, <2>2 DEF RelayJoins, session, host
<1>19. CASE RelayForwards
  <2>1. hostOn /\ Head(up) # "chat" => Head(up) = "input"
    BY <1>19 DEF RelayForwards
  <2>2. toHost' \in Seq({"input"})
    <3>1. toHost' = Append(toHost, "input") \/ toHost' = toHost
      BY <1>19, <2>1 DEF RelayForwards
    <3> QED
      BY <3>1
  <2>3. up' \in Seq({"join", "input", "chat"})
    BY <1>19 DEF RelayForwards
  <2> QED
    BY <1>19, <2>2, <2>3 DEF RelayForwards, session
<1>20. CASE HostEchoes
  BY <1>20 DEF HostEchoes, ToViewer, client, session
<1>27. CASE HostSuppresses
  BY <1>27 DEF HostSuppresses, client, session, wires
<1>21. CASE HostPrints
  BY <1>21 DEF HostPrints, ToViewer, client, session
<1>22. CASE OthersChat
  BY <1>22 DEF OthersChat, ToViewer, client, session
<1>23. CASE HostLeaves
  BY <1>23 DEF HostLeaves, client, session, wires
<1>24. CASE HostJoins
  BY <1>24 DEF HostJoins, client, session, wires
<1>25. CASE ConnectionLost
  BY <1>25 DEF ConnectionLost, session, host
<1>26. CASE UNCHANGED vars
  BY <1>26 DEF vars
<1> QED
  BY <1>1, <1>2, <1>3, <1>4, <1>5, <1>6, <1>7, <1>8, <1>9, <1>10, <1>11, <1>12,
     <1>13, <1>14, <1>15, <1>16, <1>17, <1>18, <1>19, <1>20, <1>21, <1>22, <1>23,
     <1>24, <1>25, <1>26, <1>27
     DEF Next, Viewer, Handshake, User, Receive, Remote

(* So does the rest, and each command stays in its own awaits.             *)
LEMMA ControlStep == Control /\ [Next]_vars => Control'
<1> SUFFICES ASSUME Control, [Next]_vars PROVE Control'
  OBVIOUS
<1> USE CommandAssumption DEF Control, AwaitsOf, access, ghosts
<1>1. CASE Connect
  BY <1>1 DEF Connect, FirstAwait
<1>2. CASE ConnectFails
  BY <1>2 DEF ConnectFails, client, session, wires, host
<1>3. CASE SendEnter
  BY <1>3 DEF SendEnter, PressesEnter, Sends, session, host
<1>4. CASE HostAnswered
  BY <1>4 DEF HostAnswered, Sends, ShowsBuffer, host
<1>5. CASE NotYet
  BY <1>5 DEF NotYet, Expires, NothingComes, client, wires, host
<1>6. CASE SleepEnds
  BY <1>6 DEF SleepEnds, client, wires, host
<1>7. CASE OutputSettles
  BY <1>7 DEF OutputSettles, client, session, wires, host
<1>8. CASE SendMessage
  BY <1>8 DEF SendMessage, Sends, session, host
<1>9. CASE ReplyOrTimeout
  BY <1>9 DEF ReplyOrTimeout, client, session, wires, host
<1>10. CASE NoticeEnd
  BY <1>10 DEF NoticeEnd, client, session, wires, host
<1>11. CASE Close
  BY <1>11 DEF Close, session, host
<1>12. CASE TypeKey
  BY <1>12 DEF TypeKey, Sends, session, host
<1>13. CASE OpenChat
  BY <1>13 DEF OpenChat, client, wires, host
<1>14. CASE Leave
  BY <1>14 DEF Leave, client, session, wires, host
<1>15. CASE ReceiveOutput
  BY <1>15 DEF ReceiveOutput, OnOutput, host
<1>16. CASE ReceiveChat
  BY <1>16 DEF ReceiveChat, host
<1>17. CASE TaskEnds
  BY <1>17 DEF TaskEnds, session, host
<1>18. CASE RelayJoins
  BY <1>18 DEF RelayJoins, session, host
<1>19. CASE RelayForwards
  BY <1>19 DEF RelayForwards, client, session
<1>20. CASE HostEchoes
  BY <1>20 DEF HostEchoes, ToViewer, client, session
<1>27. CASE HostSuppresses
  BY <1>27 DEF HostSuppresses, client, session, wires
<1>21. CASE HostPrints
  BY <1>21 DEF HostPrints, ToViewer, client, session
<1>22. CASE OthersChat
  BY <1>22 DEF OthersChat, ToViewer, client, session
<1>23. CASE HostLeaves
  BY <1>23 DEF HostLeaves, client, session, wires
<1>24. CASE HostJoins
  BY <1>24 DEF HostJoins, client, session, wires
<1>25. CASE ConnectionLost
  BY <1>25 DEF ConnectionLost, session, host
<1>26. CASE UNCHANGED vars
  BY <1>26 DEF vars
<1> QED
  BY <1>1, <1>2, <1>3, <1>4, <1>5, <1>6, <1>7, <1>8, <1>9, <1>10, <1>11, <1>12,
     <1>13, <1>14, <1>15, <1>16, <1>17, <1>18, <1>19, <1>20, <1>21, <1>22, <1>23,
     <1>24, <1>25, <1>26, <1>27
     DEF Next, Viewer, Handshake, User, Receive, Remote

-----------------------------------------------------------------------------
(* Elements of queues.                                                     *)

(* The elements of a sequence with one more.                               *)
LEMMA Appended ==
    ASSUME NEW S, NEW s \in Seq(S), NEW e \in S
    PROVE  /\ Len(s) \in Nat /\ Len(Append(s, e)) = Len(s) + 1 /\ Append(s, e) # <<>>
           /\ Append(s, e)[Len(s) + 1] = e
           /\ \A i \in 1..Len(s) : Append(s, e)[i] = s[i]
           /\ s # <<>> => Append(s, e)[1] = s[1]
<1>1. /\ Len(s) \in Nat /\ Len(Append(s, e)) = Len(s) + 1
      /\ Append(s, e)[Len(s) + 1] = e
      /\ \A i \in 1..Len(s) : Append(s, e)[i] = s[i]
  OBVIOUS
<1>2. Append(s, e) # <<>>
  <2> SUFFICES ASSUME Append(s, e) = <<>> PROVE FALSE
    OBVIOUS
  <2>1. Len(<<>>) = 0 /\ Len(Append(s, e)) = Len(<<>>)
    OBVIOUS
  <2> QED
    BY <1>1, <2>1
<1>3. s # <<>> => 1 \in 1..Len(s)
  BY EmptySeq
<1> QED
  BY <1>1, <1>2, <1>3

(* An input that is forwarded waits for the host.                          *)
LEMMA InputAppended ==
    ASSUME NEW s \in Seq({"input"})
    PROVE  Append(s, "input") # <<>>
<1>1. "input" \in {"input"}
  OBVIOUS
<1> QED
  BY <1>1, Appended

(* The elements of a sequence without its first.                           *)
LEMMA Rest ==
    ASSUME NEW S, NEW s \in Seq(S), s # <<>>
    PROVE  /\ Len(s) \in Nat /\ Len(Tail(s)) = Len(s) - 1
           /\ 1 \in 1..Len(s) /\ Head(s) = s[1]
           /\ \A i \in 1..Len(s) - 1 : Tail(s)[i] = s[i + 1]
<1>1. Len(s) \in Nat \ {0}
  BY EmptySeq
<1>2. 1 \in 1..Len(s) /\ Head(s) = s[1]
  BY <1>1
<1>3. Len(Tail(s)) = Len(s) - 1 /\ \A i \in 1..Len(Tail(s)) : Tail(s)[i] = s[i + 1]
  BY HeadTailProperties
<1> QED
  BY <1>1, <1>2, <1>3

(* The first outputs in order, and the next one after them.                *)
LEMMA UpToNumbers ==
    /\ UpTo(0) = <<>>
    /\ \A n \in Nat : UpTo(n) \in Seq(Nat) /\ Append(UpTo(n), n + 1) = UpTo(n + 1)
<1>1. ASSUME NEW n \in Nat
      PROVE  UpTo(n) \in Seq(Nat) /\ Len(UpTo(n)) = n /\ \A i \in 1..n : UpTo(n)[i] = i
  BY DEF UpTo
<1>2. UpTo(0) = <<>>
  BY <1>1, EmptySeq
<1>3. ASSUME NEW n \in Nat
      PROVE  Append(UpTo(n), n + 1) = UpTo(n + 1)
  <2> DEFINE a == Append(UpTo(n), n + 1)
  <2>1. a \in Seq(Nat) /\ Len(a) = n + 1
    BY <1>1, Appended
  <2>2. \A i \in 1..n + 1 : a[i] = i
    BY <1>1, Appended
  <2>3. UpTo(n + 1) \in Seq(Nat) /\ Len(UpTo(n + 1)) = n + 1
    BY <1>1
  <2>4. \A i \in 1..n + 1 : UpTo(n + 1)[i] = i
    BY <1>1
  <2> HIDE DEF a
  <2> QED
    BY <2>1, <2>2, <2>3, <2>4, SeqEqual DEF a
<1> QED
  BY <1>1, <1>2, <1>3

(* connect() ends the start of every command.                              *)
LEMMA FirstAwaits ==
    Control => /\ FirstAwait # "start"
               /\ FirstAwait \in Waiting => cmd # "message"
BY CommandAssumption DEF Control, FirstAwait, Waiting

-----------------------------------------------------------------------------
(* The conjuncts of the invariant, one step of the system at a time.       *)

(* Before connect() nothing happens.                                       *)
LEMMA NothingBeforeStep ==
    Queues /\ Control /\ NothingBefore /\ [Next]_vars => NothingBefore'
<1> SUFFICES ASSUME Queues, Control, NothingBefore, [Next]_vars, vpc' = "start"
             PROVE  NothingBefore'
  BY DEF NothingBefore
<1> USE DEF NothingBefore, access, ghosts
<1>1. CASE Connect
  BY <1>1, FirstAwaits DEF Connect
<1>2. CASE ConnectFails
  BY <1>2 DEF ConnectFails, client, session, wires, host
<1>3. CASE SendEnter
  BY <1>3 DEF SendEnter, PressesEnter, Sends, session, host
<1>4. CASE HostAnswered
  BY <1>4 DEF HostAnswered, Sends, ShowsBuffer, host
<1>5. CASE NotYet
  BY <1>5 DEF NotYet, Expires, NothingComes, client, wires, host
<1>6. CASE SleepEnds
  BY <1>6 DEF SleepEnds, client, wires, host
<1>7. CASE OutputSettles
  BY <1>7 DEF OutputSettles, client, session, wires, host
<1>8. CASE SendMessage
  BY <1>8 DEF SendMessage, Sends, session, host
<1>9. CASE ReplyOrTimeout
  BY <1>9 DEF ReplyOrTimeout, client, session, wires, host
<1>10. CASE NoticeEnd
  BY <1>10 DEF NoticeEnd, client, session, wires, host
<1>11. CASE Close
  BY <1>11 DEF Close, session, host
<1>12. CASE TypeKey
  BY <1>12 DEF TypeKey, Sends, session, host
<1>13. CASE OpenChat
  BY <1>13 DEF OpenChat, client, wires, host
<1>14. CASE Leave
  BY <1>14 DEF Leave, client, session, wires, host
<1>15. CASE ReceiveOutput
  BY <1>15 DEF ReceiveOutput, OnOutput, host
<1>16. CASE ReceiveChat
  BY <1>16 DEF ReceiveChat, host
<1>17. CASE TaskEnds
  BY <1>17 DEF TaskEnds, session, host
<1>18. CASE RelayJoins
  BY <1>18 DEF RelayJoins, session, host
<1>19. CASE RelayForwards
  BY <1>19 DEF RelayForwards, client, session
<1>20. CASE HostEchoes
  BY <1>20 DEF HostEchoes, ToViewer, client, session
<1>27. CASE HostSuppresses
  BY <1>27 DEF HostSuppresses, client, session, wires
<1>21. CASE HostPrints
  BY <1>21 DEF HostPrints, ToViewer, client, session
<1>22. CASE OthersChat
  BY <1>22 DEF OthersChat, ToViewer, client, session
<1>23. CASE HostLeaves
  BY <1>23 DEF HostLeaves, client, session, wires
<1>24. CASE HostJoins
  BY <1>24 DEF HostJoins, client, session, wires
<1>25. CASE ConnectionLost
  BY <1>25 DEF ConnectionLost, session, host
<1>26. CASE UNCHANGED vars
  BY <1>26 DEF vars
<1> QED
  BY <1>1, <1>2, <1>3, <1>4, <1>5, <1>6, <1>7, <1>8, <1>9, <1>10, <1>11, <1>12,
     <1>13, <1>14, <1>15, <1>16, <1>17, <1>18, <1>19, <1>20, <1>21, <1>22, <1>23,
     <1>24, <1>25, <1>26, <1>27
     DEF Next, Viewer, Handshake, User, Receive, Remote

(* A command that has ended does not go on.                                *)
LEMMA EndedStays == vpc = "ended" /\ [Next]_vars => vpc' = "ended"
<1> SUFFICES ASSUME vpc = "ended", [Next]_vars PROVE vpc' = "ended"
  OBVIOUS
<1>1. CASE Connect
  BY <1>1 DEF Connect, FirstAwait
<1>2. CASE ConnectFails
  BY <1>2 DEF ConnectFails, client, session, wires, host
<1>3. CASE SendEnter
  BY <1>3 DEF SendEnter, PressesEnter, Sends, session, host
<1>4. CASE HostAnswered
  BY <1>4 DEF HostAnswered, Sends, ShowsBuffer, host
<1>5. CASE NotYet
  BY <1>5 DEF NotYet, Expires, NothingComes, client, wires, host
<1>6. CASE SleepEnds
  BY <1>6 DEF SleepEnds, client, wires, host
<1>7. CASE OutputSettles
  BY <1>7 DEF OutputSettles, client, session, wires, host
<1>8. CASE SendMessage
  BY <1>8 DEF SendMessage, Sends, session, host
<1>9. CASE ReplyOrTimeout
  BY <1>9 DEF ReplyOrTimeout, client, session, wires, host
<1>10. CASE NoticeEnd
  BY <1>10 DEF NoticeEnd, client, session, wires, host
<1>11. CASE Close
  BY <1>11 DEF Close, session, host
<1>12. CASE TypeKey
  BY <1>12 DEF TypeKey, Sends, session, host
<1>13. CASE OpenChat
  BY <1>13 DEF OpenChat, client, wires, host
<1>14. CASE Leave
  BY <1>14 DEF Leave, client, session, wires, host
<1>15. CASE ReceiveOutput
  BY <1>15 DEF ReceiveOutput, OnOutput, host
<1>16. CASE ReceiveChat
  BY <1>16 DEF ReceiveChat, host
<1>17. CASE TaskEnds
  BY <1>17 DEF TaskEnds, session, host
<1>18. CASE RelayJoins
  BY <1>18 DEF RelayJoins, session, host
<1>19. CASE RelayForwards
  BY <1>19 DEF RelayForwards, client, session
<1>20. CASE HostEchoes
  BY <1>20 DEF HostEchoes, ToViewer, client, session
<1>27. CASE HostSuppresses
  BY <1>27 DEF HostSuppresses, client, session, wires
<1>21. CASE HostPrints
  BY <1>21 DEF HostPrints, ToViewer, client, session
<1>22. CASE OthersChat
  BY <1>22 DEF OthersChat, ToViewer, client, session
<1>23. CASE HostLeaves
  BY <1>23 DEF HostLeaves, client, session, wires
<1>24. CASE HostJoins
  BY <1>24 DEF HostJoins, client, session, wires
<1>25. CASE ConnectionLost
  BY <1>25 DEF ConnectionLost, session, host
<1>26. CASE UNCHANGED vars
  BY <1>26 DEF vars
<1> QED
  BY <1>1, <1>2, <1>3, <1>4, <1>5, <1>6, <1>7, <1>8, <1>9, <1>10, <1>11, <1>12,
     <1>13, <1>14, <1>15, <1>16, <1>17, <1>18, <1>19, <1>20, <1>21, <1>22, <1>23,
     <1>24, <1>25, <1>26, <1>27
     DEF Next, Viewer, Handshake, User, Receive, Remote

(* The frames on their way stay numbered.                                  *)
LEMMA NumberedStep == Queues /\ Control /\ Numbered /\ [Next]_vars => Numbered'
<1> SUFFICES ASSUME Queues, Control, Counted(down, received, nOutput), [Next]_vars,
                    vpc' # "ended"
             PROVE  Counted(down', received', nOutput')
  BY EndedStays DEF Numbered
<1> USE FramesTyped, CountedHead, CountedOutput, CountedOther DEF Queues, Control, access, ghosts
<1>1. CASE Connect
  BY <1>1 DEF Connect, FirstAwait
<1>2. CASE ConnectFails
  BY <1>2 DEF ConnectFails, client, session, wires, host
<1>3. CASE SendEnter
  BY <1>3 DEF SendEnter, PressesEnter, Sends, session, host
<1>4. CASE HostAnswered
  BY <1>4 DEF HostAnswered, Sends, ShowsBuffer, host
<1>5. CASE NotYet
  BY <1>5 DEF NotYet, Expires, NothingComes, client, wires, host
<1>6. CASE SleepEnds
  BY <1>6 DEF SleepEnds, client, wires, host
<1>7. CASE OutputSettles
  BY <1>7 DEF OutputSettles, client, session, wires, host
<1>8. CASE SendMessage
  BY <1>8 DEF SendMessage, Sends, session, host
<1>9. CASE ReplyOrTimeout
  BY <1>9 DEF ReplyOrTimeout, client, session, wires, host
<1>10. CASE NoticeEnd
  BY <1>10 DEF NoticeEnd, client, session, wires, host
<1>11. CASE Close
  BY <1>11 DEF Close, session, host
<1>12. CASE TypeKey
  BY <1>12 DEF TypeKey, Sends, session, host
<1>13. CASE OpenChat
  BY <1>13 DEF OpenChat, client, wires, host
<1>14. CASE Leave
  BY <1>14 DEF Leave, client, session, wires, host
<1>15. CASE ReceiveOutput
  BY <1>15 DEF ReceiveOutput, OnOutput, host
<1>16. CASE ReceiveChat
  BY <1>16 DEF ReceiveChat, host
<1>17. CASE TaskEnds
  BY <1>17 DEF TaskEnds, session, host
<1>18. CASE RelayJoins
  BY <1>18 DEF RelayJoins, session, host
<1>19. CASE RelayForwards
  BY <1>19 DEF RelayForwards, client, session
<1>20. CASE HostEchoes
  BY <1>20 DEF HostEchoes, ToViewer, client, session
<1>27. CASE HostSuppresses
  BY <1>27 DEF HostSuppresses, client, session, wires
<1>21. CASE HostPrints
  BY <1>21 DEF HostPrints, ToViewer, client, session
<1>22. CASE OthersChat
  BY <1>22 DEF OthersChat, ToViewer, client, session
<1>23. CASE HostLeaves
  BY <1>23 DEF HostLeaves, client, session, wires
<1>24. CASE HostJoins
  BY <1>24 DEF HostJoins, client, session, wires
<1>25. CASE ConnectionLost
  BY <1>25 DEF ConnectionLost, session, host
<1>26. CASE UNCHANGED vars
  BY <1>26 DEF vars
<1> QED
  BY <1>1, <1>2, <1>3, <1>4, <1>5, <1>6, <1>7, <1>8, <1>9, <1>10, <1>11, <1>12,
     <1>13, <1>14, <1>15, <1>16, <1>17, <1>18, <1>19, <1>20, <1>21, <1>22, <1>23,
     <1>24, <1>25, <1>26, <1>27
     DEF Next, Viewer, Handshake, User, Receive, Remote

(* The handshake buffers what arrives and its end shows it.                *)
LEMMA BufferedStep ==
    /\ Queues /\ Control /\ NothingBefore /\ Numbered /\ BufferedThenShown
    /\ [Next]_vars
    => BufferedThenShown'
<1> SUFFICES ASSUME Queues, Control, NothingBefore, Numbered, BufferedThenShown,
                    [Next]_vars
             PROVE  BufferedThenShown'
  OBVIOUS
<1> USE DEF BufferedThenShown, Waiting, NothingBefore, access, ghosts
<1>1. CASE Connect
  BY <1>1, UpToNumbers DEF Connect, FirstAwait
<1>2. CASE ConnectFails
  BY <1>2 DEF ConnectFails, client, session, wires, host
<1>3. CASE SendEnter
  BY <1>3 DEF SendEnter, PressesEnter, Sends, session, host
<1>4. CASE HostAnswered
  <2> SUFFICES ASSUME cmd = "attach"
               PROVE  ~buffering' /\ (~chatOpen => shown' = UpTo(received)) /\ vpc' = "using"
    BY <1>4 DEF HostAnswered
  <2>1. <<>> \o buffer = buffer
    BY ConcatEmptySeq DEF Queues
  <2> QED
    BY <1>4, <2>1 DEF HostAnswered, ShowsBuffer
<1>5. CASE NotYet
  <2>1. vpc = "checking" /\ vpc' \in {"sleeping", "closing"}
    BY <1>5 DEF NotYet
  <2>2. vpc' = "sleeping" => buffering' = buffering
    BY <1>5 DEF NotYet
  <2>3. /\ cmd' = cmd /\ received' = received /\ buffer' = buffer /\ shown' = shown
        /\ chatOpen' = chatOpen
    BY <1>5 DEF NotYet, client
  <2> QED
    BY <2>1, <2>2, <2>3
<1>6. CASE SleepEnds
  BY <1>6 DEF SleepEnds, client, wires, host
<1>7. CASE OutputSettles
  BY <1>7 DEF OutputSettles, client, session, wires, host
<1>8. CASE SendMessage
  BY <1>8 DEF SendMessage, Sends, session, host
<1>9. CASE ReplyOrTimeout
  BY <1>9 DEF ReplyOrTimeout, client, session, wires, host
<1>10. CASE NoticeEnd
  BY <1>10 DEF NoticeEnd, client, session, wires, host
<1>11. CASE Close
  BY <1>11 DEF Close, session, host
<1>12. CASE TypeKey
  BY <1>12 DEF TypeKey, Sends, session, host
<1>13. CASE OpenChat
  BY <1>13 DEF OpenChat, client, wires, host
<1>14. CASE Leave
  BY <1>14 DEF Leave, client, session, wires, host
<1>15. CASE ReceiveOutput
  <2> SUFFICES ASSUME cmd = "attach", vpc \in Waiting \cup {"using"}
               PROVE  BufferedThenShown'
    BY <1>15 DEF ReceiveOutput
  <2>1. Head(down)[2] = received + 1
    BY <1>15, CountedHead DEF Numbered, Queues, Control, ReceiveOutput
  <2>2. Append(UpTo(received), received + 1) = UpTo(received + 1)
    BY UpToNumbers DEF Control
  <2> QED
    BY <1>15, <2>1, <2>2 DEF ReceiveOutput, OnOutput
<1>16. CASE ReceiveChat
  BY <1>16 DEF ReceiveChat, host
<1>17. CASE TaskEnds
  BY <1>17 DEF TaskEnds, session, host
<1>18. CASE RelayJoins
  BY <1>18 DEF RelayJoins, session, host
<1>19. CASE RelayForwards
  BY <1>19 DEF RelayForwards, client, session
<1>20. CASE HostEchoes
  BY <1>20 DEF HostEchoes, ToViewer, client, session
<1>27. CASE HostSuppresses
  BY <1>27 DEF HostSuppresses, client, session, wires
<1>21. CASE HostPrints
  BY <1>21 DEF HostPrints, ToViewer, client, session
<1>22. CASE OthersChat
  BY <1>22 DEF OthersChat, ToViewer, client, session
<1>23. CASE HostLeaves
  BY <1>23 DEF HostLeaves, client, session, wires
<1>24. CASE HostJoins
  BY <1>24 DEF HostJoins, client, session, wires
<1>25. CASE ConnectionLost
  BY <1>25 DEF ConnectionLost, session, host
<1>26. CASE UNCHANGED vars
  BY <1>26 DEF vars
<1> QED
  BY <1>1, <1>2, <1>3, <1>4, <1>5, <1>6, <1>7, <1>8, <1>9, <1>10, <1>11, <1>12,
     <1>13, <1>14, <1>15, <1>16, <1>17, <1>18, <1>19, <1>20, <1>21, <1>22, <1>23,
     <1>24, <1>25, <1>26, <1>27
     DEF Next, Viewer, Handshake, User, Receive, Remote

(* The join stays before all other frames.                                 *)
LEMMA JoinStep ==
    Queues /\ Control /\ NothingBefore /\ JoinComesFirst /\ [Next]_vars => JoinComesFirst'
<1> SUFFICES ASSUME Queues, Control, NothingBefore, JoinComesFirst, [Next]_vars
             PROVE  JoinComesFirst'
  OBVIOUS
<1> USE DEF JoinComesFirst, Waiting, NothingBefore, Queues, Control, access, ghosts
<1>1. CASE Connect
  <2>1. /\ up = <<>> /\ toHost = <<>> /\ down = <<>>
        /\ up' = Append(up, "join") /\ toHost' = toHost /\ down' = down
        /\ task' = "running" /\ there' = hostOn /\ hostOn' = hostOn
    BY <1>1 DEF Connect
  <2>2. up' # <<>> /\ up'[1] = "join"
    BY <2>1
  <2>3. 1..Len(down') = {}
    BY <2>1
  <2> QED
    BY <2>1, <2>2, <2>3
<1>2. CASE ConnectFails
  BY <1>2 DEF ConnectFails, client, session, wires, host
<1>3. CASE SendEnter
  <2>1. up # <<>> => Append(up, "input") # <<>> /\ Append(up, "input")[1] = up[1]
    <3>1. up \in Seq({"join", "input", "chat"}) /\ "input" \in {"join", "input", "chat"}
      BY DEF Queues
    <3> QED
      BY <3>1, Appended
  <2> QED
    BY <1>3, <2>1 DEF SendEnter, PressesEnter, Sends, session, host
<1>4. CASE HostAnswered
  <2>1. up # <<>> => Append(up, "input") # <<>> /\ Append(up, "input")[1] = up[1]
    <3>1. up \in Seq({"join", "input", "chat"}) /\ "input" \in {"join", "input", "chat"}
      BY DEF Queues
    <3> QED
      BY <3>1, Appended
  <2> QED
    BY <1>4, <2>1 DEF HostAnswered, Sends, session, host
<1>5. CASE NotYet
  BY <1>5 DEF NotYet, Expires, NothingComes, client, wires, host
<1>6. CASE SleepEnds
  BY <1>6 DEF SleepEnds, client, wires, host
<1>7. CASE OutputSettles
  BY <1>7 DEF OutputSettles, client, session, wires, host
<1>8. CASE SendMessage
  <2>1. up # <<>> => Append(up, "chat") # <<>> /\ Append(up, "chat")[1] = up[1]
    <3>1. up \in Seq({"join", "input", "chat"}) /\ "chat" \in {"join", "input", "chat"}
      BY DEF Queues
    <3> QED
      BY <3>1, Appended
  <2> QED
    BY <1>8, <2>1 DEF SendMessage, Sends, session, host
<1>9. CASE ReplyOrTimeout
  BY <1>9 DEF ReplyOrTimeout, client, session, wires, host
<1>10. CASE NoticeEnd
  BY <1>10 DEF NoticeEnd, client, session, wires, host
<1>11. CASE Close
  BY <1>11 DEF Close, session, host
<1>12. CASE TypeKey
  <2>1. up # <<>> => Append(up, "input") # <<>> /\ Append(up, "input")[1] = up[1]
    <3>1. up \in Seq({"join", "input", "chat"}) /\ "input" \in {"join", "input", "chat"}
      BY DEF Queues
    <3> QED
      BY <3>1, Appended
  <2> QED
    BY <1>12, <2>1 DEF TypeKey, Sends, session, host
<1>13. CASE OpenChat
  BY <1>13 DEF OpenChat, client, wires, host
<1>14. CASE Leave
  BY <1>14 DEF Leave, client, session, wires, host
<1>15. CASE ReceiveOutput
  BY <1>15 DEF ReceiveOutput, OnOutput, host
<1>16. CASE ReceiveChat
  BY <1>16 DEF ReceiveChat, host
<1>17. CASE TaskEnds
  BY <1>17 DEF TaskEnds, session, host
<1>18. CASE RelayJoins
  BY <1>18 DEF RelayJoins, session, host
<1>19. CASE RelayForwards
  BY <1>19 DEF RelayForwards, client, session
<1>20. CASE HostEchoes
  BY <1>20 DEF HostEchoes, ToViewer, client, session
<1>27. CASE HostSuppresses
  BY <1>27 DEF HostSuppresses, client, session, wires
<1>21. CASE HostPrints
  <2>1. down' = Append(down, <<"output", nOutput + 1>>) /\ <<"output", nOutput + 1>> \in Frame
    BY <1>21, FramesTyped DEF HostPrints, ToViewer
  <2>2. <<"output", nOutput + 1>>[1] # "error"
    OBVIOUS
  <2>3. \A i \in 1..Len(down') : down'[i][1] = "error" => i \in 1..Len(down) /\ down[i][1] = "error"
    BY <2>1, <2>2, Appended
  <2> QED
    BY <1>21, <2>3 DEF HostPrints, client
<1>22. CASE OthersChat
  BY <1>22 DEF OthersChat, ToViewer, client, session
<1>23. CASE HostLeaves
  BY <1>23 DEF HostLeaves, client, session, wires
<1>24. CASE HostJoins
  BY <1>24 DEF HostJoins, client, session, wires
<1>25. CASE ConnectionLost
  BY <1>25 DEF ConnectionLost, session, host
<1>26. CASE UNCHANGED vars
  BY <1>26 DEF vars
<1> QED
  BY <1>1, <1>2, <1>3, <1>4, <1>5, <1>6, <1>7, <1>8, <1>9, <1>10, <1>11, <1>12,
     <1>13, <1>14, <1>15, <1>16, <1>17, <1>18, <1>19, <1>20, <1>21, <1>22, <1>23,
     <1>24, <1>25, <1>26, <1>27
     DEF Next, Viewer, Handshake, User, Receive, Remote

(* The Enter of attach, and its answer, do not get lost on the way.        *)
LEMMA EnterStep ==
    Queues /\ Control /\ JoinComesFirst /\ EnterIsAnswered /\ [Next]_vars => EnterIsAnswered'
<1> SUFFICES ASSUME Queues, Control, JoinComesFirst, EnterIsAnswered, [Next]_vars
             PROVE  EnterIsAnswered'
  OBVIOUS
<1> USE DEF EnterIsAnswered, Queues, Control, access, ghosts
<1>1. CASE Connect
  BY <1>1 DEF Connect, FirstAwait
<1>2. CASE ConnectFails
  BY <1>2 DEF ConnectFails, client, session, wires, host
<1>3. CASE SendEnter
  <2>1. Len(up) + 1 \in 1..Len(Append(up, "input")) /\ Append(up, "input")[Len(up) + 1] = "input"
    BY Appended
  <2> QED
    BY <1>3, <2>1 DEF SendEnter, PressesEnter, Sends
<1>4. CASE HostAnswered
  BY <1>4 DEF HostAnswered, Sends, ShowsBuffer, host
<1>5. CASE NotYet
  BY <1>5 DEF NotYet, Expires, NothingComes, client, wires, host
<1>6. CASE SleepEnds
  BY <1>6 DEF SleepEnds, client, wires, host
<1>7. CASE OutputSettles
  BY <1>7 DEF OutputSettles, client, session, wires, host
<1>8. CASE SendMessage
  BY <1>8 DEF SendMessage, Sends, session, host
<1>9. CASE ReplyOrTimeout
  BY <1>9 DEF ReplyOrTimeout, client, session, wires, host
<1>10. CASE NoticeEnd
  BY <1>10 DEF NoticeEnd, client, session, wires, host
<1>11. CASE Close
  BY <1>11 DEF Close, session, host
<1>12. CASE TypeKey
  BY <1>12 DEF TypeKey, Sends, session, host
<1>13. CASE OpenChat
  BY <1>13 DEF OpenChat, client, wires, host
<1>14. CASE Leave
  BY <1>14 DEF Leave, client, session, wires, host
<1>15. CASE ReceiveOutput
  BY <1>15 DEF ReceiveOutput, OnOutput, host
<1>16. CASE ReceiveChat
  <2>1. ASSUME NEW i \in 1..Len(down), down[i][1] = "output", down # <<>>,
               Head(down)[1] # "output"
        PROVE  i - 1 \in 1..Len(Tail(down)) /\ Tail(down)[i - 1][1] = "output"
    <3>1. /\ Len(down) \in Nat /\ Len(Tail(down)) = Len(down) - 1
          /\ Head(down) = down[1]
          /\ \A j \in 1..Len(down) - 1 : Tail(down)[j] = down[j + 1]
      BY <2>1, Rest DEF Queues
    <3>2. i # 1
      BY <2>1, <3>1
    <3>3. i - 1 \in 1..Len(down) - 1 /\ (i - 1) + 1 = i
      BY <3>1, <3>2
    <3> QED
      BY <2>1, <3>1, <3>3
  <2>2. "chat" # "output"
    OBVIOUS
  <2>3. down # <<>> /\ Head(down)[1] # "output" /\ down' = Tail(down)
    BY <1>16, <2>2 DEF ReceiveChat
  <2>4. ASSUME NEW i \in 1..Len(down), down[i][1] = "output"
        PROVE  \E j \in 1..Len(down') : down'[j][1] = "output"
    BY <2>1, <2>3, <2>4
  <2>5. /\ cmd' = cmd /\ vpc' = vpc /\ conn' = conn /\ there' = there /\ up' = up
        /\ gotOutput' = gotOutput /\ toHost' = toHost /\ suppressed' = suppressed
    BY <1>16 DEF ReceiveChat, host
  <2> QED
    BY <2>4, <2>5
<1>17. CASE TaskEnds
  <2>1. down # <<>> => 1 \in 1..Len(down) /\ Head(down) = down[1]
    BY Rest
  <2>2. conn' # "open"
    BY <1>17, <2>1 DEF TaskEnds, JoinComesFirst
  <2> QED
    BY <2>2
<1>18. CASE RelayJoins
  <2>1. ASSUME NEW i \in 1..Len(up), up[i] = "input", up # <<>>, Head(up) = "join"
        PROVE  i - 1 \in 1..Len(Tail(up)) /\ Tail(up)[i - 1] = "input"
    BY <2>1, Rest
  <2> QED
    BY <1>18, <2>1 DEF RelayJoins, host
<1>19. CASE RelayForwards
  <2>1. ASSUME NEW i \in 1..Len(up), up[i] = "input", up # <<>>, Head(up) # "input"
        PROVE  i - 1 \in 1..Len(Tail(up)) /\ Tail(up)[i - 1] = "input"
    BY <2>1, Rest
  <2>2. ASSUME Head(up) = "input" PROVE Append(toHost, Head(up)) # <<>>
    BY <2>2, InputAppended DEF Queues
  <2>3. CASE Head(up) = "input"
    BY <1>19, <2>2, <2>3 DEF RelayForwards, JoinComesFirst, client
  <2>4. CASE Head(up) # "input"
    <3>1. toHost' = toHost \/ Head(up) \notin {"input", "chat", "join"}
      BY <1>19, <2>4 DEF RelayForwards
    <3>2. toHost' = toHost
      BY <1>19, <2>4, <3>1, SequencesOfFrames DEF RelayForwards
    <3> QED
      BY <1>19, <2>1, <2>4, <3>2 DEF RelayForwards, client
  <2> QED
    BY <2>3, <2>4
<1>20. CASE HostEchoes
  <2> DEFINE f == <<"output", nOutput + 1>>
  <2>1. f \in Frame /\ f[1] = "output"
    BY FramesTyped
  <2> HIDE DEF f
  <2>2. Len(down) + 1 \in 1..Len(Append(down, f)) /\ Append(down, f)[Len(down) + 1][1] = "output"
    BY <2>1, Appended
  <2>3. conn = "open" => down' = Append(down, f)
    BY <1>20 DEF HostEchoes, ToViewer, JoinComesFirst, f
  <2> QED
    BY <1>20, <2>2, <2>3 DEF HostEchoes, client
<1>27. CASE HostSuppresses
  BY <1>27 DEF HostSuppresses, client, session, wires
<1>21. CASE HostPrints
  BY <1>21 DEF HostPrints, ToViewer, client, session
<1>22. CASE OthersChat
  BY <1>22 DEF OthersChat, ToViewer, client, session
<1>23. CASE HostLeaves
  BY <1>23 DEF HostLeaves, client, session, wires
<1>24. CASE HostJoins
  BY <1>24 DEF HostJoins, client, session, wires
<1>25. CASE ConnectionLost
  BY <1>25 DEF ConnectionLost, session, host
<1>26. CASE UNCHANGED vars
  BY <1>26 DEF vars
<1> QED
  BY <1>1, <1>2, <1>3, <1>4, <1>5, <1>6, <1>7, <1>8, <1>9, <1>10, <1>11, <1>12,
     <1>13, <1>14, <1>15, <1>16, <1>17, <1>18, <1>19, <1>20, <1>21, <1>22, <1>23,
     <1>24, <1>25, <1>26, <1>27
     DEF Next, Viewer, Handshake, User, Receive, Remote

(* The deadline passes only without an Enter or an answer on its way.      *)
LEMMA AttachStep ==
    /\ Queues /\ Control /\ JoinComesFirst /\ EnterIsAnswered /\ AttachFindsHost
    /\ [Next]_vars
    => AttachFindsHost'
<1> SUFFICES ASSUME Queues, Control, JoinComesFirst, EnterIsAnswered, AttachFindsHost,
                    [Next]_vars
             PROVE  AttachFindsHost'
  OBVIOUS
<1> USE DEF AttachFindsHost, JoinComesFirst, Waiting, access, ghosts
<1>1. CASE Connect
  BY <1>1 DEF Connect, FirstAwait
<1>2. CASE ConnectFails
  BY <1>2 DEF ConnectFails, client, session, wires, host
<1>3. CASE SendEnter
  BY <1>3 DEF SendEnter, PressesEnter, Sends, session, host
<1>4. CASE HostAnswered
  BY <1>4 DEF HostAnswered, Sends, ShowsBuffer, host
<1>5. CASE NotYet
  <2> SUFFICES ASSUME cmd = "attach", vpc' = "closing", conn = "open", there,
                      ~suppressed
               PROVE  FALSE
    BY <1>5 DEF NotYet, client, host
  <2>1. vpc = "checking" /\ ~gotOutput /\ NothingComes
    BY <1>5 DEF NotYet, Expires
  <2>2. up = <<>> /\ down = <<>> /\ toHost = <<>>
    BY <2>1 DEF NothingComes
  <2>3. 1..Len(up) = {} /\ 1..Len(down) = {}
    BY <2>2
  <2> QED
    BY <2>1, <2>2, <2>3 DEF EnterIsAnswered
<1>6. CASE SleepEnds
  BY <1>6 DEF SleepEnds, client, wires, host
<1>7. CASE OutputSettles
  BY <1>7 DEF OutputSettles, client, session, wires, host
<1>8. CASE SendMessage
  BY <1>8 DEF SendMessage, Sends, session, host
<1>9. CASE ReplyOrTimeout
  BY <1>9 DEF ReplyOrTimeout, client, session, wires, host
<1>10. CASE NoticeEnd
  BY <1>10 DEF NoticeEnd, client, session, wires, host
<1>11. CASE Close
  BY <1>11 DEF Close, session, host
<1>12. CASE TypeKey
  BY <1>12 DEF TypeKey, Sends, session, host
<1>13. CASE OpenChat
  BY <1>13 DEF OpenChat, client, wires, host
<1>14. CASE Leave
  BY <1>14 DEF Leave, client, session, wires, host
<1>15. CASE ReceiveOutput
  BY <1>15 DEF ReceiveOutput, OnOutput, host
<1>16. CASE ReceiveChat
  BY <1>16 DEF ReceiveChat, host
<1>17. CASE TaskEnds
  BY <1>17 DEF TaskEnds, session, host
<1>18. CASE RelayJoins
  BY <1>18 DEF RelayJoins, session, host
<1>19. CASE RelayForwards
  BY <1>19 DEF RelayForwards, client, session
<1>20. CASE HostEchoes
  BY <1>20 DEF HostEchoes, ToViewer, client, session
<1>27. CASE HostSuppresses
  BY <1>27 DEF HostSuppresses, client, session, wires
<1>21. CASE HostPrints
  BY <1>21 DEF HostPrints, ToViewer, client, session
<1>22. CASE OthersChat
  BY <1>22 DEF OthersChat, ToViewer, client, session
<1>23. CASE HostLeaves
  BY <1>23 DEF HostLeaves, client, session, wires
<1>24. CASE HostJoins
  BY <1>24 DEF HostJoins, client, session, wires
<1>25. CASE ConnectionLost
  BY <1>25 DEF ConnectionLost, session, host
<1>26. CASE UNCHANGED vars
  BY <1>26 DEF vars
<1> QED
  BY <1>1, <1>2, <1>3, <1>4, <1>5, <1>6, <1>7, <1>8, <1>9, <1>10, <1>11, <1>12,
     <1>13, <1>14, <1>15, <1>16, <1>17, <1>18, <1>19, <1>20, <1>21, <1>22, <1>23,
     <1>24, <1>25, <1>26, <1>27
     DEF Next, Viewer, Handshake, User, Receive, Remote

-----------------------------------------------------------------------------
(* The theorems.                                                           *)

(* The invariant holds at first.                                           *)
LEMMA InitInv == Init => IInv
<1> SUFFICES ASSUME Init PROVE IInv
  OBVIOUS
<1>1. Queues /\ Control
  <2>1. /\ <<>> \in Seq(Nat) /\ <<>> \in Seq({"join", "input", "chat"})
        /\ <<>> \in Seq({"input"}) /\ <<>> \in Seq(Frame)
    BY EmptySeq
  <2>2. Queues
    BY <2>1 DEF Init, Queues
  <2>3. Control
    BY DEF Init, Control
  <2> QED
    BY <2>2, <2>3
<1>2. TypeOK
  BY <1>1, TypesSplit
<1>3. NothingBefore
  BY DEF Init, NothingBefore
<1>4. Numbered
  BY CountedEmpty DEF Init, Numbered
<1>5. BufferedThenShown
  BY DEF Init, BufferedThenShown, Waiting
<1>6. JoinComesFirst
  <2>1. down = <<>> /\ 1..Len(down) = {}
    BY DEF Init
  <2> QED
    BY <2>1 DEF Init, JoinComesFirst
<1>7. EnterIsAnswered
  BY DEF Init, EnterIsAnswered
<1>8. AttachFindsHost
  BY DEF Init, AttachFindsHost
<1> QED
  BY <1>2, <1>3, <1>4, <1>5, <1>6, <1>7, <1>8 DEF IInv

(* The inductive invariant holds in every behaviour of the commands.       *)
THEOREM Invariance == Spec => []IInv
<1>1. ASSUME IInv, [Next]_vars PROVE IInv'
  <2>1. Queues /\ Control
    BY <1>1, TypesSplit DEF IInv
  <2>2. TypeOK'
    <3>1. Queues' /\ Control'
      BY <1>1, <2>1, QueuesStep, ControlStep
    <3>2. (Queues /\ Control => TypeOK)'
      BY DEF TypeOK, Queues, Control, Frame
    <3> QED
      BY <3>1, <3>2
  <2>3. NothingBefore' /\ Numbered'
    BY <1>1, <2>1, NothingBeforeStep, NumberedStep DEF IInv
  <2>4. BufferedThenShown'
    BY <1>1, <2>1, BufferedStep DEF IInv
  <2>5. JoinComesFirst' /\ EnterIsAnswered'
    BY <1>1, <2>1, JoinStep, EnterStep DEF IInv
  <2>6. AttachFindsHost'
    BY <1>1, <2>1, AttachStep DEF IInv
  <2> QED
    BY <2>2, <2>3, <2>4, <2>5, <2>6 DEF IInv
<1> QED
  BY <1>1, InitInv, PTL DEF Spec

(* The types are right, and no command runs into the awaits of another.    *)
THEOREM TypeCorrect == Spec => []TypeOK
<1>1. IInv => TypeOK
  BY DEF IInv
<1> QED
  BY <1>1, Invariance, PTL

(* An attached terminal whose chat is closed shows all it has received, in *)
(* order and once, and nothing before its handshake ends.                  *)
THEOREM ScreenFaithful == Spec => []ScreenIsFaithful
<1>1. IInv => ScreenIsFaithful
  BY DEF IInv, BufferedThenShown, ScreenIsFaithful, Waiting, UpTo
<1> QED
  BY <1>1, Invariance, PTL

(* attach does not give up on a host that has been there all along.        *)
THEOREM AttachFinds == Spec => []AttachFindsHost
<1>1. IInv => AttachFindsHost
  BY DEF IInv
<1> QED
  BY <1>1, Invariance, PTL
=============================================================================
