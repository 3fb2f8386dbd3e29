------------------------- MODULE RelayBridgeProofs --------------------------
(* Proofs about RelayBridge for any number of outputs, chat messages and   *)
(* incoming frames: the relay has a prefix of what the host produced, a    *)
(* stop flushes the queue, and the bridge implements OutputStream.         *)
EXTENDS RelayBridge, SequenceTheorems, TLAPS

(* stop() is called at most once, after which nothing is put in the queue; *)
(* start() comes before.                                                   *)
CallerStarted == started <=> caller \in {"waiting", "running", "failed"}

(* Where the thread is, and what it has of the socket and of the queue.    *)
ThreadSocket ==
    /\ thread \in {"none", "connecting"} => socket = "none"
    /\ thread \in {"polling", "sending", "chatting", "sleeping", "closing"}
         => socket \in {"up", "lost"}
    /\ thread = "none" <=> caller = "new"
    /\ thread # "ended" => caller \notin {"stopped", "exited"}
    /\ item # NoItem <=> thread = "sending"
    /\ connectError => thread = "ended"

(* Nothing follows the stop item, and there is none before stop(); when it *)
(* has been taken, the queue is empty and stays so.                        *)
StopsLast(q) == \A i \in 1..Len(q) : q[i] = SENTINEL => i = Len(q)
NoStop(q) == \A i \in 1..Len(q) : q[i] # SENTINEL

StopIsLast ==
    /\ StopsLast(queue)
    /\ started \/ caller = "new" => NoStop(queue)
    /\ socket \in {"up", "closed"} /\ thread \in {"closing", "ended"}
         /\ caller # "exited"
         => queue = <<>> /\ ~started /\ caller # "new"

(* Chat messages are numbered from the relay back to the caller; after one *)
(* that is lost no other one arrives.                                      *)
SentChat == Len(relayedChat) + Len(wireChat)

ChatNoGap ==
    /\ Numbered(relayedChat, 0) /\ Numbered(wireChat, Len(relayedChat))
    /\ socket \in {"none", "up"} => /\ Numbered(chatOut, SentChat)
                                    /\ nChat = SentChat + Len(chatOut)

(* So are outputs, as long as neither the connection nor the process has   *)
(* been lost.                                                              *)
Sent == Len(relayed) + Len(wire)
Held == IF item = NoItem THEN 0 ELSE 1
Whole == socket # "lost" /\ caller # "exited"

NoGap ==
    /\ Numbered(relayed, 0) /\ Numbered(wire, Len(relayed))
    /\ Whole => /\ item # NoItem => item = Sent + 1
                /\ Numbered(Outputs(queue), Sent + Held)
                /\ nOutput = Sent + Held + Len(Outputs(queue))

IInv == /\ TypeOK /\ CallerStarted /\ ThreadSocket /\ StopIsLast
        /\ ChatNoGap /\ NoGap

-----------------------------------------------------------------------------
(* Numbered sequences: the oldest element, the rest, and a next one.       *)
LEMMA NumberedTail ==
    ASSUME NEW s \in Seq(Nat), s # <<>>, NEW a \in Nat, Numbered(s, a)
    PROVE  Head(s) = a + 1 /\ Numbered(Tail(s), a + 1)
<1>1. Len(s) >= 1 /\ Head(s) = s[1]
  OBVIOUS
<1>2. ASSUME NEW i \in 1..Len(Tail(s)) PROVE Tail(s)[i] = a + 1 + i
  <2>1. Tail(s)[i] = s[i + 1] /\ i + 1 \in 1..Len(s)
    BY HeadTailProperties
  <2> QED BY <2>1 DEF Numbered
<1> QED BY <1>1, <1>2 DEF Numbered

LEMMA NumberedAppend ==
    ASSUME NEW s \in Seq(Nat), NEW a \in Nat, Numbered(s, a),
           NEW x \in Nat, x = a + Len(s) + 1
    PROVE  Numbered(Append(s, x), a)
  BY DEF Numbered

(* What a sequence loses to its tail.                                      *)
LEMMA TailLength ==
    ASSUME NEW S, NEW s \in Seq(S), s # <<>>, NEW a \in Nat
    PROVE  /\ a + 1 + Len(Tail(s)) = a + Len(s)
           /\ Len(s) \in Nat /\ Len(Tail(s)) \in Nat
<1>1. PICK n \in Nat : n = Len(s)
  BY LenProperties
<1>2. Tail(s) \in Seq(S) /\ Len(Tail(s)) = n - 1 /\ n >= 1
  BY <1>1, HeadTailProperties, EmptySeq
<1>3. a + 1 + (n - 1) = a + n /\ n - 1 \in Nat
  BY <1>2
<1> QED BY <1>1, <1>2, <1>3

(* A sequence is one of the elements it has.                               *)
LEMMA SeqOfElements ==
    ASSUME NEW S, NEW T, NEW s \in Seq(S), \A i \in 1..Len(s) : s[i] \in T
    PROVE  s \in Seq(T)
<1>1. SubSeq(s, 1, Len(s)) = s
  BY SubSeqFull
<1>2. SubSeq(s, 1, Len(s)) \in Seq(T)
  BY LenProperties, SubSeqProperties
<1> QED BY <1>1, <1>2

(* A part of a sequence.                                                   *)
LEMMA PartOfSeq ==
    ASSUME NEW S, NEW s \in Seq(S), NEW m \in Nat \ {0}, NEW n \in Nat,
           n <= Len(s), m <= n + 1
    PROVE  /\ SubSeq(s, m, n) \in Seq(S)
           /\ Len(SubSeq(s, m, n)) = n - m + 1
           /\ \A i \in 1..n - m + 1 : SubSeq(s, m, n)[i] = s[m + i - 1]
<1>1. \A i \in m..n : s[i] \in S
  BY LenProperties
<1> QED BY <1>1, SubSeqProperties

(* What Outputs makes of a queue of outputs in which only the last item may*)
(* be the stop item.                                                       *)
LEMMA OutputsOfQueue ==
    ASSUME NEW q \in Seq(Nat \cup {SENTINEL}), StopsLast(q)
    PROVE  /\ Outputs(q) \in Seq(Nat)
           /\ NoStop(q) => Outputs(q) = q
           /\ q # <<>> /\ Head(q) # SENTINEL =>
                  /\ Outputs(q) # <<>> /\ Head(Outputs(q)) = Head(q)
                  /\ Outputs(Tail(q)) = Tail(Outputs(q))
           /\ q # <<>> /\ Head(q) = SENTINEL => Tail(q) = <<>> /\ Outputs(q) = <<>>
<1> DEFINE S == Nat \cup {SENTINEL}
<1>n. PICK n \in Nat : n = Len(q)
  BY LenProperties
<1>0. q \in Seq(S) /\ Len(q) = n /\ (q # <<>> <=> n >= 1)
  BY <1>n, EmptySeq
<1>1. \A i \in 1..n : q[i] \in S /\ (i < n => q[i] \in Nat)
  <2>1. ASSUME NEW i \in 1..n PROVE q[i] \in S /\ (i < n => q[i] # SENTINEL)
    BY <1>0, ElementOfSeq DEF StopsLast
  <2> QED BY <2>1
<1> HIDE DEF S
<1>2. Outputs(q) \in Seq(Nat)
  <2>1. CASE q # <<>> /\ q[n] = SENTINEL
    <3>1. \A i \in 1..n - 1 : q[i] \in Nat
      BY <1>0, <1>1
    <3>2. SubSeq(q, 1, n - 1) \in Seq(Nat)
      BY <1>0, <3>1, SubSeqProperties
    <3> QED BY <2>1, <3>2, <1>0 DEF Outputs
  <2>2. CASE ~(q # <<>> /\ q[n] = SENTINEL)
    <3>1. \A i \in 1..n : q[i] \in Nat
      BY <2>2, <1>0, <1>1 DEF S
    <3>2. q \in Seq(Nat)
      BY <1>0, <3>1, SeqOfElements
    <3> QED BY <2>2, <3>2 DEF Outputs
  <2> QED BY <2>1, <2>2
<1>3. ASSUME NoStop(q) PROVE Outputs(q) = q
  BY <1>0, <1>3 DEF Outputs, NoStop
<1>tail. ASSUME q # <<>>
         PROVE  /\ Head(q) = q[1] /\ Tail(q) \in Seq(S) /\ Len(Tail(q)) = n - 1
                /\ \A i \in 1..n - 1 : Tail(q)[i] = q[i + 1]
                /\ Tail(q) = <<>> <=> n = 1
  <2>1. /\ Head(q) = q[1] /\ Tail(q) \in Seq(S) /\ Len(Tail(q)) = n - 1
        /\ \A i \in 1..n - 1 : Tail(q)[i] = q[i + 1]
    BY <1>tail, <1>0, HeadTailProperties
  <2>2. n = 1 => Tail(q) = <<>>
    <3>1. n = 1 => n - 1 = 0
      OBVIOUS
    <3> QED BY <2>1, <3>1, EmptySeq
  <2>3. Tail(q) = <<>> => n - 1 = 0
    BY <2>1, EmptySeq
  <2> QED BY <2>1, <2>2, <2>3, <1>0
<1>4. ASSUME q # <<>>, Head(q) # SENTINEL
      PROVE  /\ Outputs(q) # <<>> /\ Head(Outputs(q)) = Head(q)
             /\ Outputs(Tail(q)) = Tail(Outputs(q))
  <2>0. n >= 1
    BY <1>4, <1>0
  <2>1. CASE q[n] = SENTINEL
    <3>1. n >= 2
      BY <2>0, <2>1, <1>0, <1>4, <1>tail
    <3>2. Outputs(q) = SubSeq(q, 1, n - 1)
      BY <1>4, <2>1, <1>0 DEF Outputs
    <3>3. Head(Outputs(q)) = q[1] /\ Tail(Outputs(q)) = SubSeq(q, 2, n - 1)
      <4>1. 1 \in 1..n /\ n - 1 \in 1..n
        BY <3>1, <1>0
      <4>2. Head(SubSeq(q, 1, n - 1)) = q[1] /\ Tail(SubSeq(q, 1, n - 1)) = SubSeq(q, 1 + 1, n - 1)
        BY <4>1, <1>0, HeadTailOfSubSeq
      <4>3. 1 + 1 = 2
        OBVIOUS
      <4> QED BY <3>2, <4>2, <4>3
    <3>4. Outputs(q) # <<>>
      <4>1. Len(SubSeq(q, 1, n - 1)) = n - 1 - 1 + 1
        BY <3>1, <1>0, PartOfSeq
      <4>2. SubSeq(q, 1, n - 1) # <<>>
        BY <4>1, <3>1, <1>0, EmptySeq
      <4> QED BY <4>2, <3>2
    <3>5. Outputs(Tail(q)) = SubSeq(Tail(q), 1, n - 1 - 1)
      <4>1. n - 1 \in 1..n - 1 /\ n - 1 + 1 = n /\ n # 1
        BY <3>1, <1>0
      <4>2. Tail(q)[n - 1] = SENTINEL
        BY <4>1, <1>4, <1>tail, <2>1
      <4> QED BY <4>1, <4>2, <1>4, <1>tail DEF Outputs
    <3>6. SubSeq(Tail(q), 1, n - 1 - 1) = SubSeq(q, 2, n - 1)
      <4> DEFINE a == SubSeq(Tail(q), 1, n - 2)
                 b == SubSeq(q, 2, n - 1)
      <4>0. /\ n - 2 \in Nat /\ n - 1 \in Nat /\ n - 1 - 1 = n - 2
            /\ n - 2 <= n - 1 /\ n - 1 - 2 + 1 = n - 2 /\ n - 2 - 1 + 1 = n - 2
        BY <3>1, <1>0
      <4>1. a \in Seq(S) /\ Len(a) = n - 2 /\ \A i \in 1..n - 2 : a[i] = Tail(q)[1 + i - 1]
        <5>1. Tail(q) \in Seq(S) /\ n - 2 <= Len(Tail(q)) /\ 1 <= n - 2 + 1
          BY <4>0, <1>4, <1>tail
        <5> QED BY <4>0, <5>1, PartOfSeq
      <4>2. b \in Seq(S) /\ Len(b) = n - 2 /\ \A i \in 1..n - 2 : b[i] = q[2 + i - 1]
        <5>1. n - 1 <= n /\ 2 <= n - 1 + 1
          BY <3>1, <1>0
        <5> QED BY <4>0, <5>1, <1>0, PartOfSeq
      <4> HIDE DEF a, b
      <4>3. ASSUME NEW i \in 1..n - 2 PROVE a[i] = b[i]
        <5>1. 1 + i - 1 = i /\ 2 + i - 1 = i + 1 /\ i \in 1..n - 1
          BY <4>0, <1>0
        <5>2. a[i] = Tail(q)[i] /\ b[i] = q[i + 1]
          BY <4>1, <4>2, <5>1
        <5> QED BY <5>1, <5>2, <1>4, <1>tail
      <4>4. a = b
        BY <4>1, <4>2, <4>3, SeqEqual
      <4> QED BY <4>4, <4>0 DEF a, b
    <3> QED BY <1>4, <1>tail, <3>3, <3>4, <3>5, <3>6
  <2>2. CASE q[n] # SENTINEL
    <3>1. Outputs(q) = q
      BY <2>2, <1>0 DEF Outputs
    <3>2. Tail(q) # <<>> => Tail(q)[Len(Tail(q))] # SENTINEL
      <4>1. n # 1 => n - 1 \in 1..n - 1 /\ n - 1 + 1 = n
        BY <2>0, <1>0
      <4> QED BY <4>1, <1>4, <1>tail, <2>2
    <3> QED BY <3>1, <3>2, <1>4 DEF Outputs
  <2> QED BY <2>1, <2>2
<1>5. ASSUME q # <<>>, Head(q) = SENTINEL PROVE Tail(q) = <<>> /\ Outputs(q) = <<>>
  <2>1. n = 1
    BY <1>5, <1>0, <1>tail DEF StopsLast
  <2>2. Outputs(q) = SubSeq(q, 1, 0)
    BY <2>1, <1>5, <1>tail DEF Outputs
  <2> QED BY <2>1, <2>2, <1>5, <1>tail, SubSeqEmpty
<1> QED BY <1>0, <1>2, <1>3, <1>4, <1>5

(* What is put in a queue without a stop item, and taken from any.         *)
LEMMA AppendToQueue ==
    ASSUME NEW q \in Seq(Nat \cup {SENTINEL}), NoStop(q), NEW x \in Nat
    PROVE  /\ NoStop(Append(q, x)) /\ Outputs(Append(q, x)) = Append(Outputs(q), x)
           /\ StopsLast(Append(q, SENTINEL)) /\ Outputs(Append(q, SENTINEL)) = Outputs(q)
<1> DEFINE S == Nat \cup {SENTINEL}
<1>1. PICK n \in Nat : n = Len(q)
  BY LenProperties
<1>2. ASSUME NEW y \in S
      PROVE  /\ Append(q, y) # <<>> /\ Len(Append(q, y)) = n + 1
             /\ \A i \in 1..n : Append(q, y)[i] = q[i]
             /\ Append(q, y)[n + 1] = y
  BY <1>1, AppendProperties
<1>3. x \in S /\ SENTINEL \in S /\ x # SENTINEL
  BY ItemAssumption
<1> HIDE DEF S
<1>4. Outputs(q) = q
  BY OutputsOfQueue DEF StopsLast, NoStop
<1>5. NoStop(Append(q, x))
  BY <1>1, <1>2, <1>3 DEF NoStop
<1>6. Outputs(Append(q, x)) = Append(q, x)
  BY <1>2, <1>3 DEF Outputs
<1>7. StopsLast(Append(q, SENTINEL))
  BY <1>1, <1>2, <1>3 DEF NoStop, StopsLast
<1>8. Outputs(Append(q, SENTINEL)) = q
  <2>1. Outputs(Append(q, SENTINEL)) = SubSeq(Append(q, SENTINEL), 1, n)
    <3>1. n + 1 - 1 = n
      OBVIOUS
    <3> QED BY <1>2, <1>3, <3>1 DEF Outputs
  <2>2. SubSeq(Append(q, SENTINEL), 1, n) = q
    BY <1>1
  <2> QED BY <2>1, <2>2
<1> QED BY <1>4, <1>5, <1>6, <1>7, <1>8

LEMMA TailOfQueue ==
    ASSUME NEW q \in Seq(Nat \cup {SENTINEL}), q # <<>>, StopsLast(q)
    PROVE  StopsLast(Tail(q)) /\ (NoStop(q) => NoStop(Tail(q)))
<1>1. PICK n \in Nat : n = Len(q)
  BY LenProperties
<1>2. Len(Tail(q)) = n - 1 /\ \A i \in 1..n - 1 : Tail(q)[i] = q[i + 1] /\ i + 1 \in 1..n
  BY <1>1, HeadTailProperties
<1> QED BY <1>1, <1>2 DEF StopsLast, NoStop

-----------------------------------------------------------------------------
(* Initially nothing has been produced.                                    *)
LEMMA InitIInv == Init => IInv
<1> SUFFICES ASSUME Init PROVE IInv
  OBVIOUS
<1> USE DEF Init
<1>1. TypeOK
  <2>1. <<>> \in Seq(Nat) /\ <<>> \in Seq(Nat \cup {SENTINEL})
    BY EmptySeq
  <2>2. inQueue \in [Kind -> Seq(Nat)] /\ nIncoming \in [Kind -> Nat]
    BY <2>1
  <2> QED BY <2>1, <2>2 DEF TypeOK
<1>2. CallerStarted /\ ThreadSocket
  BY DEF CallerStarted, ThreadSocket
<1>3. StopIsLast
  BY DEF StopIsLast, StopsLast, NoStop
<1>4. ChatNoGap
  BY DEF ChatNoGap, SentChat, Numbered
<1>5. NoGap
  BY DEF NoGap, Sent, Held, Numbered, Outputs
<1> QED BY <1>1, <1>2, <1>3, <1>4, <1>5 DEF IInv

(* Every action preserves the types.                                       *)
LEMMA TypeStep == ASSUME TypeOK, ThreadSocket, [Next]_vars PROVE TypeOK'
<1> USE DEF TypeOK, main, outgoing, incoming, sender, connection, network
<1>1. CASE UNCHANGED vars
  BY <1>1 DEF vars
<1>2. CASE Start
  BY <1>2 DEF Start
<1>3. CASE WaitReturns \/ WaitTimesOut
  BY <1>3 DEF WaitReturns, WaitTimesOut
<1>4. CASE PutOutput
  BY <1>4 DEF PutOutput
<1>5. CASE PutChat
  BY <1>5 DEF PutChat
<1>6. ASSUME NEW k \in Kind, Get(k) PROVE TypeOK'
  <2>1. inQueue[k] \in Seq(Nat) /\ inQueue[k] # <<>> /\ inQueue' = [inQueue EXCEPT ![k] = Tail(@)]
    BY <1>6 DEF Get
  <2>2. Tail(inQueue[k]) \in Seq(Nat)
    BY <2>1, HeadTailProperties
  <2>3. inQueue' \in [Kind -> Seq(Nat)]
    BY <2>1, <2>2
  <2> QED BY <1>6, <2>3 DEF Get
<1>7. CASE Stop
  <2>1. Append(queue, SENTINEL) \in Seq(Nat \cup {SENTINEL})
    BY AppendProperties
  <2> QED BY <1>7, <2>1 DEF Stop
<1>8. CASE JoinReturns \/ JoinTimesOut \/ Exit
  BY <1>8 DEF JoinReturns, JoinTimesOut, Exit
<1>9. CASE ConnectSucceeds \/ ConnectFails
  BY <1>9 DEF ConnectSucceeds, ConnectFails
<1>10. CASE Poll
  <2>1. queue # <<>> => /\ Head(queue) \in Nat \cup {SENTINEL}
                        /\ Tail(queue) \in Seq(Nat \cup {SENTINEL})
    BY HeadTailProperties
  <2>2. /\ queue' \in Seq(Nat \cup {SENTINEL}) /\ item' \in Nat \cup {NoItem}
        /\ gotData' \in BOOLEAN
    BY <1>10, <2>1 DEF Poll, Take, ToldToStop
  <2> QED BY <1>10, <2>2 DEF Poll
<1>11. CASE SendOutput
  <2>1. item \in Nat
    BY <1>11 DEF SendOutput, ThreadSocket
  <2>2. Append(wire, item) \in Seq(Nat)
    BY <2>1, AppendProperties
  <2>3. wire' \in Seq(Nat) /\ thread' \in {"chatting", "closing"} /\ item' = NoItem
    BY <1>11, <2>2 DEF SendOutput
  <2> QED BY <1>11, <2>3 DEF SendOutput
<1>12. CASE SendChat
  <2>1. chatOut # <<>> => Head(chatOut) \in Nat /\ Tail(chatOut) \in Seq(Nat)
    BY HeadTailProperties
  <2>2. chatOut # <<>> => Append(wireChat, Head(chatOut)) \in Seq(Nat)
    BY <2>1, AppendProperties
  <2>3. /\ chatOut' \in Seq(Nat) /\ wireChat' \in Seq(Nat)
        /\ thread' \in {"polling", "sleeping"}
    BY <1>12, <2>1, <2>2 DEF SendChat, HasChat, TurnEnds
  <2> QED BY <1>12, <2>3 DEF SendChat
<1>13. CASE WakeUp \/ Close
  BY <1>13 DEF WakeUp, Close
<1>14. ASSUME NEW k \in Kind, Receive(k) PROVE TypeOK'
  <2>1. nIncoming[k] + 1 \in Nat /\ inQueue[k] \in Seq(Nat)
    OBVIOUS
  <2>2. Append(inQueue[k], nIncoming[k] + 1) \in Seq(Nat)
    BY <2>1, AppendProperties
  <2> QED BY <1>14, <2>1, <2>2 DEF Receive
<1>15. CASE RelayReceives
  <2>1. wire # <<>> => Append(relayed, Head(wire)) \in Seq(Nat) /\ Tail(wire) \in Seq(Nat)
    BY HeadTailProperties, AppendProperties
  <2>2. wireChat # <<>> => /\ Append(relayedChat, Head(wireChat)) \in Seq(Nat)
                           /\ Tail(wireChat) \in Seq(Nat)
    BY HeadTailProperties, AppendProperties
  <2>3. /\ wire' \in Seq(Nat) /\ relayed' \in Seq(Nat)
        /\ wireChat' \in Seq(Nat) /\ relayedChat' \in Seq(Nat)
    BY <1>15, <2>1, <2>2 DEF RelayReceives
  <2>4. UNCHANGED <<main, connection, outgoing, incoming, sender>>
    BY <1>15 DEF RelayReceives
  <2> QED BY <2>3, <2>4
<1>16. CASE ConnectionLost
  BY <1>16 DEF ConnectionLost
<1> QED BY <1>1, <1>2, <1>3, <1>4, <1>5, <1>6, <1>7, <1>8, <1>9, <1>10, <1>11,
           <1>12, <1>13, <1>14, <1>15, <1>16 DEF Next, Main, Sender

(* The two threads' places, and what they know of each other.              *)
LEMMA ControlStep ==
    ASSUME TypeOK, CallerStarted, ThreadSocket, [Next]_vars
    PROVE  CallerStarted' /\ ThreadSocket'
<1> USE DEF CallerStarted, ThreadSocket, main, outgoing, incoming, sender, connection,
            network
<1>1. CASE UNCHANGED vars
  BY <1>1 DEF vars
<1>2. CASE Start
  BY <1>2 DEF Start, TypeOK
<1>3. CASE WaitReturns \/ WaitTimesOut
  BY <1>3 DEF WaitReturns, WaitTimesOut
<1>4. CASE PutOutput \/ PutChat \/ \E k \in Kind : Get(k)
  BY <1>4 DEF PutOutput, PutChat, Get
<1>5. CASE Stop
  BY <1>5 DEF Stop
<1>6. CASE JoinReturns \/ JoinTimesOut
  BY <1>6 DEF JoinReturns, JoinTimesOut
<1>7. CASE Exit
  BY <1>7 DEF Exit
<1>8. CASE ConnectSucceeds \/ ConnectFails
  BY <1>8 DEF ConnectSucceeds, ConnectFails
<1>9. CASE Poll
  <2>1. queue # <<>> /\ ~ToldToStop => Head(queue) \in Nat
    BY HeadTailProperties DEF TypeOK, ToldToStop
  <2>2. thread = "polling" /\ thread' \in {"chatting", "closing", "sending"}
    BY <1>9 DEF Poll
  <2>3. item' # NoItem <=> thread' = "sending"
    BY <1>9, <2>1, ItemAssumption DEF Poll, Take
  <2> QED BY <1>9, <2>2, <2>3 DEF Poll
<1>10. CASE SendOutput
  BY <1>10 DEF SendOutput
<1>11. CASE SendChat
  BY <1>11 DEF SendChat, TurnEnds
<1>12. CASE WakeUp \/ Close
  BY <1>12 DEF WakeUp, Close
<1>13. CASE \E k \in Kind : Receive(k)
  BY <1>13 DEF Receive
<1>14. CASE RelayReceives
  BY <1>14 DEF RelayReceives
<1>15. CASE ConnectionLost
  BY <1>15 DEF ConnectionLost
<1> QED BY <1>1, <1>2, <1>3, <1>4, <1>5, <1>6, <1>7, <1>8, <1>9, <1>10, <1>11,
           <1>12, <1>13, <1>14, <1>15 DEF Next, Main, Sender

(* The stop item stays last.                                               *)
LEMMA StopStep ==
    ASSUME TypeOK, CallerStarted, ThreadSocket, StopIsLast, [Next]_vars
    PROVE  StopIsLast'
<1> USE DEF StopIsLast, main, outgoing, incoming, sender, connection, network
<1>q. queue \in Seq(Nat \cup {SENTINEL})
  BY DEF TypeOK
<1>1. CASE UNCHANGED vars
  BY <1>1 DEF vars, StopsLast, NoStop
<1>2. CASE Start
  BY <1>2 DEF Start, CallerStarted, ThreadSocket, StopsLast, NoStop
<1>3. CASE WaitReturns \/ WaitTimesOut
  BY <1>3 DEF WaitReturns, WaitTimesOut, CallerStarted, StopsLast, NoStop
<1>4. CASE PutOutput
  <2>1. started /\ nOutput + 1 \in Nat
    BY <1>4 DEF PutOutput, CallerStarted, TypeOK
  <2>2. NoStop(Append(queue, nOutput + 1)) /\ queue' = Append(queue, nOutput + 1)
    BY <1>4, <1>q, <2>1, AppendToQueue DEF PutOutput
  <2>3. NoStop(queue') /\ StopsLast(queue')
    BY <2>2 DEF NoStop, StopsLast
  <2> QED BY <1>4, <2>1, <2>3 DEF PutOutput
<1>5. CASE PutChat \/ \E k \in Kind : Get(k)
  BY <1>5 DEF PutChat, Get, StopsLast, NoStop
<1>6. CASE Stop
  <2>1. StopsLast(Append(queue, SENTINEL)) /\ queue' = Append(queue, SENTINEL)
    BY <1>6, <1>q, AppendToQueue, 0 \in Nat DEF Stop
  <2>2. StopsLast(queue')
    BY <2>1
  <2> QED BY <1>6, <2>2 DEF Stop, CallerStarted
<1>7. CASE JoinReturns \/ JoinTimesOut \/ Exit
  BY <1>7 DEF JoinReturns, JoinTimesOut, Exit, StopsLast, NoStop, CallerStarted, ThreadSocket
<1>8. CASE ConnectSucceeds \/ ConnectFails
  BY <1>8 DEF ConnectSucceeds, ConnectFails, StopsLast, NoStop, ThreadSocket
<1>9. CASE Poll
  <2>1. CASE queue = <<>>
    BY <1>9, <2>1 DEF Poll, ToldToStop, StopsLast, NoStop
  <2>2. CASE queue # <<>>
    <3>1. queue' = Tail(queue) /\ StopsLast(queue') /\ (NoStop(queue) => NoStop(queue'))
      BY <1>9, <2>2, <1>q, TailOfQueue DEF Poll, Take
    <3>2. ToldToStop => Tail(queue) = <<>> /\ ~NoStop(queue)
      <4>1. ToldToStop => Tail(queue) = <<>>
        BY <1>q, OutputsOfQueue DEF ToldToStop
      <4>2. ToldToStop => 1 \in 1..Len(queue) /\ queue[1] = SENTINEL
        BY <1>q, <2>2, EmptySeq DEF ToldToStop
      <4> QED BY <4>1, <4>2 DEF NoStop
    <3>3. thread' = "closing" => ToldToStop
      BY <1>9 DEF Poll
    <3> QED BY <1>9, <3>1, <3>2, <3>3 DEF Poll, CallerStarted, ThreadSocket
  <2> QED BY <2>1, <2>2
<1>10. CASE SendOutput
  BY <1>10 DEF SendOutput, StopsLast, NoStop, ThreadSocket
<1>11. CASE SendChat
  BY <1>11 DEF SendChat, TurnEnds, StopsLast, NoStop
<1>12. CASE WakeUp \/ Close
  BY <1>12 DEF WakeUp, Close, StopsLast, NoStop, ThreadSocket
<1>13. CASE \E k \in Kind : Receive(k)
  BY <1>13 DEF Receive, StopsLast, NoStop
<1>14. CASE RelayReceives
  BY <1>14 DEF RelayReceives, StopsLast, NoStop
<1>15. CASE ConnectionLost
  BY <1>15 DEF ConnectionLost, StopsLast, NoStop
<1> QED BY <1>1, <1>2, <1>3, <1>4, <1>5, <1>6, <1>7, <1>8, <1>9, <1>10, <1>11,
           <1>12, <1>13, <1>14, <1>15 DEF Next, Main, Sender

(* The chat stays without a gap.                                           *)
LEMMA ChatStep ==
    ASSUME TypeOK, ThreadSocket, ChatNoGap, [Next]_vars
    PROVE  ChatNoGap'
<1> USE DEF main, outgoing, incoming, sender, connection, network
<1>t. /\ relayedChat \in Seq(Nat) /\ wireChat \in Seq(Nat) /\ chatOut \in Seq(Nat)
      /\ nChat \in Nat /\ SentChat \in Nat /\ Len(relayedChat) \in Nat
  BY LenProperties DEF TypeOK, SentChat
<1>1. ASSUME UNCHANGED <<relayedChat, wireChat, chatOut, nChat>>,
             socket' \in {"none", "up"} => socket \in {"none", "up"}
      PROVE  ChatNoGap'
  BY <1>1 DEF ChatNoGap, SentChat, Numbered
<1>2. CASE UNCHANGED vars
  BY <1>2, <1>1 DEF vars
<1>3. CASE PutChat
  <2>1. /\ chatOut' = Append(chatOut, nChat + 1) /\ nChat' = nChat + 1
        /\ UNCHANGED <<relayedChat, wireChat, socket>>
    BY <1>3 DEF PutChat
  <2>2. CASE socket \in {"none", "up"}
    <3>1. Numbered(chatOut, SentChat) /\ nChat + 1 = SentChat + Len(chatOut) + 1
      BY <2>2, <1>t, LenProperties DEF ChatNoGap
    <3>2. Numbered(chatOut', SentChat)
      BY <3>1, <2>1, <1>t, NumberedAppend
    <3>3. Len(chatOut') = Len(chatOut) + 1
      BY <2>1, <1>t, AppendProperties
    <3>4. nChat' = SentChat + Len(chatOut')
      BY <3>1, <3>3, <2>1, <1>t, LenProperties
    <3> QED BY <2>1, <3>2, <3>4 DEF ChatNoGap, SentChat, Numbered
  <2>3. CASE socket \notin {"none", "up"}
    BY <2>1, <2>3 DEF ChatNoGap, Numbered
  <2> QED BY <2>2, <2>3
<1>4. CASE SendChat
  <2>1. CASE chatOut = <<>>
    BY <1>4, <2>1, <1>1 DEF SendChat, HasChat
  <2>2. CASE chatOut # <<>> /\ socket = "up"
    <3>1. /\ chatOut' = Tail(chatOut) /\ wireChat' = Append(wireChat, Head(chatOut))
          /\ UNCHANGED <<relayedChat, nChat, socket>>
      BY <1>4, <2>2 DEF SendChat, HasChat
    <3>2. Numbered(chatOut, SentChat) /\ nChat = SentChat + Len(chatOut)
      BY <2>2 DEF ChatNoGap
    <3>3. Head(chatOut) = SentChat + 1 /\ Numbered(Tail(chatOut), SentChat + 1)
      BY <3>2, <2>2, <1>t, NumberedTail
    <3>4. /\ Len(Tail(chatOut)) = Len(chatOut) - 1
          /\ Len(wireChat') = Len(wireChat) + 1
      BY <3>1, <3>3, <2>2, <1>t, HeadTailProperties, AppendProperties
    <3>5. Head(chatOut) = Len(relayedChat) + Len(wireChat) + 1 /\ Head(chatOut) \in Nat
      BY <3>3, <1>t DEF SentChat
    <3>6. Numbered(wireChat', Len(relayedChat))
      BY <3>1, <3>5, <1>t, NumberedAppend DEF ChatNoGap
    <3>7. SentChat' = SentChat + 1
      BY <3>1, <3>4, <1>t, LenProperties DEF SentChat
    <3>8. nChat' = SentChat' + Len(chatOut')
      <4>1. SentChat + 1 + Len(Tail(chatOut)) = SentChat + Len(chatOut)
        BY <2>2, <1>t, TailLength
      <4> QED BY <4>1, <3>1, <3>2, <3>7
    <3> QED BY <3>1, <3>3, <3>6, <3>7, <3>8 DEF ChatNoGap, Numbered
  <2>3. CASE chatOut # <<>> /\ socket # "up"
    <3>1. socket' = "lost" /\ UNCHANGED <<relayedChat, wireChat>>
      BY <1>4, <2>3 DEF SendChat, HasChat, ThreadSocket
    <3> QED BY <3>1 DEF ChatNoGap, Numbered
  <2> QED BY <2>1, <2>2, <2>3
<1>5. CASE RelayReceives
  <2>1. CASE UNCHANGED <<wireChat, relayedChat>>
    BY <1>5, <2>1, <1>1 DEF RelayReceives
  <2>2. CASE /\ wireChat # <<>> /\ relayedChat' = Append(relayedChat, Head(wireChat))
             /\ wireChat' = Tail(wireChat)
    <3>1. /\ Head(wireChat) = Len(relayedChat) + 1 /\ Head(wireChat) \in Nat
          /\ Numbered(Tail(wireChat), Len(relayedChat) + 1)
      BY <2>2, <1>t, NumberedTail DEF ChatNoGap
    <3>2. /\ Len(relayedChat') = Len(relayedChat) + 1
          /\ Len(wireChat') = Len(wireChat) - 1
      BY <2>2, <3>1, <1>t, HeadTailProperties, AppendProperties
    <3>3. Head(wireChat) = 0 + Len(relayedChat) + 1
      BY <3>1, <1>t
    <3>4. Numbered(relayedChat', 0)
      BY <2>2, <3>1, <3>3, <1>t, NumberedAppend DEF ChatNoGap
    <3>5. SentChat' = SentChat
      BY <3>2, <1>t, LenProperties DEF SentChat
    <3>6. UNCHANGED <<chatOut, nChat, socket>>
      BY <1>5 DEF RelayReceives
    <3> QED BY <2>2, <3>1, <3>2, <3>4, <3>5, <3>6 DEF ChatNoGap, Numbered
  <2> QED BY <1>5, <2>1, <2>2 DEF RelayReceives
<1>6. CASE ConnectionLost
  BY <1>6 DEF ConnectionLost, ChatNoGap, Numbered
<1>7. CASE Start \/ WaitReturns \/ WaitTimesOut \/ PutOutput \/ \E k \in Kind : Get(k)
  BY <1>7, <1>1 DEF Start, WaitReturns, WaitTimesOut, PutOutput, Get
<1>8. CASE Stop \/ JoinReturns \/ JoinTimesOut \/ Exit
  BY <1>8, <1>1 DEF Stop, JoinReturns, JoinTimesOut, Exit
<1>9. CASE ConnectSucceeds \/ ConnectFails
  BY <1>9, <1>1 DEF ConnectSucceeds, ConnectFails, ThreadSocket
<1>10. CASE Poll \/ SendOutput
  BY <1>10, <1>1 DEF Poll, SendOutput
<1>11. CASE WakeUp \/ Close \/ \E k \in Kind : Receive(k)
  BY <1>11, <1>1 DEF WakeUp, Close, Receive
<1> QED BY <1>2, <1>3, <1>4, <1>5, <1>6, <1>7, <1>8, <1>9, <1>10, <1>11
        DEF Next, Main, Sender

(* Outputs stay without a gap.                                             *)
LEMMA GapStep ==
    ASSUME TypeOK, CallerStarted, ThreadSocket, StopIsLast, NoGap, [Next]_vars
    PROVE  NoGap'
<1> USE DEF main, outgoing, incoming, sender, connection, network
<1>q. queue \in Seq(Nat \cup {SENTINEL}) /\ StopsLast(queue)
  BY DEF TypeOK, StopIsLast
<1>t. /\ relayed \in Seq(Nat) /\ wire \in Seq(Nat) /\ Outputs(queue) \in Seq(Nat)
      /\ nOutput \in Nat /\ Sent \in Nat /\ Held \in Nat /\ Len(relayed) \in Nat
      /\ Len(wire) \in Nat /\ Len(Outputs(queue)) \in Nat
  <2>1. Outputs(queue) \in Seq(Nat)
    BY <1>q, OutputsOfQueue
  <2>2. relayed \in Seq(Nat) /\ wire \in Seq(Nat) /\ nOutput \in Nat
    BY DEF TypeOK
  <2>3. /\ Len(relayed) \in Nat /\ Len(wire) \in Nat
        /\ Len(Outputs(queue)) \in Nat
    BY <2>1, <2>2, LenProperties
  <2> QED BY <2>1, <2>2, <2>3 DEF Sent, Held
<1>1. ASSUME UNCHANGED <<relayed, wire, item, nOutput>>,
             Outputs(queue') = Outputs(queue), Whole' => Whole
      PROVE  NoGap'
  BY <1>1 DEF NoGap, Sent, Held, Numbered
<1>2. CASE UNCHANGED vars
  BY <1>2, <1>1 DEF vars, Whole
<1>3. CASE PutOutput
  <2>1. /\ queue' = Append(queue, nOutput + 1) /\ nOutput' = nOutput + 1
        /\ UNCHANGED <<relayed, wire, item, socket, caller>> /\ nOutput + 1 \in Nat
    BY <1>3, <1>t DEF PutOutput
  <2>2. NoStop(queue)
    BY <1>3 DEF PutOutput, CallerStarted, StopIsLast
  <2>3. Outputs(queue') = Append(Outputs(queue), nOutput + 1)
    BY <2>1, <2>2, <1>q, AppendToQueue
  <2>4. CASE Whole
    <3> DEFINE n == Len(Outputs(queue))
    <3>1. /\ Numbered(Outputs(queue), Sent + Held) /\ nOutput = Sent + Held + n
          /\ item # NoItem => item = Sent + 1
      BY <2>4 DEF NoGap
    <3>2. Len(Outputs(queue')) = n + 1
      BY <2>1, <2>3, <1>t, AppendProperties
    <3>3. Sent' = Sent /\ Held' = Held
      BY <2>1 DEF Sent, Held
    <3>4. Sent + Held \in Nat /\ n \in Nat
      BY <1>t
    <3>5. Numbered(Outputs(queue'), Sent + Held)
      BY <2>1, <2>3, <3>1, <3>4, <1>t, NumberedAppend
    <3> HIDE DEF n
    <3>6. nOutput + 1 = Sent + Held + (n + 1)
      <4>1. \A a, b \in Nat : a + b + 1 = a + (b + 1)
        OBVIOUS
      <4> QED BY <3>1, <3>4, <4>1
    <3> QED BY <2>1, <3>1, <3>2, <3>3, <3>5, <3>6 DEF NoGap, Numbered
  <2>5. CASE ~Whole
    BY <2>1, <2>5 DEF NoGap, Whole, Numbered
  <2> QED BY <2>4, <2>5
<1>4. CASE Stop
  <2>1. queue' = Append(queue, SENTINEL) /\ NoStop(queue)
    BY <1>4 DEF Stop, StopIsLast
  <2>2. Outputs(queue') = Outputs(queue)
    BY <2>1, <1>q, AppendToQueue, 0 \in Nat
  <2> QED BY <1>4, <2>2, <1>1 DEF Stop, Whole
<1>5. CASE Poll
  <2>0. UNCHANGED <<relayed, wire, nOutput, socket, caller>> /\ item = NoItem
    BY <1>5 DEF Poll, ThreadSocket
  <2>1. CASE queue = <<>>
    BY <1>5, <2>0, <2>1, <1>1 DEF Poll, ToldToStop, Whole
  <2>2. CASE ToldToStop
    <3>1. queue' = Tail(queue) /\ UNCHANGED item
      BY <1>5, <2>2 DEF Poll, ToldToStop
    <3>2. Tail(queue) = <<>> /\ Outputs(queue) = <<>>
      BY <2>2, <1>q, OutputsOfQueue DEF ToldToStop
    <3>3. Outputs(queue') = Outputs(queue)
      BY <3>1, <3>2 DEF Outputs
    <3> QED BY <2>0, <3>1, <3>3, <1>1 DEF Whole
  <2>3. CASE queue # <<>> /\ ~ToldToStop
    <3>1. item' = Head(queue) /\ queue' = Tail(queue)
      BY <1>5, <2>3 DEF Poll, Take
    <3>2. /\ Outputs(queue) # <<>> /\ Head(Outputs(queue)) = Head(queue)
          /\ Outputs(queue') = Tail(Outputs(queue))
      BY <3>1, <2>3, <1>q, OutputsOfQueue DEF ToldToStop
    <3>3. Sent' = Sent /\ Held = 0
      BY <2>0 DEF Sent, Held
    <3>4. CASE Whole
      <4>1. /\ Numbered(Outputs(queue), Sent + 0)
            /\ nOutput = Sent + 0 + Len(Outputs(queue))
        BY <3>3, <3>4 DEF NoGap
      <4>2. Sent + 0 = Sent
        BY <1>t
      <4>3. /\ Head(Outputs(queue)) = Sent + 1
            /\ Numbered(Tail(Outputs(queue)), Sent + 1)
        BY <4>1, <4>2, <3>2, <1>t, NumberedTail
      <4>4. item' = Sent + 1 /\ Held' = 1
        <5>1. item' = Sent + 1
          BY <4>3, <3>1, <3>2
        <5>2. Sent + 1 \in Nat
          BY <1>t
        <5> QED BY <5>1, <5>2, ItemAssumption DEF Held
      <4>5. Sent + 1 + Len(Tail(Outputs(queue))) = Sent + Len(Outputs(queue))
        BY <1>t, <3>2, TailLength
      <4>6. nOutput' = Sent + 1 + Len(Outputs(queue'))
        BY <4>1, <4>2, <4>5, <2>0, <3>2
      <4> QED BY <2>0, <3>2, <3>3, <4>3, <4>4, <4>6 DEF NoGap, Numbered
    <3>5. CASE ~Whole
      BY <2>0, <3>5 DEF NoGap, Whole, Numbered
    <3> QED BY <3>4, <3>5
  <2> QED BY <2>1, <2>2, <2>3 DEF ToldToStop
<1>6. CASE SendOutput
  <2>0. /\ UNCHANGED <<relayed, queue, nOutput, socket, caller>> /\ item' = NoItem
        /\ item # NoItem /\ socket \in {"up", "lost"} /\ item \in Nat
    BY <1>6 DEF SendOutput, ThreadSocket, TypeOK
  <2>1. CASE socket = "up"
    <3>1. wire' = Append(wire, item)
      BY <1>6, <2>1 DEF SendOutput
    <3>2. Whole /\ Held = 1 /\ Held' = 0
      BY <2>0, <2>1 DEF Whole, Held, ThreadSocket
    <3>3. /\ item = Sent + 1 /\ Numbered(Outputs(queue), Sent + 1)
          /\ nOutput = Sent + 1 + Len(Outputs(queue))
      BY <2>0, <3>2 DEF NoGap
    <3>4. item = Len(relayed) + Len(wire) + 1
      BY <3>3 DEF Sent
    <3>5. Numbered(wire', Len(relayed))
      BY <3>1, <3>4, <2>0, <1>t, NumberedAppend DEF NoGap
    <3>6. Len(wire') = Len(wire) + 1
      BY <3>1, <2>0, <1>t, AppendProperties
    <3>7. Sent' = Sent + 1 /\ Sent' + Held' = Sent + 1
      BY <3>2, <3>6, <2>0, <1>t DEF Sent
    <3> QED BY <2>0, <3>3, <3>5, <3>7 DEF NoGap, Numbered
  <2>2. CASE socket = "lost"
    <3>1. UNCHANGED wire
      BY <1>6, <2>2 DEF SendOutput
    <3> QED BY <2>0, <2>2, <3>1 DEF NoGap, Whole, Numbered
  <2> QED BY <2>0, <2>1, <2>2
<1>7. CASE RelayReceives
  <2>0. UNCHANGED <<queue, item, nOutput, socket, caller>>
    BY <1>7 DEF RelayReceives
  <2>1. CASE UNCHANGED <<wire, relayed>>
    BY <2>0, <2>1, <1>1 DEF Whole
  <2>2. CASE /\ wire # <<>> /\ relayed' = Append(relayed, Head(wire))
             /\ wire' = Tail(wire)
    <3>1. /\ Head(wire) = Len(relayed) + 1 /\ Head(wire) \in Nat
          /\ Numbered(Tail(wire), Len(relayed) + 1)
      BY <2>2, <1>t, NumberedTail DEF NoGap
    <3>2. Len(relayed') = Len(relayed) + 1
      BY <2>2, <3>1, <1>t, AppendProperties
    <3>3. Head(wire) = 0 + Len(relayed) + 1
      BY <3>1, <1>t
    <3>4. Numbered(relayed', 0)
      BY <2>2, <3>1, <3>3, <1>t, NumberedAppend DEF NoGap
    <3>5. Len(relayed) + 1 + Len(Tail(wire)) = Len(relayed) + Len(wire)
      BY <2>2, <1>t, TailLength
    <3>6. Sent' = Sent
      BY <2>2, <3>2, <3>5 DEF Sent
    <3>7. Numbered(wire', Len(relayed'))
      BY <2>2, <3>1, <3>2
    <3>8. Held' = Held /\ (Whole' => Whole)
      BY <2>0 DEF Held, Whole
    <3> QED BY <2>0, <3>4, <3>6, <3>7, <3>8 DEF NoGap, Numbered
  <2> QED BY <1>7, <2>1, <2>2 DEF RelayReceives
<1>8. CASE ConnectionLost
  <2>1. socket' = "lost" /\ wire' = <<>> /\ relayed' = relayed
    BY <1>8 DEF ConnectionLost
  <2>2. Numbered(relayed', 0) /\ Numbered(wire', Len(relayed'))
    BY <2>1, EmptySeq DEF NoGap, Numbered
  <2> QED BY <2>1, <2>2 DEF NoGap, Whole
<1>9. CASE Exit
  <2>1. caller' = "exited" /\ UNCHANGED <<wire, relayed>>
    BY <1>9 DEF Exit
  <2> QED BY <2>1 DEF NoGap, Whole, Numbered
<1>10. CASE \/ Start \/ WaitReturns \/ WaitTimesOut \/ JoinReturns \/ JoinTimesOut
            \/ PutChat \/ \E k \in Kind : Get(k)
  BY <1>10, <1>1 DEF Start, WaitReturns, WaitTimesOut, JoinReturns, JoinTimesOut,
                     PutChat, Get, Whole
<1>11. CASE ConnectSucceeds \/ ConnectFails
  BY <1>11, <1>1 DEF ConnectSucceeds, ConnectFails, ThreadSocket, Whole
<1>12. CASE SendChat \/ WakeUp \/ Close \/ \E k \in Kind : Receive(k)
  BY <1>12, <1>1 DEF SendChat, WakeUp, Close, Receive, Whole
<1> QED BY <1>2, <1>3, <1>4, <1>5, <1>6, <1>7, <1>8, <1>9, <1>10, <1>11, <1>12
        DEF Next, Main, Sender

-----------------------------------------------------------------------------
(* The inductive invariant holds in every behaviour.                       *)
THEOREM Invariance == Spec => []IInv
<1>1. IInv /\ [Next]_vars => IInv'
  BY TypeStep, ControlStep, StopStep, ChatStep, GapStep DEF IInv
<1> QED BY InitIInv, <1>1, PTL DEF Spec

(* Every variable keeps to its set of values, for any number of outputs,   *)
(* messages and frames (relay_bridge.py:49-149).                           *)
THEOREM TypeCorrect == Spec => []TypeOK
<1>1. IInv => TypeOK
  BY DEF IInv
<1> QED BY Invariance, <1>1, PTL

(* What the relay has of the host's output and chat is a prefix of it, in  *)
(* order and without a gap, whatever the two threads, the connection and   *)
(* stop() do (relay_bridge.py:151-251).                                    *)
THEOREM PrefixReceived == Spec => []RelayHasPrefix
<1>1. IInv => RelayHasPrefix
  BY DEF IInv, ChatNoGap, NoGap, RelayHasPrefix
<1> QED BY Invariance, <1>1, PTL

(* stop() with a connection that did not fail returns, if within its two   *)
(* seconds, only when every output handed to send() has been sent          *)
(* (relay_bridge.py:64-70, 207-227).                                       *)
THEOREM StopFlushes == Spec => []StopFlushesOutput
<1>1. IInv => StopFlushesOutput
  <2> SUFFICES ASSUME IInv, caller = "stopped", socket = "closed"
               PROVE  Sent = nOutput
    BY DEF StopFlushesOutput, Sent
  <2>1. thread = "ended" /\ item = NoItem
    BY DEF IInv, ThreadSocket, TypeOK
  <2>2. queue = <<>>
    BY <2>1 DEF IInv, StopIsLast
  <2>3. Outputs(queue) = <<>> /\ Len(<<>>) = 0
    BY <2>2 DEF Outputs
  <2>4. nOutput = Sent + 0 + 0
    BY <2>1, <2>3 DEF IInv, NoGap, Whole, Held
  <2>5. Sent \in Nat
    BY LenProperties DEF IInv, TypeOK, Sent
  <2> QED BY <2>4, <2>5
<1> QED BY Invariance, <1>1, PTL

-----------------------------------------------------------------------------
(* The bridge as a stream: concatenations.                                 *)
LEMMA ConcatHeadTail ==
    ASSUME NEW S, NEW s \in Seq(S), NEW t \in Seq(S), s # <<>>
    PROVE  s \o t # <<>> /\ Head(s \o t) = Head(s) /\ Tail(s \o t) = Tail(s) \o t
<1>1. PICK m \in Nat : m = Len(s)
  BY LenProperties
<1>2. PICK n \in Nat : n = Len(t)
  BY LenProperties
<1>3. m >= 1 /\ m + n - 1 \in Nat /\ m + n >= 1 /\ m - 1 \in Nat /\ m - 1 + n = m + n - 1
  BY <1>1, <1>2, EmptySeq
<1> DEFINE u == s \o t
           v == Tail(s)
<1>4. u \in Seq(S) /\ Len(u) = m + n
      /\ \A i \in 1..m + n : u[i] = IF i <= m THEN s[i] ELSE t[i - m]
  BY <1>1, <1>2, ConcatProperties
<1>5. v \in Seq(S) /\ Len(v) = m - 1 /\ \A i \in 1..m - 1 : v[i] = s[i + 1]
  BY <1>1, HeadTailProperties
<1> HIDE DEF v
<1>6. v \o t \in Seq(S) /\ Len(v \o t) = m + n - 1
      /\ \A i \in 1..m + n - 1 : (v \o t)[i] = IF i <= m - 1 THEN v[i] ELSE t[i - (m - 1)]
  <2>1. v \o t \in Seq(S) /\ Len(v \o t) = Len(v) + Len(t)
        /\ \A i \in 1..Len(v) + Len(t) : (v \o t)[i] = IF i <= Len(v) THEN v[i] ELSE t[i - Len(v)]
    BY <1>5, ConcatProperties
  <2>2. Len(v) = m - 1 /\ Len(t) = n
    BY <1>2, <1>5
  <2> QED BY <2>1, <2>2, <1>3
<1> HIDE DEF u
<1>7. u # <<>>
  BY <1>3, <1>4, EmptySeq
<1>8. Tail(u) \in Seq(S) /\ Len(Tail(u)) = m + n - 1
      /\ \A i \in 1..m + n - 1 : Tail(u)[i] = u[i + 1]
  BY <1>4, <1>7, HeadTailProperties
<1>9. Head(u) = Head(s)
  BY <1>3, <1>4, <1>7, EmptySeq
<1>10. ASSUME NEW i \in 1..m + n - 1 PROVE Tail(u)[i] = (v \o t)[i]
  <2>1. i + 1 \in 1..m + n /\ (i + 1 <= m <=> i <= m - 1) /\ i + 1 - m = i - (m - 1)
    BY <1>3
  <2>2. Tail(u)[i] = IF i + 1 <= m THEN s[i + 1] ELSE t[i + 1 - m]
    BY <2>1, <1>4, <1>8
  <2>3. (v \o t)[i] = IF i <= m - 1 THEN v[i] ELSE t[i - (m - 1)]
    BY <1>6
  <2>4. i <= m - 1 => v[i] = s[i + 1]
    BY <1>5, <1>3
  <2> QED BY <2>1, <2>2, <2>3, <2>4
<1>11. Tail(u) = v \o t
  BY <1>6, <1>8, <1>10, SeqEqual
<1> QED BY <1>7, <1>9, <1>11 DEF u, v

LEMMA ConcatPrefix ==
    ASSUME NEW S, NEW s \in Seq(S), NEW t \in Seq(S)
    PROVE  Len(s) \in 0..Len(s \o t) /\ SubSeq(s \o t, 1, Len(s)) = s
<1>1. PICK m \in Nat : m = Len(s)
  BY LenProperties
<1>2. PICK n \in Nat : n = Len(t)
  BY LenProperties
<1> DEFINE u == s \o t
<1>3. u \in Seq(S) /\ Len(u) = m + n /\ \A i \in 1..m : u[i] = s[i]
  BY <1>1, <1>2, ConcatProperties
<1> HIDE DEF u
<1>4. m <= m + n /\ 1 <= m + 1 /\ m - 1 + 1 = m
  BY <1>1, <1>2
<1>5. SubSeq(u, 1, m) \in Seq(S) /\ Len(SubSeq(u, 1, m)) = m
      /\ \A i \in 1..m : SubSeq(u, 1, m)[i] = u[1 + i - 1]
  BY <1>3, <1>4, PartOfSeq
<1>6. ASSUME NEW i \in 1..m PROVE SubSeq(u, 1, m)[i] = s[i]
  <2>1. 1 + i - 1 = i
    OBVIOUS
  <2> QED BY <2>1, <1>3, <1>5
<1>7. SubSeq(u, 1, m) = s
  BY <1>1, <1>5, <1>6, SeqEqual
<1>8. Len(u) = m + n /\ m \in 0..m + n
  BY <1>3, <1>4
<1> QED BY <1>1, <1>7, <1>8, Zenon DEF u

LEMMA ConcatThree ==
    ASSUME NEW r \in Seq(Nat), NEW s \in Seq(Nat), NEW t \in Seq(Nat)
    PROVE  /\ r \o s \in Seq(Nat) /\ s \o t \in Seq(Nat)
           /\ (r \o s) \o t = r \o (s \o t)
<1>1. r \o s \in Seq(Nat) /\ s \o t \in Seq(Nat)
  BY ConcatProperties
<1>2. (r \o s) \o t = r \o (s \o t)
  BY ConcatAssociative, SMTT(20)
<1> QED BY <1>1, <1>2

(* A concatenation that ends with an element.                              *)
LEMMA ConcatOne ==
    ASSUME NEW S, NEW s \in Seq(S), NEW t \in Seq(S), NEW x \in S
    PROVE  /\ s \o Append(t, x) = Append(s \o t, x)
           /\ s \o <<x>> = Append(s, x)
<1>1. <<x>> \in Seq(S) /\ s \o t \in Seq(S)
  BY ConcatProperties
<1>2. Append(t, x) = t \o <<x>> /\ Append(s \o t, x) = (s \o t) \o <<x>>
      /\ Append(s, x) = s \o <<x>>
  BY <1>1, AppendIsConcat
<1>3. (s \o t) \o <<x>> = s \o (t \o <<x>>)
  BY <1>1, ConcatAssociative
<1> QED BY <1>2, <1>3

(* A non-empty sequence begins with its oldest element.                    *)
LEMMA HeadThenTail ==
    ASSUME NEW S, NEW s \in Seq(S), s # <<>>
    PROVE  <<Head(s)>> \o Tail(s) = s
<1>1. PICK n \in Nat : n = Len(s)
  BY LenProperties
<1>2. Head(s) = s[1] /\ Head(s) \in S /\ Tail(s) \in Seq(S) /\ Len(Tail(s)) = n - 1
      /\ n >= 1 /\ \A i \in 1..n - 1 : Tail(s)[i] = s[i + 1]
  BY <1>1, HeadTailProperties, EmptySeq
<1> DEFINE h == <<Head(s)>>
           v == Tail(s)
<1>3. h \in Seq(S) /\ Len(h) = 1 /\ h[1] = s[1]
  BY <1>2
<1> HIDE DEF h, v
<1>4. h \o v \in Seq(S) /\ Len(h \o v) = 1 + (n - 1)
      /\ \A i \in 1..1 + (n - 1) : (h \o v)[i] = IF i <= 1 THEN h[i] ELSE v[i - 1]
  <2>1. v \in Seq(S)
    BY <1>2 DEF v
  <2>2. h \o v \in Seq(S) /\ Len(h \o v) = Len(h) + Len(v)
        /\ \A i \in 1..Len(h) + Len(v) : (h \o v)[i] = IF i <= Len(h) THEN h[i] ELSE v[i - Len(h)]
    BY <2>1, <1>3, ConcatProperties
  <2>3. Len(h) = 1 /\ Len(v) = n - 1
    BY <1>2, <1>3 DEF v
  <2> QED BY <2>2, <2>3
<1>5. ASSUME NEW i \in 1..n PROVE (h \o v)[i] = s[i]
  <2>1. i \in 1..1 + (n - 1) /\ (i <= 1 => i = 1)
        /\ (~(i <= 1) => i - 1 \in 1..n - 1 /\ i - 1 + 1 = i)
    BY <1>2
  <2>2. (h \o v)[i] = IF i <= 1 THEN h[i] ELSE v[i - 1]
    BY <1>4, <2>1
  <2>3. ~(i <= 1) => v[i - 1] = s[i]
    BY <2>1, <1>2 DEF v
  <2> QED BY <2>1, <2>2, <2>3, <1>3
<1>6. 1 + (n - 1) = n
  BY <1>2
<1>7. h \o v = s
  BY <1>1, <1>4, <1>5, <1>6, SeqEqual
<1> QED BY <1>7 DEF h, v

(* Every step is one of the stream or leaves it alone.                     *)
LEMMA StreamStep ==
    ASSUME IInv, [Next]_vars
    PROVE  [Stream!Next]_(Stream!vars)
<1> USE DEF main, outgoing, incoming, sender, connection, network
<1>q. queue \in Seq(Nat \cup {SENTINEL}) /\ StopsLast(queue)
  BY DEF IInv, TypeOK, StopIsLast
<1>t. /\ wire \in Seq(Nat) /\ InHand \in Seq(Nat) /\ Outputs(queue) \in Seq(Nat)
      /\ relayed \in Seq(Nat) /\ wire \o InHand \in Seq(Nat)
      /\ InHand \o Outputs(queue) \in Seq(Nat)
      /\ (wire \o InHand) \o Outputs(queue) = wire \o (InHand \o Outputs(queue))
  <2>1. Outputs(queue) \in Seq(Nat)
    BY <1>q, OutputsOfQueue
  <2>2. wire \in Seq(Nat) /\ relayed \in Seq(Nat) /\ item \in Nat \cup {NoItem}
    BY DEF IInv, TypeOK
  <2>3. InHand \in Seq(Nat)
    BY <2>2 DEF InHand
  <2>4. wire \o InHand \in Seq(Nat) /\ InHand \o Outputs(queue) \in Seq(Nat)
    BY <2>1, <2>2, <2>3, ConcatThree, SMTT(20)
  <2>5. (wire \o InHand) \o Outputs(queue) = wire \o (InHand \o Outputs(queue))
    BY <2>1, <2>2, <2>3, ConcatThree, SMTT(20)
  <2> QED BY <2>1, <2>2, <2>3, <2>4, <2>5, Zenon
<1>f. Pipeline = IF Failed THEN wire ELSE wire \o (InHand \o Outputs(queue))
  BY <1>t DEF Pipeline
<1>s. ASSUME UNCHANGED relayed, Pipeline' = Pipeline, Failed' = Failed
      PROVE  [Stream!Next]_(Stream!vars)
  BY <1>s DEF Stream!vars
<1>u. ASSUME UNCHANGED <<relayed, wire, item>>, Outputs(queue') = Outputs(queue),
             Failed' = Failed
      PROVE  [Stream!Next]_(Stream!vars)
  BY <1>u, <1>s DEF Pipeline, InHand
<1>c. ASSUME UNCHANGED <<relayed, wire>>, Failed'
      PROVE  [Stream!Next]_(Stream!vars)
  <2>1. Pipeline' = wire
    BY <1>c DEF Pipeline
  <2>2. Len(wire) \in 0..Len(Pipeline) /\ SubSeq(Pipeline, 1, Len(wire)) = wire
    <3>1. CASE Failed
      BY <3>1, <1>f, <1>t, SubSeqFull, LenProperties
    <3>2. CASE ~Failed
      BY <3>2, <1>f, <1>t, ConcatPrefix
    <3> QED BY <3>1, <3>2
  <2>3. Stream!Cut(Len(wire))
    BY <1>c, <2>1, <2>2 DEF Stream!Cut
  <2> QED BY <2>2, <2>3 DEF Stream!Next
<1>2. CASE UNCHANGED vars
  BY <1>2, <1>u DEF vars, Failed
<1>3. CASE PutOutput
  <2>1. /\ queue' = Append(queue, nOutput + 1) /\ nOutput + 1 \in Nat
        /\ nOutput + 1 \in 1..MaxOutput /\ NoStop(queue)
        /\ UNCHANGED <<relayed, wire, item, connectError, socket, caller>>
    BY <1>3, BoundAssumption DEF PutOutput, IInv, TypeOK, CallerStarted, StopIsLast
  <2>2. Failed' = Failed
    BY <2>1 DEF Failed
  <2>3. CASE Failed
    BY <2>1, <2>2, <2>3, <1>s DEF Pipeline
  <2>4. CASE ~Failed
    <3>1. Outputs(queue') = Append(Outputs(queue), nOutput + 1)
      BY <2>1, <1>q, AppendToQueue
    <3>2. Pipeline' = (wire \o InHand) \o Append(Outputs(queue), nOutput + 1)
      BY <2>1, <2>2, <2>4, <3>1 DEF Pipeline, InHand
    <3>3. Pipeline' = Append((wire \o InHand) \o Outputs(queue), nOutput + 1)
      <4> DEFINE s == wire \o InHand
                 t == Outputs(queue)
                 x == nOutput + 1
      <4>1. s \in Seq(Nat) /\ t \in Seq(Nat) /\ x \in Nat
        BY <2>1, <1>t
      <4> HIDE DEF s, t, x
      <4>2. s \o Append(t, x) = Append(s \o t, x)
        BY <4>1, ConcatOne
      <4> QED BY <4>2, <3>2 DEF s, t, x
    <3>4. Pipeline' = Append(Pipeline, nOutput + 1)
      BY <3>3, <2>4 DEF Pipeline
    <3>5. Stream!Produce(nOutput + 1)
      BY <2>1, <2>2, <2>4, <3>4 DEF Stream!Produce
    <3> QED BY <2>1, <3>5 DEF Stream!Next
  <2> QED BY <2>3, <2>4
<1>4. CASE Stop
  <2>1. queue' = Append(queue, SENTINEL) /\ NoStop(queue)
    BY <1>4 DEF Stop, StopIsLast, IInv
  <2>2. Outputs(queue') = Outputs(queue)
    BY <2>1, <1>q, AppendToQueue, 0 \in Nat
  <2>3. Failed' = Failed
    BY <1>4 DEF Stop, Failed
  <2> QED BY <1>4, <2>2, <2>3, <1>u DEF Stop
<1>5. CASE Poll
  <2>0. /\ UNCHANGED <<relayed, wire, connectError, socket, caller>> /\ item = NoItem
        /\ Failed' = Failed
    BY <1>5 DEF Poll, ThreadSocket, IInv, Failed
  <2>1. CASE queue = <<>>
    BY <1>5, <2>0, <2>1, <1>u DEF Poll, ToldToStop
  <2>2. CASE ToldToStop
    <3>1. queue' = Tail(queue) /\ UNCHANGED item
      BY <1>5, <2>2 DEF Poll, ToldToStop
    <3>2. Tail(queue) = <<>> /\ Outputs(queue) = <<>>
      BY <2>2, <1>q, OutputsOfQueue DEF ToldToStop
    <3>3. Outputs(queue') = Outputs(queue)
      BY <3>1, <3>2 DEF Outputs
    <3> QED BY <2>0, <3>1, <3>3, <1>u
  <2>3. CASE queue # <<>> /\ ~ToldToStop
    <3>1. item' = Head(queue) /\ queue' = Tail(queue)
      BY <1>5, <2>3 DEF Poll, Take
    <3>2. /\ Outputs(queue) # <<>> /\ Head(Outputs(queue)) = Head(queue)
          /\ Outputs(queue') = Tail(Outputs(queue))
      BY <3>1, <2>3, <1>q, OutputsOfQueue DEF ToldToStop
    <3>3. Head(queue) \in Nat
      BY <3>2, <1>t, HeadTailProperties
    <3>4. InHand = <<>> /\ InHand' = <<Head(Outputs(queue))>>
      BY <2>0, <3>1, <3>2, <3>3, ItemAssumption DEF InHand
    <3>5. (wire \o InHand) \o Outputs(queue) = wire \o Outputs(queue)
      BY <3>4, <1>t, ConcatEmptySeq
    <3>6. (wire \o InHand') \o Outputs(queue') = wire \o Outputs(queue)
      <4>1. InHand' \in Seq(Nat) /\ Tail(Outputs(queue)) \in Seq(Nat)
        BY <3>2, <3>3, <3>4, <1>t, HeadTailProperties
      <4>2. (wire \o InHand') \o Outputs(queue') = wire \o (InHand' \o Tail(Outputs(queue)))
        <5> DEFINE h == InHand'
                   t == Tail(Outputs(queue))
        <5>1. wire \in Seq(Nat) /\ h \in Seq(Nat) /\ t \in Seq(Nat)
          BY <4>1, <1>t
        <5>2. Outputs(queue') = t
          BY <3>2
        <5> HIDE DEF h, t
        <5>3. (wire \o h) \o t = wire \o (h \o t)
          BY <5>1, ConcatThree, SMTT(20)
        <5> QED BY <5>2, <5>3 DEF h, t
      <4>3. InHand' \o Tail(Outputs(queue)) = Outputs(queue)
        BY <3>2, <3>4, <1>t, HeadThenTail
      <4> QED BY <4>2, <4>3
    <3>7. Pipeline' = Pipeline
      BY <2>0, <3>5, <3>6 DEF Pipeline
    <3> QED BY <2>0, <3>7, <1>s
  <2> QED BY <2>1, <2>2, <2>3 DEF ToldToStop
<1>6. CASE SendOutput
  <2>0. /\ UNCHANGED <<relayed, queue, connectError, socket, caller>> /\ item' = NoItem
        /\ item # NoItem /\ socket \in {"up", "lost"} /\ item \in Nat
        /\ ~connectError /\ caller # "exited" /\ Failed' = Failed
    BY <1>6 DEF SendOutput, ThreadSocket, TypeOK, IInv, Failed
  <2>1. CASE socket = "up"
    <3>1. wire' = Append(wire, item) /\ ~Failed
      BY <1>6, <2>0, <2>1 DEF SendOutput, Failed
    <3>2. InHand = <<item>> /\ InHand' = <<>>
      BY <2>0 DEF InHand
    <3>3. wire \o InHand = Append(wire, item) /\ Append(wire, item) \in Seq(Nat)
      BY <3>2, <2>0, <1>t, ConcatOne, AppendProperties
    <3>4. wire' \o InHand' = wire \o InHand
      BY <3>1, <3>2, <3>3, ConcatEmptySeq
    <3>5. Pipeline' = Pipeline
      BY <2>0, <3>1, <3>4 DEF Pipeline
    <3> QED BY <2>0, <3>5, <1>s
  <2>2. CASE socket = "lost"
    <3>1. UNCHANGED wire /\ Failed
      BY <1>6, <2>2 DEF SendOutput, Failed
    <3>2. Pipeline' = Pipeline
      BY <2>0, <3>1 DEF Pipeline
    <3> QED BY <2>0, <3>2, <1>s
  <2> QED BY <2>0, <2>1, <2>2
<1>7. CASE RelayReceives
  <2>0. UNCHANGED <<queue, item, connectError, socket, caller>> /\ Failed' = Failed
    BY <1>7 DEF RelayReceives, Failed
  <2>1. CASE UNCHANGED <<wire, relayed>>
    BY <2>0, <2>1, <1>u
  <2>2. CASE /\ wire # <<>> /\ relayed' = Append(relayed, Head(wire))
             /\ wire' = Tail(wire)
    <3> DEFINE R == InHand \o Outputs(queue)
    <3>1. CASE Failed
      <4>1. Pipeline = wire /\ Pipeline' = Tail(wire)
        BY <3>1, <2>0, <2>2 DEF Pipeline
      <4>2. Stream!Deliver
        BY <4>1, <2>0, <2>2 DEF Stream!Deliver
      <4> QED BY <4>2 DEF Stream!Next
    <3>2. CASE ~Failed
      <4>1. Pipeline = wire \o R
        BY <3>2, <1>f
      <4>2. Pipeline' = (Tail(wire) \o InHand) \o Outputs(queue)
        BY <3>2, <2>0, <2>2 DEF Pipeline, InHand
      <4>3. Pipeline' = Tail(wire) \o R
        <5>1. Tail(wire) \in Seq(Nat)
          BY <2>2, <1>t, HeadTailProperties
        <5>2. (Tail(wire) \o InHand) \o Outputs(queue) = Tail(wire) \o R
          BY <5>1, <1>t, ConcatThree
        <5> QED BY <5>2, <4>2
      <4>4. /\ wire \o R # <<>> /\ Head(wire \o R) = Head(wire)
            /\ Tail(wire \o R) = Tail(wire) \o R
        BY <2>2, <1>t, ConcatHeadTail
      <4> HIDE DEF R
      <4>5. Stream!Deliver
        BY <4>1, <4>3, <4>4, <2>0, <2>2 DEF Stream!Deliver
      <4> QED BY <4>5 DEF Stream!Next
    <3> QED BY <3>1, <3>2
  <2> QED BY <1>7, <2>1, <2>2 DEF RelayReceives
<1>8. CASE ConnectionLost
  <2>1. Failed' /\ wire' = <<>> /\ relayed' = relayed
    BY <1>8 DEF ConnectionLost, Failed
  <2>2. Pipeline' = <<>> /\ SubSeq(Pipeline, 1, 0) = <<>>
    BY <2>1, SubSeqEmpty DEF Pipeline
  <2>3. 0 \in 0..Len(Pipeline)
    <3>1. Pipeline \in Seq(Nat)
      BY <1>f, <1>t, ConcatProperties
    <3> QED BY <3>1, LenProperties
  <2>4. Stream!Cut(0)
    BY <2>1, <2>2 DEF Stream!Cut
  <2> QED BY <2>3, <2>4 DEF Stream!Next
<1>9. CASE Exit
  BY <1>9, <1>c DEF Exit, Failed
<1>10. CASE ConnectFails
  BY <1>10, <1>c DEF ConnectFails, Failed
<1>11. CASE \/ Start \/ WaitReturns \/ WaitTimesOut \/ JoinReturns \/ JoinTimesOut
            \/ PutChat \/ \E k \in Kind : Get(k)
  <2>1. UNCHANGED <<relayed, wire, item, queue, connectError, socket>>
    BY <1>11 DEF Start, WaitReturns, WaitTimesOut, JoinReturns, JoinTimesOut, PutChat, Get
  <2>2. caller # "exited" /\ caller' # "exited"
    BY <1>11 DEF Start, WaitReturns, WaitTimesOut, JoinReturns, JoinTimesOut, PutChat, Get
  <2> QED BY <2>1, <2>2, <1>u DEF Failed
<1>12. CASE \/ ConnectSucceeds \/ SendChat \/ WakeUp \/ Close
            \/ \E k \in Kind : Receive(k)
  <2>1. UNCHANGED <<relayed, wire, item, queue, connectError, caller>>
    BY <1>12 DEF ConnectSucceeds, SendChat, WakeUp, Close, Receive
  <2>2. socket' = "lost" <=> socket = "lost"
    BY <1>12 DEF ConnectSucceeds, SendChat, WakeUp, Close, Receive, IInv, ThreadSocket
  <2> QED BY <2>1, <2>2, <1>u DEF Failed
<1> QED BY <1>2, <1>3, <1>4, <1>5, <1>6, <1>7, <1>8, <1>9, <1>10, <1>11, <1>12
        DEF Next, Main, Sender

(* The bridge, its two threads, its queue and its connection together,     *)
(* implements the stream of output: what is handed to send() arrives in    *)
(* order and once, up to a failure or the end of the process               *)
(* (relay_bridge.py:49-251).                                               *)
THEOREM Refinement == Spec => ImplementsStream
<1>1. Init => Stream!Init
  <2> SUFFICES ASSUME Init PROVE Stream!Init
    OBVIOUS
  <2>1. ~Failed /\ wire = <<>> /\ InHand = <<>> /\ Outputs(queue) = <<>>
    BY DEF Init, Failed, InHand, Outputs
  <2>2. Pipeline = <<>>
    BY <2>1, EmptySeq, ConcatEmptySeq DEF Pipeline
  <2> QED BY <2>1, <2>2 DEF Init, Stream!Init
<1> QED BY Invariance, StreamStep, <1>1, PTL DEF Spec, ImplementsStream, Stream!Spec
=============================================================================
