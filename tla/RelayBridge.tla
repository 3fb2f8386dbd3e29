----------------------------- MODULE RelayBridge -----------------------------
(***************************************************************************)
(* The host's bridge to the relay, src/infrastructure/collab/              *)
(* relay_bridge.py with host_relay_client.py: the session's main thread    *)
(* puts output and chat in queues, a background thread with an asyncio     *)
(* loop takes them out and sends them on one WebSocket, and a receive task *)
(* of that loop fills the queues of incoming frames the main thread polls. *)
(*                                                                         *)
(* One life of a bridge is modelled, the one both entry points have        *)
(* (main.py:637-651, host_main.py:92-134): start, perhaps wait_connected,  *)
(* use, stop, end of the process.  Outputs, chat messages and incoming     *)
(* frames are numbered in the order of their creation.                     *)
(***************************************************************************)
EXTENDS Naturals, Sequences

CONSTANTS
    SENTINEL,  \* _SENTINEL, the stop item
    NoItem,    \* no item in the sender's hands
    Kind,      \* the incoming queues: "input", "suggest", "chat"
    MaxOutput, MaxChat, MaxIncoming  \* bounds on what is sent, for TLC

ASSUME ItemAssumption == SENTINEL \notin Nat /\ NoItem \notin Nat /\ NoItem # SENTINEL
ASSUME BoundAssumption == MaxOutput \in Nat /\ MaxChat \in Nat /\ MaxIncoming \in Nat

VARIABLES
    caller,       \* where the main thread is
    started,      \* _started
    connected,    \* the event _connected
    connectError, \* _connect_error is not None
    nOutput,      \* number of outputs handed to send()
    queue,        \* _queue
    nChat,        \* number of messages handed to send_chat()
    chatOut,      \* _chat_out_queue
    inQueue,      \* _input_queue, _suggest_queue and _chat_queue
    nIncoming,    \* number of frames the receive task has put in each of them
    thread,       \* where the background thread is
    item,         \* the item it has taken and not yet sent
    gotData,      \* its local variable got_data
    socket,       \* the WebSocket: "none", "up", "lost", "closed"
    wire,         \* outputs sent and still on their way
    wireChat,     \* chat messages sent and still on their way
    relayed,      \* outputs the relay has received
    relayedChat   \* chat messages the relay has received

main == <<caller, started>>
outgoing == <<nOutput, queue, nChat, chatOut>>
incoming == <<inQueue, nIncoming>>
sender == <<thread, item, gotData>>
connection == <<connected, connectError, socket>>
network == <<wire, wireChat, relayed, relayedChat>>
vars == <<caller, started, connected, connectError, nOutput, queue, nChat,
          chatOut, inQueue, nIncoming, thread, item, gotData, socket, wire,
          wireChat, relayed, relayedChat>>

Init ==
    /\ caller = "new" /\ started = FALSE
    /\ connected = FALSE /\ connectError = FALSE /\ socket = "none"
    /\ nOutput = 0 /\ queue = <<>> /\ nChat = 0 /\ chatOut = <<>>
    /\ inQueue = [k \in Kind |-> <<>>] /\ nIncoming = [k \in Kind |-> 0]
    /\ thread = "none" /\ item = NoItem /\ gotData = FALSE
    /\ wire = <<>> /\ wireChat = <<>> /\ relayed = <<>> /\ relayedChat = <<>>

-----------------------------------------------------------------------------
(* The main thread.                                                        *)

(* start(), then host_main waits for the connection and main does not.     *)
Start ==
    /\ caller = "new" /\ ~started
    /\ started' = TRUE
    /\ thread' = "connecting"
    /\ caller' \in {"waiting", "running"}
    /\ UNCHANGED <<connection, outgoing, incoming, item, gotData, network>>

(* The event is set.                                                       *)
WaitReturns ==
    /\ caller = "waiting" /\ connected
    /\ caller' = IF connectError THEN "failed" ELSE "running"
    /\ UNCHANGED <<started, connection, outgoing, incoming, sender, network>>

(* The timeout of wait_connected() expires; host_main then gives up.       *)
WaitTimesOut ==
    /\ caller = "waiting"
    /\ caller' = IF connected /\ ~connectError THEN "running" ELSE "failed"
    /\ UNCHANGED <<started, connection, outgoing, incoming, sender, network>>

(* send(data), called by the session for every chunk of PTY output.        *)
PutOutput ==
    /\ caller = "running" /\ nOutput < MaxOutput
    /\ nOutput' = nOutput + 1
    /\ queue' = Append(queue, nOutput + 1)
    /\ UNCHANGED <<main, connection, nChat, chatOut, incoming, sender, network>>

(* send_chat(text, sender).                                                *)
PutChat ==
    /\ caller = "running" /\ nChat < MaxChat
    /\ nChat' = nChat + 1
    /\ chatOut' = Append(chatOut, nChat + 1)
    /\ UNCHANGED <<main, connection, nOutput, queue, incoming, sender, network>>

(* get_input(), get_suggest() or get_chat() with something in the queue.   *)
Get(k) ==
    /\ caller = "running" /\ inQueue[k] # <<>>
    /\ inQueue' = [inQueue EXCEPT ![k] = Tail(@)]
    /\ UNCHANGED <<main, connection, outgoing, nIncoming, sender, network>>

(* stop(): the session has ended, or the wait has failed.                  *)
Stop ==
    /\ caller \in {"running", "failed"} /\ started
    /\ started' = FALSE
    /\ queue' = Append(queue, SENTINEL)
    /\ caller' = "joining"
    /\ UNCHANGED <<connection, nOutput, nChat, chatOut, incoming, sender, network>>

(* join(timeout=2.0) returns when the thread has ended, or expires.        *)
JoinReturns ==
    /\ caller = "joining" /\ thread = "ended"
    /\ caller' = "stopped"
    /\ UNCHANGED <<started, connection, outgoing, incoming, sender, network>>

JoinTimesOut ==
    /\ caller = "joining" /\ thread # "ended"
    /\ caller' = "abandoned"
    /\ UNCHANGED <<started, connection, outgoing, incoming, sender, network>>

(* The process ends, and with it the daemon thread.                        *)
Exit ==
    /\ caller \in {"stopped", "abandoned"}
    /\ caller' = "exited"
    /\ thread' = "ended"
    /\ socket' = IF socket = "up" THEN "closed" ELSE socket
    /\ item' = NoItem
    /\ UNCHANGED <<started, connected, connectError, outgoing, incoming, gotData,
                   network>>

Main == \/ Start \/ WaitReturns \/ WaitTimesOut \/ PutOutput \/ PutChat
        \/ (\E k \in Kind : Get(k)) \/ Stop \/ JoinReturns \/ JoinTimesOut \/ Exit

-----------------------------------------------------------------------------
(* The background thread: _async_loop.                                     *)

ConnectSucceeds ==
    /\ thread = "connecting"
    /\ socket' = "up"
    /\ connected' = TRUE
    /\ thread' = "polling"
    /\ UNCHANGED <<main, connectError, outgoing, incoming, item, gotData, network>>

(* The error is recorded, the event is not set, the loop returns.          *)
ConnectFails ==
    /\ thread = "connecting"
    /\ connectError' = TRUE
    /\ thread' = "ended"
    /\ UNCHANGED <<main, connected, socket, outgoing, incoming, item, gotData,
                   network>>

(* Mutants: the stop item is taken for data; the flag ends the loop; the   *)
(* newest item is taken first.                                             *)
NeverTold == FALSE
FlagCleared == ~started
TakeNewest == item' = queue[Len(queue)] /\ queue' = SubSeq(queue, 1, Len(queue) - 1)

ToldToStop == queue # <<>> /\ Head(queue) = SENTINEL
Take == item' = Head(queue) /\ queue' = Tail(queue)

(* One get_nowait on the output queue: nothing, the stop item or an output.*)
Poll ==
    /\ thread = "polling"
    /\ \/ /\ queue = <<>>
          /\ thread' = "chatting" /\ gotData' = FALSE
          /\ UNCHANGED <<queue, item>>
       \/ /\ ToldToStop
          /\ queue' = Tail(queue)
          /\ thread' = "closing" /\ gotData' = TRUE
          /\ UNCHANGED item
       \/ /\ queue # <<>> /\ ~ToldToStop
          /\ Take
          /\ thread' = "sending" /\ gotData' = TRUE
    /\ UNCHANGED <<main, connection, nOutput, nChat, chatOut, incoming, network>>

(* client.send_output(item): an error ends the loop.                       *)
SendOutput ==
    /\ thread = "sending"
    /\ item' = NoItem
    /\ IF socket = "up"
       THEN wire' = Append(wire, item) /\ thread' = "chatting"
       ELSE thread' = "closing" /\ UNCHANGED wire
    /\ UNCHANGED <<main, connection, outgoing, incoming, gotData, wireChat,
                   relayed, relayedChat>>

(* Mutants: chat is looked at only after an output; an idle turn ends the  *)
(* loop.                                                                   *)
HasChatAfterOutput == gotData /\ chatOut # <<>>
TurnEndsIdle == thread' = IF gotData THEN "polling" ELSE "ended"

HasChat == chatOut # <<>>
TurnEnds == thread' = IF gotData THEN "polling" ELSE "sleeping"

(* One outgoing chat message, if any: an error loses it and is logged.     *)
SendChat ==
    /\ thread = "chatting"
    /\ TurnEnds
    /\ IF HasChat
       THEN /\ chatOut' = Tail(chatOut)
            /\ wireChat' = IF socket = "up" THEN Append(wireChat, Head(chatOut))
                                            ELSE wireChat
       ELSE UNCHANGED <<chatOut, wireChat>>
    /\ UNCHANGED <<main, connection, nOutput, queue, nChat, incoming, item,
                   gotData, wire, relayed, relayedChat>>

(* The end of asyncio.sleep(0.01).                                         *)
WakeUp ==
    /\ thread = "sleeping"
    /\ thread' = "polling"
    /\ UNCHANGED <<main, connection, outgoing, incoming, item, gotData, network>>

(* client.close() in the finally block: the receive task is cancelled when *)
(* "closing" begins, and the socket closes behind what was sent.           *)
Close ==
    /\ thread = "closing"
    /\ socket' = IF socket = "up" THEN "closed" ELSE socket
    /\ thread' = "ended"
    /\ UNCHANGED <<main, connected, connectError, outgoing, incoming, item,
                   gotData, network>>

Sender == \/ ConnectSucceeds \/ ConnectFails \/ Poll \/ SendOutput \/ SendChat
          \/ WakeUp \/ Close

(* The receive task: a callback puts one frame in its queue.               *)
Receive(k) ==
    /\ thread \in {"polling", "sending", "chatting", "sleeping"}
    /\ socket = "up"
    /\ nIncoming[k] < MaxIncoming
    /\ nIncoming' = [nIncoming EXCEPT ![k] = @ + 1]
    /\ inQueue' = [inQueue EXCEPT ![k] = Append(@, nIncoming[k] + 1)]
    /\ UNCHANGED <<main, connection, outgoing, sender, network>>

-----------------------------------------------------------------------------
(* The network: the relay receives in order, until the connection is lost  *)
(* with everything that was on its way.                                    *)
RelayReceives ==
    \/ /\ wire # <<>>
       /\ relayed' = Append(relayed, Head(wire))
       /\ wire' = Tail(wire)
       /\ UNCHANGED <<main, connection, outgoing, incoming, sender, wireChat,
                      relayedChat>>
    \/ /\ wireChat # <<>>
       /\ relayedChat' = Append(relayedChat, Head(wireChat))
       /\ wireChat' = Tail(wireChat)
       /\ UNCHANGED <<main, connection, outgoing, incoming, sender, wire, relayed>>

ConnectionLost ==
    /\ socket = "up"
    /\ socket' = "lost"
    /\ wire' = <<>> /\ wireChat' = <<>>
    /\ UNCHANGED <<main, connected, connectError, outgoing, incoming, sender,
                   relayed, relayedChat>>

Next == \/ Main \/ Sender \/ (\E k \in Kind : Receive(k))
        \/ RelayReceives \/ ConnectionLost

Spec == Init /\ [][Next]_vars

(* The background thread runs, a lost or closed connection apart; the main *)
(* thread polls the queues once per turn of its loop and its waits are     *)
(* bounded by their timeouts; the network delivers.  Nobody has to send    *)
(* anything or to stop.                                                    *)
Fairness == /\ WF_vars(Sender) /\ WF_vars(RelayReceives)
            /\ WF_vars(WaitReturns \/ WaitTimesOut)
            /\ \A k \in Kind : WF_vars(Get(k))
FairSpec == Spec /\ Fairness

-----------------------------------------------------------------------------
(* Properties.                                                             *)

TypeOK ==
    /\ caller \in {"new", "waiting", "failed", "running", "joining", "stopped",
                   "abandoned", "exited"}
    /\ started \in BOOLEAN /\ connected \in BOOLEAN /\ connectError \in BOOLEAN
    /\ nOutput \in Nat /\ queue \in Seq(Nat \cup {SENTINEL})
    /\ nChat \in Nat /\ chatOut \in Seq(Nat)
    /\ inQueue \in [Kind -> Seq(Nat)] /\ nIncoming \in [Kind -> Nat]
    /\ thread \in {"none", "connecting", "polling", "sending", "chatting",
                   "sleeping", "closing", "ended"}
    /\ item \in Nat \cup {NoItem} /\ gotData \in BOOLEAN
    /\ socket \in {"none", "up", "lost", "closed"}
    /\ wire \in Seq(Nat) /\ wireChat \in Seq(Nat)
    /\ relayed \in Seq(Nat) /\ relayedChat \in Seq(Nat)

(* s counts on from a.                                                     *)
Numbered(s, a) == \A i \in 1..Len(s) : s[i] = a + i

(* The relay has the first outputs of the host, in order, with no gap and  *)
(* no repetition; so for the chat.  A send that fails is never followed by *)
(* one that succeeds.                                                      *)
RelayHasPrefix == Numbered(relayed, 0) /\ Numbered(relayedChat, 0)

(* The outputs that may still arrive, in the order in which they will: an  *)
(* output is given up only with the connection or the process.             *)
InHand == IF item = NoItem THEN <<>> ELSE <<item>>
Outputs(q) == IF q # <<>> /\ q[Len(q)] = SENTINEL THEN SubSeq(q, 1, Len(q) - 1) ELSE q
Failed == socket = "lost" \/ connectError \/ caller = "exited"
Pipeline == IF Failed THEN wire ELSE wire \o InHand \o Outputs(queue)

(* The bridge implements the stream of output it stands for.               *)
Stream == INSTANCE OutputStream
          WITH Chunk <- 1..MaxOutput, pending <- Pipeline, delivered <- relayed,
               open <- ~Failed
ImplementsStream == Stream!Spec

(* "Encerra thread background graciosamente", relay_bridge.py:65: when     *)
(* stop() has joined the thread of a connection that did not fail, every   *)
(* output handed over before it has been sent.                             *)
StopFlushesOutput ==
    caller = "stopped" /\ socket = "closed" => Len(relayed) + Len(wire) = nOutput

(* stop() ends the thread whatever it is doing, if the process lets it.    *)
StopEndsThread == caller = "joining" ~> thread = "ended"

(* An output reaches the relay unless the connection fails or the process  *)
(* ends before.                                                            *)
OutputArrives ==
    \A n \in 1..MaxOutput :
        nOutput >= n ~> \/ n \in {relayed[i] : i \in 1..Len(relayed)}
                        \/ socket = "lost" \/ connectError \/ caller = "exited"

(* A chat message is sent in the end, unless the session is stopped or the *)
(* connection fails.  Output is finite here: that chat does not wait for   *)
(* ever behind output without an end is not shown (relay_bridge.py:142).   *)
ChatArrives ==
    \A n \in 1..MaxChat :
        nChat >= n ~> \/ n \in {relayedChat[i] : i \in 1..Len(relayedChat)}
                      \/ socket = "lost" \/ connectError
                      \/ caller \notin {"waiting", "running"}
=============================================================================
