--------------------------- MODULE ViewerCommands ---------------------------
(***************************************************************************)
(* The commands a remote user runs against a shared session: attach, exec  *)
(* and message (src/adapters/cli/main.py), on a ViewerClient with its      *)
(* receive task (src/infrastructure/collab/viewer_client.py).  The relay   *)
(* and the host are reduced to what a viewer sees of them: the relay       *)
(* checks the join, forwards frames and says nothing when the host leaves; *)
(* the host sends output only when its PTY has some.                       *)
(*                                                                         *)
(* One command runs, on an asyncio loop shared by the command and the      *)
(* receive task: an action is the code between two awaits.  Outputs are    *)
(* numbered in the order in which the host sends them.                     *)
(***************************************************************************)
EXTENDS Naturals, Sequences

CONSTANTS
    Command,    \* the commands that may be run: attach, exec, message
    MaxOutput,  \* bound on the outputs of the host, for TLC
    MaxChat,    \* bound on the chat messages of others, for TLC
    MaxKeys     \* bound on the keys of an attached user, for TLC

ASSUME CommandAssumption == Command \subseteq {"attach", "exec", "message"}
ASSUME BoundAssumption == MaxOutput \in Nat /\ MaxChat \in Nat /\ MaxKeys \in Nat

VARIABLES
    cmd,       \* the command
    vpc,       \* the await it is suspended at
    report,    \* how it ended
    conn,      \* the WebSocket: "none", "open", "closed"
    task,      \* the receive task: "none", "running", "done"
    gotOutput, \* ViewerClient._got_output
    buffering, \* _ViewerSession._buffering
    buffer,    \* _ViewerSession._buffer
    chatOpen,  \* _ViewerSession._chat_active
    shown,     \* the outputs written to stdout
    received,  \* the number of outputs received
    replied,   \* reply_event is set
    keys,      \* number of keys typed
    up,        \* frames on their way to the relay
    down,      \* frames on their way to the viewer: their type and number
    token,     \* the password given is the session's
    known,     \* the relay has a password of the session: a host has joined
    member,    \* the relay has the viewer in its list
    hostOn,    \* a host is in the relay's list
    there,     \* history: it has been there since the command connected
    suppressed,\* history: it has kept an answer to an input to itself
    toHost,    \* input forwarded to the host and not yet read
    nOutput,   \* number of outputs of the host that were sent to the viewer
    nChat      \* number of chat messages of others

session == <<buffering, buffer, chatOpen, shown>>
client == <<conn, task, gotOutput, received, replied>>
wires == <<up, down>>
access == <<token, known>>
ghosts == <<there, suppressed>>
host == <<hostOn, ghosts, toHost, nOutput, nChat>>
vars == <<cmd, vpc, report, conn, task, gotOutput, buffering, buffer, chatOpen,
          shown, received, replied, keys, up, down, token, known, member, hostOn,
          there, suppressed, toHost, nOutput, nChat>>

Init ==
    /\ cmd \in Command /\ token \in BOOLEAN
    /\ known \in BOOLEAN /\ hostOn \in BOOLEAN /\ (hostOn => known)
    /\ vpc = "start" /\ report = "none"
    /\ conn = "none" /\ task = "none" /\ gotOutput = FALSE
    /\ buffering = FALSE /\ buffer = <<>> /\ chatOpen = FALSE /\ shown = <<>>
    /\ received = 0 /\ replied = FALSE /\ keys = 0
    /\ up = <<>> /\ down = <<>>
    /\ member = FALSE /\ there = FALSE /\ suppressed = FALSE
    /\ toHost = <<>> /\ nOutput = 0 /\ nChat = 0

-----------------------------------------------------------------------------
(* The command.                                                            *)

(* viewer.connect(): the socket, the join frame and the receive task.      *)
FirstAwait == CASE cmd = "attach" -> "entering"
                [] cmd = "exec" -> "checking"
                [] cmd = "message" -> "greeting"

Connect ==
    /\ vpc = "start"
    /\ conn' = "open" /\ task' = "running"
    /\ up' = Append(up, "join")
    /\ buffering' = (cmd = "attach")
    /\ vpc' = FirstAwait
    /\ there' = hostOn
    /\ UNCHANGED <<cmd, report, gotOutput, buffer, chatOpen, shown, received,
                   replied, keys, down, access, member, hostOn, suppressed,
                   toHost, nOutput, nChat>>

(* attach reports the failure; exec and message end by the exception.      *)
ConnectFails ==
    /\ vpc = "start"
    /\ report' = IF cmd = "attach" THEN "no_relay" ELSE "crashed"
    /\ vpc' = "ended"
    /\ UNCHANGED <<cmd, client, session, keys, wires, access, member, host>>

(* A send on a closed connection raises, and nothing catches it.           *)
Sends(f, next) ==
    IF conn = "open"
    THEN up' = Append(up, f) /\ vpc' = next /\ UNCHANGED <<report, task>>
    ELSE vpc' = "ended" /\ report' = "crashed" /\ task' = "done" /\ UNCHANGED up

(* Mutant: the Enter is left out.                                          *)
SkipsEnter == vpc' = "checking" /\ UNCHANGED <<up, report, task>>

(* "Send Enter to trigger host prompt".                                    *)
PressesEnter == Sends("input", "checking")

SendEnter ==
    /\ vpc = "entering"
    /\ PressesEnter
    /\ UNCHANGED <<cmd, conn, gotOutput, received, replied, session, keys, down,
                   access, member, host>>

(* The assumption on time: ten and five seconds are longer than any answer *)
(* takes, so a wait expires only when nothing is on its way.               *)
NothingComes == \/ task = "done"
                \/ conn = "open" /\ up = <<>> /\ down = <<>> /\ toHost = <<>>

(* Mutants: what the handshake buffered is forgotten; a host that does not *)
(* answer is waited for.                                                   *)
ForgetsBuffer == UNCHANGED shown
NeverExpires == FALSE

ShowsBuffer == shown' = IF chatOpen THEN shown ELSE shown \o buffer
Expires == NothingComes

(* wait_for_host looks at _got_output: on an output attach shows what it   *)
(* has buffered and exec sends its command.                                *)
HostAnswered ==
    /\ vpc = "checking" /\ gotOutput
    /\ IF cmd = "attach"
       THEN /\ ShowsBuffer
            /\ buffering' = FALSE /\ buffer' = <<>>
            /\ vpc' = "using"
            /\ UNCHANGED <<up, report, task>>
       ELSE Sends("input", "settling") /\ UNCHANGED <<shown, buffering, buffer>>
    /\ UNCHANGED <<cmd, conn, gotOutput, received, replied, chatOpen, keys, down,
                   access, member, host>>

(* The wait goes on: the deadline has not passed, or has.                  *)
NotYet ==
    /\ vpc = "checking" /\ ~gotOutput
    /\ \/ vpc' = "sleeping" /\ UNCHANGED <<report, buffering>>
       \/ Expires /\ vpc' = "closing" /\ report' = "no_host" /\ buffering' = FALSE
    /\ UNCHANGED <<cmd, client, buffer, chatOpen, shown, keys, wires, access, member,
                   host>>

(* After each sleep an end of the receive task ends the wait, even when an *)
(* output has come before it.                                              *)
SleepEnds ==
    /\ vpc = "sleeping"
    /\ IF task = "done"
       THEN vpc' = "closing" /\ report' = "no_host" /\ buffering' = FALSE
       ELSE vpc' = "checking" /\ UNCHANGED <<report, buffering>>
    /\ UNCHANGED <<cmd, client, buffer, chatOpen, shown, keys, wires, access, member,
                   host>>

(* exec: no output for one interval of the loop, or the deadline.          *)
OutputSettles ==
    /\ vpc = "settling"
    /\ vpc' = "closing" /\ report' = "done"
    /\ UNCHANGED <<cmd, client, session, keys, wires, access, member, host>>

(* message: the text, and the reply if one is waited for.                  *)
SendMessage ==
    /\ vpc = "greeting"
    /\ Sends("chat", "awaiting")
    /\ UNCHANGED <<cmd, conn, gotOutput, received, replied, session, keys, down,
                   access, member, host>>

ReplyOrTimeout ==
    /\ vpc = "awaiting"
    /\ replied \/ NothingComes
    /\ vpc' = "closing" /\ report' = "done"
    /\ UNCHANGED <<cmd, client, session, keys, wires, access, member, host>>

(* attach: a key, F4, Ctrl+], and the turn without a key in which the end  *)
(* of the receive task is noticed.                                         *)
TypeKey ==
    /\ vpc = "using" /\ keys < MaxKeys
    /\ keys' = keys + 1
    /\ Sends("input", "using")
    /\ UNCHANGED <<cmd, conn, gotOutput, received, replied, session, down, access,
                   member, host>>

OpenChat ==
    /\ vpc = "using" /\ ~chatOpen
    /\ chatOpen' = TRUE
    /\ UNCHANGED <<cmd, vpc, report, client, buffering, buffer, shown, keys, wires,
                   access, member, host>>

Leave ==
    /\ vpc = "using"
    /\ vpc' = "closing" /\ report' = "left"
    /\ UNCHANGED <<cmd, client, session, keys, wires, access, member, host>>

NoticeEnd ==
    /\ vpc = "using" /\ task = "done"
    /\ vpc' = "closing" /\ report' = "host_gone"
    /\ UNCHANGED <<cmd, client, session, keys, wires, access, member, host>>

(* viewer.close(): the task is cancelled, then the socket is closed.       *)
Close ==
    /\ vpc = "closing"
    /\ vpc' = "ended"
    /\ task' = "done" /\ conn' = "closed"
    /\ down' = <<>>
    /\ UNCHANGED <<cmd, report, gotOutput, received, replied, session, keys, up,
                   access, member, host>>

Handshake == SendEnter \/ HostAnswered \/ NotYet \/ SleepEnds
User == TypeKey \/ OpenChat \/ Leave
Viewer == \/ Connect \/ ConnectFails \/ Handshake \/ OutputSettles
          \/ SendMessage \/ ReplyOrTimeout \/ NoticeEnd \/ Close

-----------------------------------------------------------------------------
(* The receive task.                                                       *)

(* Mutant: an output goes to the screen, buffering or not.                 *)
ShowsAtOnce(n) == shown' = Append(shown, n) /\ UNCHANGED buffer

(* _ViewerSession.on_output.                                               *)
OnOutput(n) ==
    IF buffering THEN buffer' = Append(buffer, n) /\ UNCHANGED shown
    ELSE /\ shown' = IF chatOpen THEN shown ELSE Append(shown, n)
         /\ UNCHANGED buffer

ReceiveOutput ==
    /\ task = "running" /\ down # <<>> /\ Head(down)[1] = "output"
    /\ down' = Tail(down)
    /\ gotOutput' = TRUE /\ received' = received + 1
    /\ OnOutput(Head(down)[2])
    /\ UNCHANGED <<cmd, vpc, report, conn, task, replied, buffering, chatOpen, keys,
                   up, access, member, host>>

(* A chat message opens the chat of attach, sets the reply of message, and *)
(* is ignored by exec.                                                     *)
ReceiveChat ==
    /\ task = "running" /\ down # <<>> /\ Head(down)[1] = "chat"
    /\ down' = Tail(down)
    /\ chatOpen' = (chatOpen \/ cmd = "attach")
    /\ replied' = (replied \/ cmd = "message")
    /\ UNCHANGED <<cmd, vpc, report, conn, task, gotOutput, received, buffering,
                   buffer, shown, keys, up, access, member, host>>

(* An error frame, or the end of the connection, ends the task.            *)
TaskEnds ==
    /\ task = "running"
    /\ IF down = <<>> THEN conn = "closed" ELSE Head(down)[1] = "error"
    /\ task' = "done"
    /\ down' = IF down = <<>> THEN down ELSE Tail(down)
    /\ UNCHANGED <<cmd, vpc, report, conn, gotOutput, received, replied, session,
                   keys, up, access, member, host>>

Receive == ReceiveOutput \/ ReceiveChat \/ TaskEnds

-----------------------------------------------------------------------------
(* The relay and the host (RelayHandler and TerminalSession, as the viewer *)
(* sees them).                                                             *)

(* A joining viewer is registered, or gets an error and a closed           *)
(* connection when the password is not that of the last host that joined.  *)
RelayJoins ==
    /\ up # <<>> /\ Head(up) = "join"
    /\ IF token \/ ~known
       THEN /\ member' = TRUE /\ up' = Tail(up)
            /\ UNCHANGED <<down, conn>>
       ELSE /\ down' = IF conn = "open" THEN Append(down, <<"error", 0>>) ELSE down
            /\ conn' = "closed" /\ up' = <<>>
            /\ UNCHANGED member
    /\ UNCHANGED <<cmd, vpc, report, task, gotOutput, received, replied, session,
                   keys, access, host>>

(* Input goes to the host that is registered; chat to the others.          *)
RelayForwards ==
    /\ up # <<>> /\ Head(up) # "join"
    /\ toHost' = IF hostOn /\ Head(up) # "chat" THEN Append(toHost, Head(up)) ELSE toHost
    /\ up' = Tail(up)
    /\ UNCHANGED <<cmd, vpc, report, client, session, keys, down, access, member,
                   hostOn, ghosts, nOutput, nChat>>

ToViewer(f) == down' = IF member /\ conn = "open" THEN Append(down, f) ELSE down

(* The shell of the host answers what is typed, at least with its echo ... *)
HostEchoes ==
    /\ hostOn /\ toHost # <<>> /\ nOutput < MaxOutput
    /\ toHost' = Tail(toHost)
    /\ nOutput' = IF member /\ conn = "open" THEN nOutput + 1 ELSE nOutput
    /\ ToViewer(<<"output", nOutput + 1>>)
    /\ UNCHANGED <<cmd, vpc, report, client, session, keys, up, access, member,
                   hostOn, ghosts, nChat>>

(* ... unless the host waits for a password, when it shares nothing.       *)
HostSuppresses ==
    /\ hostOn /\ toHost # <<>>
    /\ toHost' = Tail(toHost) /\ suppressed' = TRUE
    /\ UNCHANGED <<cmd, vpc, report, client, session, keys, wires, access, member,
                   hostOn, there, nOutput, nChat>>

(* A program of the host prints something.                                 *)
HostPrints ==
    /\ hostOn /\ member /\ conn = "open" /\ nOutput < MaxOutput
    /\ nOutput' = nOutput + 1
    /\ ToViewer(<<"output", nOutput + 1>>)
    /\ UNCHANGED <<cmd, vpc, report, client, session, keys, up, access, member,
                   hostOn, ghosts, toHost, nChat>>

(* Somebody else in the session chats.                                     *)
OthersChat ==
    /\ member /\ conn = "open" /\ nChat < MaxChat
    /\ nChat' = nChat + 1
    /\ ToViewer(<<"chat", 0>>)
    /\ UNCHANGED <<cmd, vpc, report, client, session, keys, up, access, member,
                   hostOn, ghosts, toHost, nOutput>>

(* The host leaves: the relay forgets it, and the viewers stay.            *)
HostLeaves ==
    /\ hostOn
    /\ hostOn' = FALSE /\ there' = FALSE /\ toHost' = <<>>
    /\ UNCHANGED <<cmd, vpc, report, client, session, keys, wires, access, member,
                   suppressed, nOutput, nChat>>

(* A host joins, the same again or another one.                             *)
HostJoins ==
    /\ ~hostOn
    /\ hostOn' = TRUE /\ known' = TRUE
    /\ UNCHANGED <<cmd, vpc, report, client, session, keys, wires, token, member,
                   ghosts, toHost, nOutput, nChat>>

(* The viewer's connection is lost with what is on its way to the relay.   *)
ConnectionLost ==
    /\ conn = "open"
    /\ conn' = "closed" /\ up' = <<>> /\ member' = FALSE
    /\ UNCHANGED <<cmd, vpc, report, task, gotOutput, received, replied, session,
                   keys, down, access, host>>

Remote == RelayJoins \/ RelayForwards \/ HostEchoes \/ HostSuppresses

Next == \/ Viewer \/ User \/ Receive \/ Remote
        \/ HostPrints \/ OthersChat \/ HostLeaves \/ HostJoins
        \/ ConnectionLost

Spec == Init /\ [][Next]_vars

(* The loop runs the command and the receive task; the relay and the host  *)
(* deal with what reaches them; a wait that is looked at again and again   *)
(* passes its deadline.  Nobody has to type, print, chat, join or leave.   *)
Fairness == /\ WF_vars(Viewer) /\ WF_vars(Receive) /\ WF_vars(Remote)
            /\ SF_vars(NotYet /\ vpc' = "closing")
FairSpec == Spec /\ Fairness

-----------------------------------------------------------------------------
(* Properties.                                                             *)

(* The awaits of each command between connect() and close().               *)
AwaitsOf(c) ==
    CASE c = "attach" -> {"entering", "checking", "sleeping", "using"}
      [] c = "exec" -> {"checking", "sleeping", "settling"}
      [] c = "message" -> {"greeting", "awaiting"}

(* The variables keep their types, and no command gets into the code of    *)
(* another one, which share the client and its wait for the host.          *)
TypeOK ==
    /\ cmd \in Command
    /\ vpc \in {"start", "closing", "ended"} \cup AwaitsOf(cmd)
    /\ report \in {"none", "no_relay", "no_host", "host_gone", "left", "done", "crashed"}
    /\ conn \in {"none", "open", "closed"} /\ task \in {"none", "running", "done"}
    /\ {gotOutput, buffering, chatOpen, replied, token, known, member, hostOn, there,
        suppressed} \subseteq BOOLEAN
    /\ buffer \in Seq(Nat) /\ shown \in Seq(Nat) /\ received \in Nat /\ keys \in Nat
    /\ up \in Seq({"join", "input", "chat"}) /\ toHost \in Seq({"input"})
    /\ down \in Seq({"output", "chat", "error"} \X Nat)
    /\ nOutput \in Nat /\ nChat \in Nat

(* An attached terminal without chat shows all the output that has arrived,*)
(* in order and once, and nothing of it between the status messages of the *)
(* handshake.                                                              *)
ScreenIsFaithful ==
    cmd = "attach" /\ ~chatOpen =>
        /\ vpc \in {"entering", "checking", "sleeping"} => shown = <<>>
        /\ vpc = "using" => shown = [i \in 1..received |-> i]

(* The Enter attach sends makes a host answer: attach, when its connection *)
(* is well, gives up only on a host that has not been there all the time,  *)
(* or has suppressed its answer because it waits for a password            *)
(* (main.py:703-719, terminal_session.py:565-582).                         *)
AttachFindsHost ==
    cmd = "attach" /\ vpc = "closing" /\ report = "no_host" /\ conn = "open"
        => ~there \/ suppressed

(* No command is left hanging by a rejection, a silent host or a lost      *)
(* connection: exec and message end, attach leaves its handshake.          *)
HandshakeEnds ==
    vpc # "start" ~> vpc \in {"using", "ended"}
=============================================================================
