---------------------------- MODULE RelayHandler ----------------------------
(***************************************************************************)
(* The WebSocket relay of forge_shell, src/infrastructure/collab/          *)
(* relay_handler.py: one coroutine RelayHandler._handle per connection,    *)
(* all of them on one asyncio loop, sharing the module globals _sessions   *)
(* and _session_tokens.  A coroutine runs without interruption between two *)
(* awaits, so an action is the code from one await to the next.            *)
(*                                                                         *)
(* One session_id is modelled: a client of this program joins one session, *)
(* once, with the first frame of its connection, and the code of a frame   *)
(* touches only _sessions[session_id].  A reconnection is a new connection.*)
(*                                                                         *)
(* The lists of viewers and agents are sets: a connection is appended once *)
(* and nothing depends on their order.  The list of hosts is REBOUND by a  *)
(* host's join while other coroutines still hold the old list object, so   *)
(* hostLists keeps every list object in the order of its creation; the     *)
(* last one is the one _sessions[session_id]["host"] names.                *)
(***************************************************************************)
EXTENDS Naturals, Sequences

CONSTANTS
    Conn,      \* the connections opened to the session, reconnections included
    RoleOf,    \* RoleOf[c]: the role the client of c joins with
    TokenOf,   \* TokenOf[c]: the token in its session_join
    Script,    \* Script[c]: the types of the frames it sends after the join
    NoToken    \* the empty token

Role == {"host", "viewer", "agent"}
FrameType == {"terminal_output", "terminal_input", "suggest", "chat"}

(* What the clients of this program send: HostRelayClient, ViewerClient and *)
(* AgentClient.                                                            *)
FramesOf(r) == CASE r = "host" -> {"terminal_output", "chat"}
                 [] r = "viewer" -> {"terminal_input", "chat"}
                 [] r = "agent" -> {"terminal_input", "suggest", "chat"}

ASSUME RoleAssumption == RoleOf \in [Conn -> Role]
ASSUME ScriptAssumption ==
    /\ Script \in [Conn -> Seq(FrameType)]
    /\ \A c \in Conn : \A i \in 1..Len(Script[c]) :
           Script[c][i] \in FramesOf(RoleOf[c])

VARIABLES
    hostLists, \* every list object that was _sessions[sid]["host"], oldest first
    viewers,   \* _sessions[sid]["viewer"]
    agents,    \* _sessions[sid]["agent"]
    token,     \* _session_tokens.get(sid)
    pc,        \* the await the coroutine of a connection is suspended at
    role,      \* its local variable role ("none" is None)
    pos,       \* the number of frames it has read; 0 before the join
    todo,      \* the peers the loop it is in has not reached yet
    dead,      \* its local variable dead
    ref,       \* index in hostLists of the list object its loop holds
    net,       \* the state of the connection
    got        \* the frames delivered to the client, <<sender, position>>

registry == <<hostLists, viewers, agents, token>>
frame == <<todo, dead, ref>>
vars == <<hostLists, viewers, agents, token, pc, role, pos, todo, dead, ref,
          net, got>>

(* The current list of hosts, and everybody the session knows.             *)
Hosts == hostLists[Len(hostLists)]
Registered == Hosts \cup viewers \cup agents

Init ==
    /\ hostLists = <<{}>>
    /\ viewers = {}
    /\ agents = {}
    /\ token = NoToken
    /\ pc = [c \in Conn |-> "recv"]
    /\ role = [c \in Conn |-> "none"]
    /\ pos = [c \in Conn |-> 0]
    /\ todo = [c \in Conn |-> {}]
    /\ dead = [c \in Conn |-> {}]
    /\ ref = [c \in Conn |-> 1]
    /\ net = [c \in Conn |-> "open"]
    /\ got = [c \in Conn |-> <<>>]

-----------------------------------------------------------------------------
(* Joining.                                                                *)

(* Mutant: a registered token is never replaced.                           *)
TokenNeverChanges(c) == IF token = NoToken THEN TokenOf[c] ELSE token

(* `if token:`: a host without a token leaves the former one in force.     *)
TokenAfterJoin(c) == IF TokenOf[c] = NoToken THEN token ELSE TokenOf[c]

(* Mutant: nobody is closed.                                               *)
StartNoClose(S) == UNCHANGED net

(* Starts the close of the open connections of S.                          *)
StartClose(S) ==
    net' = [x \in Conn |-> IF x \in S /\ net[x] = "open" THEN "closing"
                                                         ELSE net[x]]

Reads(c) == pc[c] = "recv" /\ pos[c] <= Len(Script[c])

(* Mutant: a host that is there is ignored.                                *)
AlwaysVacant == TRUE

Vacant == Hosts = {}

(* A host joins a session without a host: no await, it is registered.      *)
JoinHost(c) ==
    /\ Reads(c) /\ pos[c] = 0 /\ RoleOf[c] = "host"
    /\ Vacant
    /\ hostLists' = [hostLists EXCEPT ![Len(hostLists)] = @ \cup {c}]
    /\ token' = TokenAfterJoin(c)
    /\ role' = [role EXCEPT ![c] = "host"]
    /\ pos' = [pos EXCEPT ![c] = 1]
    /\ UNCHANGED <<viewers, agents, pc, frame, net, got>>

(* A host joins a session that has one: it keeps a reference to the list   *)
(* of hosts and awaits old_ws.close() on its member.                       *)
EvictStart(c) ==
    /\ Reads(c) /\ pos[c] = 0 /\ RoleOf[c] = "host"
    /\ ~Vacant
    /\ role' = [role EXCEPT ![c] = "host"]
    /\ pos' = [pos EXCEPT ![c] = 1]
    /\ pc' = [pc EXCEPT ![c] = "evict"]
    /\ todo' = [todo EXCEPT ![c] = Hosts]
    /\ StartClose(Hosts)
    /\ UNCHANGED <<registry, dead, ref, got>>

(* The close has completed: the list is rebound to a new one, whatever was *)
(* appended to the old one meanwhile, and the host is appended to it.      *)
EvictEnd(c) ==
    /\ pc[c] = "evict"
    /\ \A x \in todo[c] : net[x] = "closed"
    /\ hostLists' = Append(hostLists, {c})
    /\ token' = TokenAfterJoin(c)
    /\ pc' = [pc EXCEPT ![c] = "recv"]
    /\ todo' = [todo EXCEPT ![c] = {}]
    /\ UNCHANGED <<viewers, agents, role, pos, dead, ref, net, got>>

(* A viewer or an agent whose token is the registered one, or who comes    *)
(* when none is registered.                                                *)
Accepts(c) == token = NoToken \/ TokenOf[c] = token

JoinPeer(c) ==
    /\ Reads(c) /\ pos[c] = 0 /\ RoleOf[c] \in {"viewer", "agent"}
    /\ Accepts(c)
    /\ viewers' = IF RoleOf[c] = "viewer" THEN viewers \cup {c} ELSE viewers
    /\ agents' = IF RoleOf[c] = "agent" THEN agents \cup {c} ELSE agents
    /\ role' = [role EXCEPT ![c] = RoleOf[c]]
    /\ pos' = [pos EXCEPT ![c] = 1]
    /\ UNCHANGED <<hostLists, token, pc, frame, net, got>>

(* A wrong token: the error frame, then `await ws.close()`, then return.   *)
Reject(c) ==
    /\ Reads(c) /\ pos[c] = 0 /\ RoleOf[c] \in {"viewer", "agent"}
    /\ ~Accepts(c)
    /\ role' = [role EXCEPT ![c] = RoleOf[c]]
    /\ pos' = [pos EXCEPT ![c] = 1]
    /\ pc' = [pc EXCEPT ![c] = "rejecting"]
    /\ StartClose({c})
    /\ UNCHANGED <<registry, frame, got>>

-----------------------------------------------------------------------------
(* Forwarding.  Every loop works on a copy of the list it iterates over    *)
(* and awaits one send per peer.                                           *)

(* The coroutine enters the loop it calls `loop` over the peers S.         *)
Enter(c, loop, S) ==
    /\ pc' = [pc EXCEPT ![c] = loop]
    /\ todo' = [todo EXCEPT ![c] = S]
    /\ dead' = [dead EXCEPT ![c] = {}]

(* Reads the next frame after the join.                                    *)
NextFrame(c, type) ==
    /\ Reads(c) /\ pos[c] > 0
    /\ Script[c][pos[c]] = type
    /\ pos' = [pos EXCEPT ![c] = @ + 1]

(* terminal_output of a host: viewers first, then agents.                  *)
HandleOutput(c) ==
    /\ NextFrame(c, "terminal_output")
    /\ role[c] = "host"
    /\ Enter(c, "to_viewers", viewers)
    /\ UNCHANGED <<registry, role, ref, net, got>>

(* Mutant: an index off by one.                                            *)
HoldsNext(c) == ref' = [ref EXCEPT ![c] = Len(hostLists) + 1]

(* The coroutine keeps a reference to the current list of hosts.           *)
Holds(c) == ref' = [ref EXCEPT ![c] = Len(hostLists)]

(* terminal_input of a viewer or an agent, suggest of an agent: to the     *)
(* hosts of the list object that is current now.                           *)
HandleInput(c) ==
    /\ \/ NextFrame(c, "terminal_input") /\ role[c] \in {"viewer", "agent"}
       \/ NextFrame(c, "suggest") /\ role[c] = "agent"
    /\ Enter(c, "to_hosts", Hosts)
    /\ Holds(c)
    /\ UNCHANGED <<registry, role, net, got>>

(* chat of anybody: to everybody else.                                     *)
HandleChat(c) ==
    /\ NextFrame(c, "chat")
    /\ Enter(c, "to_all", Registered \ {c})
    /\ UNCHANGED <<registry, role, ref, net, got>>

Forwarding == {"to_viewers", "to_agents", "to_hosts", "to_all"}

(* Mutant: the loop ends with the first peer.                              *)
ReachedLast(c, p) == todo' = [todo EXCEPT ![c] = {}]

(* The loop has dealt with p.                                              *)
Reached(c, p) == todo' = [todo EXCEPT ![c] = @ \ {p}]

(* `await peer.send(raw)` to an open connection.                           *)
Send(c, p) ==
    /\ pc[c] \in Forwarding
    /\ p \in todo[c] /\ net[p] = "open"
    /\ got' = [got EXCEPT ![p] = Append(@, <<c, pos[c] - 1>>)]
    /\ Reached(c, p)
    /\ UNCHANGED <<registry, pc, role, pos, dead, ref, net>>

(* The send raises: the peer is noted as dead, except by chat, which       *)
(* swallows the error.                                                     *)
SendFails(c, p) ==
    /\ pc[c] \in Forwarding
    /\ p \in todo[c] /\ net[p] # "open"
    /\ Reached(c, p)
    /\ dead' = [dead EXCEPT ![c] = IF pc[c] = "to_all" THEN @ ELSE @ \cup {p}]
    /\ UNCHANGED <<registry, pc, role, pos, ref, net, got>>

(* The list the loop removes its dead peers from.                          *)
LoopList(c) == CASE pc[c] = "to_viewers" -> viewers
                 [] pc[c] = "to_agents" -> agents
                 [] pc[c] = "to_hosts" -> hostLists[ref[c]]
                 [] OTHER -> {}

(* Removes S from that list.                                               *)
RemoveFromLoopList(c, S) ==
    /\ viewers' = IF pc[c] = "to_viewers" THEN viewers \ S ELSE viewers
    /\ agents' = IF pc[c] = "to_agents" THEN agents \ S ELSE agents
    /\ hostLists' = IF pc[c] = "to_hosts"
                    THEN [hostLists EXCEPT ![ref[c]] = @ \ S] ELSE hostLists

LoopDone(c) == pc[c] \in Forwarding /\ todo[c] = {}

(* All dead peers are still in the list: they are removed, and the         *)
(* coroutine goes to the next loop or back to the next frame.              *)
EndLoop(c) ==
    /\ LoopDone(c)
    /\ dead[c] \subseteq LoopList(c)
    /\ RemoveFromLoopList(c, dead[c])
    /\ IF pc[c] = "to_viewers"
       THEN Enter(c, "to_agents", agents)
       ELSE Enter(c, "recv", {})
    /\ UNCHANGED <<token, role, pos, ref, net, got>>

-----------------------------------------------------------------------------
(* Mutant: only hosts are removed.                                         *)
HostLeaves(c, r, S) == IF role[c] = r /\ r = "host" THEN S \ {c} ELSE S

(* The list S of role r without the connection, if that is its role.       *)
Leave(c, r, S) == IF role[c] = r THEN S \ {c} ELSE S

(* The end of a coroutine: the finally block removes the connection from   *)
(* the CURRENT list of its role, and the server closes the connection.     *)
Finally(c, hs, vs, as) ==
    /\ hostLists' = [hs EXCEPT ![Len(hs)] = Leave(c, "host", @)]
    /\ viewers' = Leave(c, "viewer", vs)
    /\ agents' = Leave(c, "agent", as)
    /\ Enter(c, "done", {})
    /\ StartClose({c})
    /\ UNCHANGED <<token, role, pos, ref, got>>

(* A dead peer has left the list by itself since the copy was taken: its   *)
(* peers.remove raises ValueError, after having removed the dead peers     *)
(* before it, and the exception ends the coroutine of the SENDER.          *)
RemoveRaises(c) ==
    /\ LoopDone(c)
    /\ ~(dead[c] \subseteq LoopList(c))
    /\ \E S \in SUBSET (dead[c] \cap LoopList(c)) :
         Finally(c,
                 IF pc[c] = "to_hosts"
                 THEN [hostLists EXCEPT ![ref[c]] = @ \ S] ELSE hostLists,
                 IF pc[c] = "to_viewers" THEN viewers \ S ELSE viewers,
                 IF pc[c] = "to_agents" THEN agents \ S ELSE agents)

(* The iteration over the frames ends with the connection.                 *)
EndOfStream(c) ==
    /\ pc[c] = "recv" /\ net[c] = "closed"
    /\ Finally(c, hostLists, viewers, agents)

(* `return` after the rejection.                                           *)
RejectEnd(c) ==
    /\ pc[c] = "rejecting" /\ net[c] = "closed"
    /\ Finally(c, hostLists, viewers, agents)

-----------------------------------------------------------------------------
(* The network and the websockets library.                                 *)

(* The client leaves, or the connection is lost.                           *)
Disconnect(c) ==
    /\ net[c] = "open"
    /\ net' = [net EXCEPT ![c] = "closed"]
    /\ UNCHANGED <<registry, pc, role, pos, frame, got>>

(* The closing handshake ends or its timeout expires.                      *)
CloseCompletes(c) ==
    /\ net[c] = "closing"
    /\ net' = [net EXCEPT ![c] = "closed"]
    /\ UNCHANGED <<registry, pc, role, pos, frame, got>>

Handle(c) ==
    \/ JoinHost(c)
    \/ EvictStart(c)
    \/ EvictEnd(c)
    \/ JoinPeer(c)
    \/ Reject(c)
    \/ HandleOutput(c)
    \/ HandleInput(c)
    \/ HandleChat(c)
    \/ \E p \in Conn : Send(c, p) \/ SendFails(c, p)
    \/ EndLoop(c)
    \/ RemoveRaises(c)
    \/ EndOfStream(c)
    \/ RejectEnd(c)

Next == \E c \in Conn : Handle(c) \/ Disconnect(c) \/ CloseCompletes(c)

Spec == Init /\ [][Next]_vars

(* The loop keeps running every coroutine that is ready, and a closing     *)
(* handshake is bounded by the library's timeout.                          *)
Fairness == \A c \in Conn : WF_vars(Handle(c)) /\ WF_vars(CloseCompletes(c))
FairSpec == Spec /\ Fairness

-----------------------------------------------------------------------------
(* Properties.                                                             *)

TypeOK ==
    /\ hostLists \in Seq(SUBSET Conn) /\ Len(hostLists) >= 1
    /\ viewers \in SUBSET Conn /\ agents \in SUBSET Conn
    /\ token \in {TokenOf[c] : c \in Conn} \cup {NoToken}
    /\ pc \in [Conn -> {"recv", "evict", "rejecting", "done"} \cup Forwarding]
    /\ role \in [Conn -> Role \cup {"none"}]
    /\ pos \in [Conn -> Nat]
    /\ todo \in [Conn -> SUBSET Conn] /\ dead \in [Conn -> SUBSET Conn]
    /\ ref \in [Conn -> Nat \ {0}]
    /\ \A c \in Conn : ref[c] <= Len(hostLists)
    /\ net \in [Conn -> {"open", "closing", "closed"}]
    /\ got \in [Conn -> Seq(Conn \X Nat)]

(* The host list never holds two connections, whatever joins interleave    *)
(* with an eviction: input is never forwarded to two hosts.                *)
AtMostOneHost == \A k \in 1..Len(hostLists) :
                     \A g, h \in hostLists[k] : g = h

(* Everybody in the registry has a live coroutine that will remove it in   *)
(* its finally block, under the role it joined with: /session/<id> never   *)
(* reports a host whose handler has ended.                                 *)
RegisteredIsHandled ==
    /\ \A c \in Registered : pc[c] \notin {"done", "evict", "rejecting"}
    /\ \A c \in Hosts : role[c] = "host"
    /\ \A c \in viewers : role[c] = "viewer"
    /\ \A c \in agents : role[c] = "agent"

(* The token in force is the one of the registered host, if it gave one:   *)
(* a joining host that still waits for an eviction has not replaced it.    *)
TokenOfTheHost == \A h \in Hosts : TokenOf[h] # NoToken => token = TokenOf[h]

(* A host the relay serves: joined, past its eviction, and connected.      *)
ActiveHosts == {h \in Conn : /\ role[h] = "host" /\ net[h] = "open"
                             /\ pc[h] \notin {"evict", "done"}}

(* "só 1 host ativo por sessão", relay_handler.py:112.                     *)
OneActiveHost == \A g, h \in ActiveHosts : g = h

(* The places of one sender's frames in what a peer has got.               *)
PlacesOf(c, p) == {i \in 1..Len(got[p]) : got[p][i][1] = c}
IsLast(i, S) == i \in S /\ \A k \in S : k <= i

(* A viewer's copy of a host's stream has no gap, no repetition and no     *)
(* reordering, and is complete from its first frame on whenever the host   *)
(* has been dealt with, although sends to other viewers fail or wait and   *)
(* viewers come and go during a broadcast.                                 *)
StreamIsContiguous ==
    \A h, v \in Conn :
        RoleOf[h] = "host" /\ RoleOf[v] = "viewer" =>
            LET places == PlacesOf(h, v)
            IN  /\ \A i, j \in places :
                      i < j /\ (\A k \in places : k <= i \/ j <= k)
                      => got[v][j][2] = got[v][i][2] + 1
                /\ net[v] = "open" /\ pc[h] = "recv"
                     => \A i \in places : IsLast(i, places) => got[v][i][2] = pos[h] - 1

(* The departure of a peer does not end the coroutine of another client:   *)
(* a client that has joined is dropped only when its own connection has    *)
(* gone.  "desconecta e reconecta sem corromper sessão",                   *)
(* project/docs/TASK_LIST.md:84.                                           *)
ClientsOutliveTheirPeers ==
    [][\A c \in Conn : pc[c] \notin {"done", "rejecting"} /\ pc'[c] = "done"
                         => net[c] # "open"]_vars

(* A closed connection is forgotten: its coroutine ends and it is in no     *)
(* list, so that /session/<id> stops reporting a host that has gone.       *)
ClosedIsForgotten ==
    \A c \in Conn : net[c] = "closed" ~> (pc[c] = "done" /\ c \notin Registered)

(* A host that waits for an eviction gets its place, or leaves.            *)
EvictionEnds == \A c \in Conn : pc[c] = "evict" ~> pc[c] # "evict"
=============================================================================
