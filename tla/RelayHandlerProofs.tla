------------------------- MODULE RelayHandlerProofs -------------------------
(* Proofs about RelayHandler for any number of connections, any roles,      *)
(* tokens and scripts.                                                      *)
EXTENDS RelayHandler, SequenceTheorems, TLAPS

(* A coroutine that awaits anything but a frame has read its join, and one *)
(* that waits for an eviction is a host.                                   *)
Joined ==
    \A c \in Conn : /\ pc[c] \in Forwarding \cup {"evict", "rejecting"} => pos[c] >= 1
                    /\ pc[c] = "evict" => role[c] = "host"

(* A connection is not in the registry before its join.                    *)
FreshIsUnregistered == \A c \in Conn : pos[c] = 0 => c \notin Registered

IInv == /\ TypeOK /\ Joined
        /\ AtMostOneHost /\ FreshIsUnregistered /\ RegisteredIsHandled
        /\ TokenOfTheHost

-----------------------------------------------------------------------------
(* An update of one list of a nonempty sequence of lists.                  *)
LEMMA UpdateList ==
    ASSUME NEW s \in Seq(SUBSET Conn), NEW k \in 1..Len(s), NEW S \in SUBSET Conn
    PROVE  LET t == [s EXCEPT ![k] = S]
           IN  /\ t \in Seq(SUBSET Conn)
               /\ Len(t) = Len(s)
               /\ \A j \in 1..Len(s) : t[j] = IF j = k THEN S ELSE s[j]
  BY ExceptSeq

(* Initially nobody is registered.                                         *)
LEMMA InitIInv == Init => IInv
<1> SUFFICES ASSUME Init PROVE IInv
  OBVIOUS
<1> USE DEF Init
<1>1. hostLists \in Seq(SUBSET Conn) /\ Len(hostLists) = 1 /\ Hosts = {}
  BY DEF Hosts
<1>2. TypeOK
  BY <1>1 DEF TypeOK, Forwarding, Role
<1>3. Joined
  BY DEF Joined, Forwarding
<1>4. AtMostOneHost
  BY <1>1 DEF AtMostOneHost
<1>5. FreshIsUnregistered /\ RegisteredIsHandled /\ TokenOfTheHost
  BY <1>1 DEF FreshIsUnregistered, RegisteredIsHandled, TokenOfTheHost, Registered
<1> QED BY <1>2, <1>3, <1>4, <1>5 DEF IInv

(* Every action preserves the types.                                       *)
LEMMA TypeStep == ASSUME IInv, [Next]_vars PROVE TypeOK'
<1> USE DEF IInv, TypeOK, Forwarding, Role, registry, frame
<1>1. CASE UNCHANGED vars
  BY <1>1 DEF vars
<1> DEFINE last == Len(hostLists)
<1>last. last \in 1..Len(hostLists) /\ Hosts \in SUBSET Conn
  BY ElementOfSeq DEF Hosts
<1> SUFFICES ASSUME NEW c \in Conn,
                    Handle(c) \/ Disconnect(c) \/ CloseCompletes(c)
             PROVE  TypeOK'
  BY <1>1 DEF Next
<1>net. ASSUME NEW S \in SUBSET Conn, StartClose(S)
        PROVE  net' \in [Conn -> {"open", "closing", "closed"}]
  BY <1>net DEF StartClose
<1>enter. ASSUME NEW S \in SUBSET Conn,
                 NEW loop \in {"recv", "done"} \cup Forwarding, Enter(c, loop, S)
          PROVE  /\ pc' \in [Conn -> {"recv", "evict", "rejecting", "done"} \cup Forwarding]
                 /\ todo' \in [Conn -> SUBSET Conn] /\ dead' \in [Conn -> SUBSET Conn]
  BY <1>enter DEF Enter
<1>next. ASSUME NEW type, NextFrame(c, type) PROVE pos' \in [Conn -> Nat]
  BY <1>next DEF NextFrame
<1>len. Len(hostLists) \in Nat \ {0}
  BY LenProperties
<1>tok. TokenAfterJoin(c) \in {TokenOf[x] : x \in Conn} \cup {NoToken}
  BY DEF TokenAfterJoin
<1>2. CASE JoinHost(c)
  <2>1. /\ hostLists' \in Seq(SUBSET Conn) /\ Len(hostLists') = Len(hostLists)
    BY <1>2, <1>last, UpdateList DEF JoinHost, Vacant, Hosts
  <2> QED BY <1>2, <2>1, <1>tok DEF JoinHost, Vacant
<1>3. CASE EvictStart(c)
  BY <1>3, <1>net, <1>last DEF EvictStart, Vacant
<1>4. CASE EvictEnd(c)
  <2>1. hostLists' \in Seq(SUBSET Conn) /\ Len(hostLists') = Len(hostLists) + 1
    BY <1>4, AppendProperties, {c} \in SUBSET Conn DEF EvictEnd
  <2> QED BY <1>4, <2>1, <1>tok, <1>len DEF EvictEnd
<1>5. CASE JoinPeer(c)
  BY <1>5, RoleAssumption DEF JoinPeer
<1>6. CASE Reject(c)
  BY <1>6, <1>net, RoleAssumption DEF Reject
<1>7. CASE HandleOutput(c)
  BY <1>7, <1>next, <1>enter DEF HandleOutput
<1>8. CASE HandleInput(c)
  <2>1. pos' \in [Conn -> Nat]
    BY <1>8, <1>next DEF HandleInput, Holds
  <2>2. \A x \in Conn : ref'[x] <= Len(hostLists) /\ ref' \in [Conn -> Nat \ {0}]
    BY <1>8, <1>len DEF HandleInput, Holds
  <2> QED BY <1>8, <1>enter, <1>last, <2>1, <2>2 DEF HandleInput, Holds
<1>9. CASE HandleChat(c)
  BY <1>9, <1>last, <1>next, <1>enter DEF HandleChat, Registered
<1>10. ASSUME NEW p \in Conn, Send(c, p) PROVE TypeOK'
  <2>1. pos[c] - 1 \in Nat
    <3>1. pos[c] \in Nat /\ pos[c] >= 1
      BY <1>10 DEF Send, Reached, Joined
    <3> QED BY <3>1
  <2>2. Append(got[p], <<c, pos[c] - 1>>) \in Seq(Conn \X Nat)
    BY <2>1, AppendProperties
  <2> QED BY <1>10, <2>2 DEF Send, Reached
<1>11. ASSUME NEW p \in Conn, SendFails(c, p) PROVE TypeOK'
  BY <1>11 DEF SendFails, Reached
<1>12. CASE EndLoop(c)
  <2>1. hostLists' \in Seq(SUBSET Conn) /\ Len(hostLists') = Len(hostLists)
    <3>1. hostLists[ref[c]] \in SUBSET Conn /\ ref[c] \in 1..Len(hostLists)
      BY <1>len, ElementOfSeq
    <3> DEFINE t == [hostLists EXCEPT ![ref[c]] = @ \ dead[c]]
    <3>2. t \in Seq(SUBSET Conn) /\ Len(t) = Len(hostLists)
      BY <3>1, hostLists[ref[c]] \ dead[c] \in SUBSET Conn, UpdateList
    <3>3. hostLists' = t \/ hostLists' = hostLists
      BY <1>12 DEF EndLoop, RemoveFromLoopList
    <3> HIDE DEF t
    <3> QED BY <3>2, <3>3
  <2>2. viewers' \in SUBSET Conn /\ agents' \in SUBSET Conn
    BY <1>12 DEF EndLoop, RemoveFromLoopList
  <2>3. /\ pc' \in [Conn -> {"recv", "evict", "rejecting", "done"} \cup Forwarding]
        /\ todo' \in [Conn -> SUBSET Conn] /\ dead' \in [Conn -> SUBSET Conn]
    BY <1>12, <1>enter DEF EndLoop
  <2> QED BY <1>12, <2>1, <2>2, <2>3 DEF EndLoop
<1>fin. ASSUME NEW hs \in Seq(SUBSET Conn), Len(hs) = Len(hostLists),
               NEW vs \in SUBSET Conn, NEW as \in SUBSET Conn, Finally(c, hs, vs, as)
        PROVE  TypeOK'
  <2>1. hostLists' \in Seq(SUBSET Conn) /\ Len(hostLists') = Len(hostLists)
    <3>1. hs[Len(hs)] \in SUBSET Conn /\ Len(hs) \in 1..Len(hs)
      BY <1>fin, <1>len, ElementOfSeq
    <3>2. LET t == [hs EXCEPT ![Len(hs)] = @ \ {c}]
          IN  t \in Seq(SUBSET Conn) /\ Len(t) = Len(hs)
      BY <3>1, <1>fin, hs[Len(hs)] \ {c} \in SUBSET Conn, UpdateList
    <3> QED BY <1>fin, <3>2 DEF Finally, Leave
  <2>2. viewers' \in SUBSET Conn /\ agents' \in SUBSET Conn
    BY <1>fin DEF Finally, Leave
  <2>3. /\ pc' \in [Conn -> {"recv", "evict", "rejecting", "done"} \cup Forwarding]
        /\ todo' \in [Conn -> SUBSET Conn] /\ dead' \in [Conn -> SUBSET Conn]
    BY <1>fin, <1>enter DEF Finally, Leave
  <2>4. net' \in [Conn -> {"open", "closing", "closed"}]
    BY <1>fin, <1>net DEF Finally, Leave
  <2> QED BY <1>fin, <2>1, <2>2, <2>3, <2>4 DEF Finally, Leave
<1>13. CASE RemoveRaises(c)
  <2> PICK S \in SUBSET (dead[c] \cap LoopList(c)) :
         Finally(c,
                 IF pc[c] = "to_hosts"
                 THEN [hostLists EXCEPT ![ref[c]] = @ \ S] ELSE hostLists,
                 IF pc[c] = "to_viewers" THEN viewers \ S ELSE viewers,
                 IF pc[c] = "to_agents" THEN agents \ S ELSE agents)
    BY <1>13 DEF RemoveRaises
  <2> DEFINE hs == IF pc[c] = "to_hosts"
                   THEN [hostLists EXCEPT ![ref[c]] = @ \ S] ELSE hostLists
             vs == IF pc[c] = "to_viewers" THEN viewers \ S ELSE viewers
             as == IF pc[c] = "to_agents" THEN agents \ S ELSE agents
  <2>1. hs \in Seq(SUBSET Conn) /\ Len(hs) = Len(hostLists)
    <3>1. hostLists[ref[c]] \ S \in SUBSET Conn /\ ref[c] \in 1..Len(hostLists)
      BY <1>len, ElementOfSeq
    <3> QED BY <3>1, UpdateList
  <2>2. vs \in SUBSET Conn /\ as \in SUBSET Conn
    OBVIOUS
  <2>3. Finally(c, hs, vs, as)
    OBVIOUS
  <2> HIDE DEF hs, vs, as
  <2> QED BY <2>1, <2>2, <2>3, <1>fin
<1>14. CASE EndOfStream(c)
  BY <1>14, <1>fin DEF EndOfStream
<1>15. CASE RejectEnd(c)
  BY <1>15, <1>fin DEF RejectEnd
<1>16. CASE Disconnect(c)
  BY <1>16 DEF Disconnect
<1>17. CASE CloseCompletes(c)
  BY <1>17 DEF CloseCompletes
<1> QED BY <1>2, <1>3, <1>4, <1>5, <1>6, <1>7, <1>8, <1>9, <1>10, <1>11, <1>12,
           <1>13, <1>14, <1>15, <1>16, <1>17 DEF Handle

-----------------------------------------------------------------------------
(* A step that registers nobody: every list keeps some of its members.     *)
Shrinks ==
    /\ hostLists' \in Seq(SUBSET Conn) /\ Len(hostLists') = Len(hostLists)
    /\ \A k \in 1..Len(hostLists) : hostLists'[k] \subseteq hostLists[k]
    /\ viewers' \subseteq viewers /\ agents' \subseteq agents
    /\ UNCHANGED <<token, role>>

(* The finally block of c, run on lists that have lost some members.       *)
LEMMA FinallyShrinks ==
    ASSUME TypeOK, RegisteredIsHandled, NEW c \in Conn,
           NEW hs \in Seq(SUBSET Conn), Len(hs) = Len(hostLists),
           \A k \in 1..Len(hostLists) : hs[k] \subseteq hostLists[k],
           NEW vs \in SUBSET viewers, NEW as \in SUBSET agents,
           Finally(c, hs, vs, as)
    PROVE  Shrinks /\ c \notin Registered' /\ pc' = [pc EXCEPT ![c] = "done"]
<1> USE DEF TypeOK, Finally, Leave
<1> DEFINE n == Len(hs)
           rest == IF role[c] = "host" THEN hs[n] \ {c} ELSE hs[n]
           t == [hs EXCEPT ![n] = rest]
<1>1. n \in 1..n /\ hs[n] \subseteq Conn
  BY LenProperties, ElementOfSeq
<1>2. /\ t \in Seq(SUBSET Conn) /\ Len(t) = n
      /\ \A k \in 1..n : t[k] = IF k = n THEN rest ELSE hs[k]
  BY <1>1, rest \in SUBSET Conn, UpdateList
<1>3. hostLists' = t
  OBVIOUS
<1> HIDE DEF t
<1>4. Shrinks
  BY <1>2, <1>3 DEF Shrinks
<1>5. Hosts' = hostLists'[n] /\ Hosts = hostLists[n] /\ hs[n] \subseteq hostLists[n]
  BY <1>1, <1>2, <1>3 DEF Hosts
<1>6. c \notin Hosts'
  BY <1>1, <1>2, <1>3, <1>5 DEF RegisteredIsHandled
<1>7. c \notin viewers' /\ c \notin agents'
  BY DEF RegisteredIsHandled
<1> QED BY <1>4, <1>6, <1>7 DEF Registered, Enter

(* Every way a coroutine ends.                                             *)
LEMMA EndShrinks ==
    ASSUME TypeOK, RegisteredIsHandled, NEW c \in Conn,
           RemoveRaises(c) \/ EndOfStream(c) \/ RejectEnd(c)
    PROVE  /\ Shrinks /\ c \notin Registered' /\ pc' = [pc EXCEPT ![c] = "done"]
           /\ UNCHANGED pos
<1>1. CASE RemoveRaises(c)
  <2> PICK S \in SUBSET (dead[c] \cap LoopList(c)) :
         Finally(c,
                 IF pc[c] = "to_hosts"
                 THEN [hostLists EXCEPT ![ref[c]] = @ \ S] ELSE hostLists,
                 IF pc[c] = "to_viewers" THEN viewers \ S ELSE viewers,
                 IF pc[c] = "to_agents" THEN agents \ S ELSE agents)
    BY <1>1 DEF RemoveRaises
  <2> DEFINE hs == IF pc[c] = "to_hosts"
                   THEN [hostLists EXCEPT ![ref[c]] = @ \ S] ELSE hostLists
             vs == IF pc[c] = "to_viewers" THEN viewers \ S ELSE viewers
             as == IF pc[c] = "to_agents" THEN agents \ S ELSE agents
  <2>1. /\ hs \in Seq(SUBSET Conn) /\ Len(hs) = Len(hostLists)
        /\ \A k \in 1..Len(hostLists) : hs[k] \subseteq hostLists[k]
    <3>1. hostLists[ref[c]] \ S \in SUBSET Conn /\ ref[c] \in 1..Len(hostLists)
      BY LenProperties, ElementOfSeq DEF TypeOK
    <3> DEFINE t == [hostLists EXCEPT ![ref[c]] = @ \ S]
    <3>2. /\ t \in Seq(SUBSET Conn) /\ Len(t) = Len(hostLists)
          /\ \A k \in 1..Len(hostLists) :
                t[k] = IF k = ref[c] THEN hostLists[ref[c]] \ S ELSE hostLists[k]
      BY <3>1, UpdateList DEF TypeOK
    <3>3. hs = IF pc[c] = "to_hosts" THEN t ELSE hostLists
      OBVIOUS
    <3> HIDE DEF t, hs
    <3> QED BY <3>2, <3>3 DEF TypeOK
  <2>2. vs \in SUBSET viewers /\ as \in SUBSET agents
    OBVIOUS
  <2>3. Finally(c, hs, vs, as)
    OBVIOUS
  <2> HIDE DEF hs, vs, as
  <2> QED BY <2>1, <2>2, <2>3, FinallyShrinks DEF Finally, Leave
<1>2. CASE EndOfStream(c) \/ RejectEnd(c)
  <2>1. Finally(c, hostLists, viewers, agents)
    BY <1>2 DEF EndOfStream, RejectEnd
  <2>2. viewers \in SUBSET viewers /\ agents \in SUBSET agents
    OBVIOUS
  <2> QED BY <2>1, <2>2, FinallyShrinks DEF Finally, Leave, TypeOK
<1> QED BY <1>1, <1>2

(* What a shrinking step preserves.                                        *)
LEMMA ShrinkKeeps ==
    ASSUME IInv, Shrinks
    PROVE  Registered' \subseteq Registered /\ AtMostOneHost' /\ TokenOfTheHost'
<1>1. Len(hostLists) \in 1..Len(hostLists)
  BY LenProperties DEF IInv, TypeOK
<1>2. Hosts' \subseteq Hosts
  BY <1>1 DEF Shrinks, Hosts
<1> QED BY <1>1, <1>2 DEF IInv, Shrinks, Registered, AtMostOneHost, TokenOfTheHost

(* Every action preserves what is said of the registry.                    *)
LEMMA RegistryStep ==
    ASSUME IInv, [Next]_vars
    PROVE  (Joined /\ AtMostOneHost /\ FreshIsUnregistered
              /\ RegisteredIsHandled /\ TokenOfTheHost)'
<1> DEFINE Goal == Joined /\ AtMostOneHost /\ FreshIsUnregistered
                     /\ RegisteredIsHandled /\ TokenOfTheHost
<1> USE DEF IInv
<1>1. CASE UNCHANGED vars
  BY <1>1 DEF vars, Joined, AtMostOneHost, FreshIsUnregistered,
              RegisteredIsHandled, TokenOfTheHost, Hosts, Registered
<1> SUFFICES ASSUME NEW c \in Conn,
                    Handle(c) \/ Disconnect(c) \/ CloseCompletes(c)
             PROVE  Goal'
  BY <1>1 DEF Next
<1>len. Len(hostLists) \in Nat /\ Len(hostLists) >= 1
  BY LenProperties DEF TypeOK
<1>sub. Registered \subseteq Conn
  BY <1>len, ElementOfSeq DEF TypeOK, Registered, Hosts
<1>pos. \A x \in Conn : pos[x] \in Nat
  BY DEF TypeOK
<1>unchanged. ASSUME UNCHANGED registry PROVE Registered' = Registered /\ Hosts' = Hosts
                                              /\ AtMostOneHost' /\ TokenOfTheHost'
  BY <1>unchanged DEF registry, Registered, Hosts, AtMostOneHost, TokenOfTheHost
<1>2. CASE JoinHost(c)
  <2>1. /\ Hosts' = {c} /\ Len(hostLists') = Len(hostLists)
        /\ \A k \in 1..Len(hostLists) :
              hostLists'[k] = IF k = Len(hostLists) THEN {c} ELSE hostLists[k]
    <3>1. Hosts = {} /\ hostLists[Len(hostLists)] = {}
      BY <1>2 DEF JoinHost, Vacant, Hosts
    <3>2. hostLists' = [hostLists EXCEPT ![Len(hostLists)] = {c}]
      BY <1>2, <3>1 DEF JoinHost, Vacant
    <3> QED BY <3>2, <1>len, UpdateList, {c} \in SUBSET Conn DEF TypeOK, Hosts
  <2>2. AtMostOneHost'
    BY <2>1 DEF AtMostOneHost
  <2>3. TokenOfTheHost'
    BY <2>1, <1>2 DEF JoinHost, Vacant, TokenOfTheHost, TokenAfterJoin
  <2>4. Registered' \subseteq Registered \cup {c}
    BY <2>1, <1>2 DEF JoinHost, Vacant, Registered
  <2>5. Joined' /\ FreshIsUnregistered'
    BY <2>4, <1>2, <1>pos DEF JoinHost, Vacant, Joined, FreshIsUnregistered, Reads, Forwarding, TypeOK
  <2>6. RegisteredIsHandled'
    <3>1. /\ c \notin Registered /\ pc[c] = "recv" /\ UNCHANGED <<pc, viewers, agents>>
          /\ role' = [role EXCEPT ![c] = "host"]
      BY <1>2 DEF JoinHost, Vacant, FreshIsUnregistered, Reads
    <3> QED BY <2>1, <2>4, <3>1 DEF RegisteredIsHandled, Registered, TypeOK
  <2> QED BY <2>2, <2>3, <2>5, <2>6
<1>3. CASE EvictStart(c) \/ Reject(c)
  <2>1. UNCHANGED registry /\ c \notin Registered /\ pos' = [pos EXCEPT ![c] = 1]
    BY <1>3 DEF EvictStart, Vacant, Reject, FreshIsUnregistered
  <2>2. Joined'
    BY <1>3, <2>1, <1>pos DEF EvictStart, Vacant, Reject, Joined, Forwarding, TypeOK
  <2>3. FreshIsUnregistered'
    BY <2>1, <1>unchanged DEF FreshIsUnregistered, TypeOK
  <2>4. \A x \in Conn \ {c} : pc'[x] = pc[x] /\ role'[x] = role[x]
    BY <1>3 DEF EvictStart, Vacant, Reject, TypeOK
  <2>5. RegisteredIsHandled'
    BY <2>1, <2>4, <1>sub, <1>unchanged DEF RegisteredIsHandled, Registered, registry
  <2> QED BY <2>1, <2>2, <2>3, <2>5, <1>unchanged
<1>4. CASE EvictEnd(c)
  <2>1. /\ Hosts' = {c} /\ Len(hostLists') = Len(hostLists) + 1
        /\ \A k \in 1..Len(hostLists) : hostLists'[k] = hostLists[k]
        /\ hostLists'[Len(hostLists) + 1] = {c}
    BY <1>4, <1>len, AppendProperties, {c} \in SUBSET Conn DEF EvictEnd, Hosts, TypeOK
  <2>2. AtMostOneHost'
    BY <2>1, <1>len DEF AtMostOneHost
  <2>3. TokenOfTheHost'
    BY <2>1, <1>4 DEF EvictEnd, TokenOfTheHost, TokenAfterJoin
  <2>4. Registered' \subseteq Registered \cup {c}
    BY <2>1, <1>4 DEF EvictEnd, Registered
  <2>5. pos[c] >= 1 /\ role[c] = "host"
    BY <1>4 DEF EvictEnd, Joined
  <2>6. Joined' /\ FreshIsUnregistered'
    BY <2>4, <2>5, <1>4, <1>pos DEF EvictEnd, Joined, FreshIsUnregistered, Forwarding, TypeOK
  <2>7. RegisteredIsHandled'
    BY <2>1, <2>4, <2>5, <1>4 DEF EvictEnd, RegisteredIsHandled, Registered, TypeOK
  <2> QED BY <2>2, <2>3, <2>6, <2>7
<1>5. CASE JoinPeer(c)
  <2>1. /\ UNCHANGED <<hostLists, token, pc>> /\ Hosts' = Hosts /\ pc[c] = "recv"
        /\ role' = [role EXCEPT ![c] = RoleOf[c]] /\ pos' = [pos EXCEPT ![c] = 1]
        /\ c \notin Registered /\ RoleOf[c] \in {"viewer", "agent"}
    BY <1>5 DEF JoinPeer, FreshIsUnregistered, Hosts, Reads
  <2>2. /\ viewers' \subseteq IF RoleOf[c] = "viewer" THEN viewers \cup {c} ELSE viewers
        /\ agents' \subseteq IF RoleOf[c] = "agent" THEN agents \cup {c} ELSE agents
    BY <1>5 DEF JoinPeer
  <2>3. AtMostOneHost' /\ TokenOfTheHost'
    BY <2>1 DEF AtMostOneHost, TokenOfTheHost
  <2>4. Joined' /\ FreshIsUnregistered'
    BY <2>1, <2>2, <1>pos DEF Joined, FreshIsUnregistered, Forwarding, Registered, TypeOK
  <2>5. RegisteredIsHandled'
    BY <2>1, <2>2 DEF RegisteredIsHandled, Registered, TypeOK
  <2> QED BY <2>3, <2>4, <2>5
<1>6. CASE HandleOutput(c) \/ HandleInput(c) \/ HandleChat(c)
  <2>1. /\ UNCHANGED <<registry, role>>
        /\ pc[c] = "recv" /\ pos[c] > 0
        /\ pos' = [pos EXCEPT ![c] = @ + 1]
        /\ \E loop \in Forwarding : pc' = [pc EXCEPT ![c] = loop]
    BY <1>6 DEF HandleOutput, HandleInput, Holds, HandleChat, NextFrame, Reads, Enter, Forwarding
  <2> PICK loop \in Forwarding : pc' = [pc EXCEPT ![c] = loop]
    BY <2>1
  <2>2. loop \notin {"done", "evict", "rejecting"}
    BY DEF Forwarding
  <2>3. Joined' /\ FreshIsUnregistered'
    BY <2>1, <2>2, <1>pos, <1>unchanged DEF Joined, FreshIsUnregistered, TypeOK
  <2>4. RegisteredIsHandled'
    BY <2>1, <2>2, <1>unchanged DEF RegisteredIsHandled, registry, TypeOK
  <2> QED BY <2>1, <2>3, <2>4, <1>unchanged
<1>7. CASE \/ \E p \in Conn : Send(c, p) \/ SendFails(c, p)
           \/ Disconnect(c) \/ CloseCompletes(c)
  <2>1. UNCHANGED <<registry, role, pc, pos>>
    BY <1>7 DEF Send, Reached, SendFails, Disconnect, CloseCompletes
  <2>2. Joined' /\ FreshIsUnregistered'
    BY <2>1, <1>unchanged DEF Joined, FreshIsUnregistered
  <2>3. RegisteredIsHandled'
    BY <2>1, <1>unchanged DEF RegisteredIsHandled, registry
  <2> QED BY <2>1, <2>2, <2>3, <1>unchanged
<1>shrinks. ASSUME Shrinks, UNCHANGED pos, NEW l \in {"recv", "done"} \cup Forwarding,
                   pc' = [pc EXCEPT ![c] = l], l = "done" => c \notin Registered',
                   l \in Forwarding => pos[c] >= 1
            PROVE  Goal'
  <2>1. Registered' \subseteq Registered /\ AtMostOneHost' /\ TokenOfTheHost'
    BY <1>shrinks, ShrinkKeeps
  <2>2. Joined'
    BY <1>shrinks DEF Joined, Shrinks, Forwarding, TypeOK
  <2>3. FreshIsUnregistered'
    BY <1>shrinks, <2>1 DEF FreshIsUnregistered
  <2>4. Hosts' \subseteq Hosts
    BY <1>shrinks, <1>len DEF Shrinks, Hosts
  <2>5. RegisteredIsHandled'
    BY <1>shrinks, <2>1, <2>4 DEF RegisteredIsHandled, Shrinks, Forwarding, TypeOK
  <2> QED BY <2>1, <2>2, <2>3, <2>5
<1>8. CASE EndLoop(c)
  <2>1. Shrinks
    <3>1. /\ hostLists[ref[c]] \ dead[c] \in SUBSET Conn
          /\ ref[c] \in 1..Len(hostLists)
      BY <1>len, ElementOfSeq DEF TypeOK
    <3> DEFINE t == [hostLists EXCEPT ![ref[c]] = @ \ dead[c]]
    <3>2. /\ t \in Seq(SUBSET Conn) /\ Len(t) = Len(hostLists)
          /\ \A k \in 1..Len(hostLists) :
                t[k] = IF k = ref[c] THEN hostLists[ref[c]] \ dead[c] ELSE hostLists[k]
      BY <3>1, UpdateList DEF TypeOK
    <3>3. /\ hostLists' = IF pc[c] = "to_hosts" THEN t ELSE hostLists
          /\ viewers' \subseteq viewers /\ agents' \subseteq agents
          /\ UNCHANGED <<token, role>>
      BY <1>8 DEF EndLoop, RemoveFromLoopList
    <3> HIDE DEF t
    <3> QED BY <3>2, <3>3 DEF Shrinks, TypeOK
  <2>2. UNCHANGED pos /\ pos[c] >= 1
        /\ \E l \in {"recv", "to_agents"} : pc' = [pc EXCEPT ![c] = l]
    BY <1>8 DEF EndLoop, LoopDone, Enter, Joined
  <2> QED BY <2>1, <2>2, <1>shrinks DEF Forwarding
<1>9. CASE RemoveRaises(c) \/ EndOfStream(c) \/ RejectEnd(c)
  BY <1>9, EndShrinks, <1>shrinks DEF Forwarding
<1> QED BY <1>2, <1>3, <1>4, <1>5, <1>6, <1>7, <1>8, <1>9 DEF Handle

-----------------------------------------------------------------------------
(* The inductive invariant.                                                *)
THEOREM Invariance == Spec => []IInv
<1>1. Init => IInv
  BY InitIInv
<1>2. IInv /\ [Next]_vars => IInv'
  BY TypeStep, RegistryStep DEF IInv
<1> QED BY <1>1, <1>2, PTL DEF Spec

(* The state of the relay is well-formed in every run, for any connections.*)
THEOREM TypeCorrect == Spec => []TypeOK
<1>1. IInv => TypeOK
  BY DEF IInv
<1> QED BY <1>1, Invariance, PTL

(* No list of hosts ever holds two connections: what a viewer types is     *)
(* never forwarded to two hosts.                                           *)
THEOREM OneHostRegistered == Spec => []AtMostOneHost
<1>1. IInv => AtMostOneHost
  BY DEF IInv
<1> QED BY <1>1, Invariance, PTL

(* Whoever is registered has a running coroutine that will unregister it.  *)
THEOREM RegistryIsLive == Spec => []RegisteredIsHandled
<1>1. IInv => RegisteredIsHandled
  BY DEF IInv
<1> QED BY <1>1, Invariance, PTL

(* The token in force is that of the registered host.                      *)
THEOREM TokenFollowsHost == Spec => []TokenOfTheHost
<1>1. IInv => TokenOfTheHost
  BY DEF IInv
<1> QED BY <1>1, Invariance, PTL

-----------------------------------------------------------------------------
(* The streams.                                                            *)

(* The role of a coroutine is the one its client joined with; a host that  *)
(* waits for an eviction has sent nothing yet, a coroutine in a loop has   *)
(* read a frame after its join, and one that reads has left its loop.      *)
RoleKept(c) ==
    /\ role[c] = IF pos[c] = 0 THEN "none" ELSE RoleOf[c]
    /\ pc[c] = "evict" => pos[c] = 1
    /\ pc[c] \in Forwarding => pos[c] >= 2
    /\ pc[c] = "recv" => todo[c] = {}

RolesKept == \A c \in Conn : RoleKept(c)

(* A loop notes a peer as dead only when its connection has gone.          *)
DeadAreGone == \A c \in Conn : \A x \in dead[c] : net[x] # "open"

(* The frames of h that v has got follow one another.                      *)
NoGap(h, v) ==
    \A i, j \in PlacesOf(h, v) :
        i < j /\ (\A k \in PlacesOf(h, v) : k <= i \/ j <= k)
        => got[v][j][2] = got[v][i][2] + 1

(* A connected viewer of a stream stays in the list the host's loops copy, *)
(* and the last frame it has is the one the host is sending, or the one    *)
(* before when its turn has not come.                                      *)
Follows(h, v) ==
    /\ PlacesOf(h, v) # {} => pos[h] >= 2
    /\ net[v] = "open" /\ (PlacesOf(h, v) # {} \/ v \in todo[h]) => v \in viewers
    /\ net[v] = "open" /\ pc[h] # "done" =>
          \A i \in PlacesOf(h, v) : IsLast(i, PlacesOf(h, v)) =>
              got[v][i][2] = IF v \in todo[h] THEN pos[h] - 2 ELSE pos[h] - 1

ViewerOf(h, v) == RoleOf[h] = "host" /\ RoleOf[v] = "viewer"

Streams == \A h, v \in Conn : ViewerOf(h, v) => NoGap(h, v) /\ Follows(h, v)

SInv == RolesKept /\ DeadAreGone /\ Streams

(* Every way a coroutine ends drops connected viewers but itself from no   *)
(* list, and the connection of its own client.                             *)
LEMMA EndKeepsViewers ==
    ASSUME TypeOK, DeadAreGone, NEW c \in Conn,
           RemoveRaises(c) \/ EndOfStream(c) \/ RejectEnd(c)
    PROVE  /\ UNCHANGED <<got, pos, role>>
           /\ pc' = [pc EXCEPT ![c] = "done"]
           /\ todo' = [todo EXCEPT ![c] = {}] /\ dead' = [dead EXCEPT ![c] = {}]
           /\ \A x \in Conn : net'[x] = "open" =>
                 net[x] = "open" /\ x # c /\ (x \in viewers => x \in viewers')
<1>fin. ASSUME NEW hs, NEW vs, NEW as, Finally(c, hs, vs, as)
        PROVE  /\ UNCHANGED <<got, pos, role>>
               /\ pc' = [pc EXCEPT ![c] = "done"]
               /\ todo' = [todo EXCEPT ![c] = {}] /\ dead' = [dead EXCEPT ![c] = {}]
               /\ \A x \in Conn : net'[x] = "open" => net[x] = "open" /\ x # c
               /\ \A x \in Conn \ {c} : x \in vs => x \in viewers'
  BY <1>fin DEF Finally, Enter, StartClose, Leave, TypeOK
<1>1. CASE RemoveRaises(c)
  <2>1. PICK S \in SUBSET (dead[c] \cap LoopList(c)) :
           Finally(c,
                   IF pc[c] = "to_hosts"
                   THEN [hostLists EXCEPT ![ref[c]] = @ \ S] ELSE hostLists,
                   IF pc[c] = "to_viewers" THEN viewers \ S ELSE viewers,
                   IF pc[c] = "to_agents" THEN agents \ S ELSE agents)
    BY <1>1 DEF RemoveRaises
  <2> DEFINE vs == IF pc[c] = "to_viewers" THEN viewers \ S ELSE viewers
  <2>2. \A x \in Conn : net[x] = "open" /\ x \in viewers => x \in vs
    BY DEF DeadAreGone
  <2> HIDE DEF vs
  <2>3. PICK hs, as : Finally(c, hs, vs, as)
    BY <2>1 DEF vs
  <2> QED BY <2>2, <2>3, <1>fin
<1>2. CASE EndOfStream(c) \/ RejectEnd(c)
  <2>1. Finally(c, hostLists, viewers, agents)
    BY <1>2 DEF EndOfStream, RejectEnd
  <2> QED BY <2>1, <1>fin
<1> QED BY <1>1, <1>2

(* Roles are given by the join, and a dead peer never comes back.          *)
LEMMA RolesStep ==
    ASSUME IInv, RolesKept, DeadAreGone, [Next]_vars
    PROVE  RolesKept' /\ DeadAreGone'
<1> USE DEF IInv, registry, frame
<1>1. CASE UNCHANGED vars
  BY <1>1 DEF vars, RolesKept, RoleKept, DeadAreGone
<1> SUFFICES ASSUME NEW c \in Conn,
                    Handle(c) \/ Disconnect(c) \/ CloseCompletes(c)
             PROVE  RolesKept' /\ DeadAreGone'
  BY <1>1 DEF Next
<1>others. ASSUME \A x \in Conn \ {c} : /\ pc'[x] = pc[x] /\ role'[x] = role[x]
                                        /\ pos'[x] = pos[x] /\ todo'[x] = todo[x],
                  RoleKept(c)'
           PROVE  RolesKept'
  <2>1. ASSUME NEW x \in Conn \ {c} PROVE RoleKept(x)'
    BY <2>1, <1>others DEF RoleKept, RolesKept
  <2> QED BY <2>1, <1>others DEF RolesKept
<1>pos. pos[c] \in Nat /\ RoleKept(c)
  BY DEF TypeOK, RolesKept
<1>2. CASE JoinHost(c) \/ JoinPeer(c)
  <2>1. RoleKept(c)'
    BY <1>2, <1>pos DEF JoinHost, JoinPeer, RoleKept, Reads, TypeOK, Forwarding
  <2>2. RolesKept'
    BY <1>2, <2>1, <1>others DEF JoinHost, JoinPeer, TypeOK
  <2> QED BY <1>2, <2>2 DEF JoinHost, JoinPeer, DeadAreGone
<1>3. CASE EvictStart(c) \/ Reject(c)
  <2>1. RoleKept(c)'
    BY <1>3, <1>pos DEF EvictStart, Reject, RoleKept, Reads, TypeOK, Forwarding
  <2>2. RolesKept'
    BY <1>3, <2>1, <1>others DEF EvictStart, Reject, TypeOK
  <2> QED BY <1>3, <2>2 DEF EvictStart, Reject, StartClose, DeadAreGone, TypeOK
<1>4. CASE EvictEnd(c)
  <2>1. RoleKept(c)'
    BY <1>4, <1>pos DEF EvictEnd, RoleKept, TypeOK, Forwarding
  <2>2. RolesKept'
    BY <1>4, <2>1, <1>others DEF EvictEnd, TypeOK
  <2> QED BY <1>4, <2>2 DEF EvictEnd, DeadAreGone
<1>5. CASE HandleOutput(c) \/ HandleInput(c) \/ HandleChat(c)
  <2>1. /\ UNCHANGED <<role, net>> /\ pos[c] > 0 /\ pos' = [pos EXCEPT ![c] = @ + 1]
        /\ dead' = [dead EXCEPT ![c] = {}]
        /\ \E loop \in Forwarding : \E S : /\ pc' = [pc EXCEPT ![c] = loop]
                                            /\ todo' = [todo EXCEPT ![c] = S]
    BY <1>5 DEF HandleOutput, HandleInput, HandleChat, NextFrame, Enter, Forwarding
  <2>2. RoleKept(c)'
    BY <2>1, <1>pos DEF RoleKept, TypeOK, Forwarding
  <2>3. RolesKept'
    BY <2>1, <2>2, <1>others DEF TypeOK
  <2> QED BY <2>1, <2>3 DEF DeadAreGone, TypeOK
<1>6. ASSUME NEW p \in Conn, Send(c, p) \/ SendFails(c, p)
      PROVE  RolesKept' /\ DeadAreGone'
  <2>1. RoleKept(c)'
    BY <1>6, <1>pos DEF Send, SendFails, Reached, RoleKept, TypeOK, Forwarding
  <2>2. RolesKept'
    BY <1>6, <2>1, <1>others DEF Send, SendFails, Reached, TypeOK
  <2>3. CASE Send(c, p)
    BY <2>2, <2>3 DEF Send, DeadAreGone
  <2>4. CASE SendFails(c, p)
    <3>1. /\ UNCHANGED net /\ net[p] # "open"
          /\ dead' = [dead EXCEPT ![c] = dead'[c]] /\ dead'[c] \subseteq dead[c] \cup {p}
      BY <2>4 DEF SendFails, TypeOK
    <3> QED BY <2>2, <3>1 DEF DeadAreGone, TypeOK
  <2> QED BY <1>6, <2>3, <2>4
<1>7. CASE EndLoop(c)
  <2>1. /\ UNCHANGED <<role, net, pos>> /\ pc[c] \in Forwarding
        /\ dead' = [dead EXCEPT ![c] = {}]
        /\ \/ /\ pc' = [pc EXCEPT ![c] = "to_agents"]
              /\ todo' = [todo EXCEPT ![c] = agents]
           \/ /\ pc' = [pc EXCEPT ![c] = "recv"]
              /\ todo' = [todo EXCEPT ![c] = {}]
    BY <1>7 DEF EndLoop, LoopDone, Enter
  <2>2. RoleKept(c)'
    BY <2>1, <1>pos DEF RoleKept, TypeOK, Forwarding
  <2>3. RolesKept'
    BY <2>1, <2>2, <1>others DEF TypeOK
  <2> QED BY <2>1, <2>3 DEF DeadAreGone, TypeOK
<1>8. CASE RemoveRaises(c) \/ EndOfStream(c) \/ RejectEnd(c)
  <2>1. /\ UNCHANGED <<pos, role>>
        /\ pc' = [pc EXCEPT ![c] = "done"]
        /\ todo' = [todo EXCEPT ![c] = {}] /\ dead' = [dead EXCEPT ![c] = {}]
        /\ \A x \in Conn : net'[x] = "open" => net[x] = "open"
    BY <1>8, EndKeepsViewers
  <2>2. RoleKept(c)'
    BY <2>1, <1>pos DEF RoleKept, TypeOK, Forwarding
  <2>3. RolesKept'
    BY <2>1, <2>2, <1>others DEF TypeOK
  <2> QED BY <2>1, <2>3 DEF DeadAreGone, TypeOK
<1>9. CASE Disconnect(c) \/ CloseCompletes(c)
  BY <1>9 DEF Disconnect, CloseCompletes, RolesKept, RoleKept, DeadAreGone, TypeOK
<1> QED BY <1>2, <1>3, <1>4, <1>5, <1>6, <1>7, <1>8, <1>9 DEF Handle

(* The viewer gets the frame the host is sending: it follows the last one. *)
LEMMA ReceiveStep ==
    ASSUME TypeOK, Joined, RolesKept, NEW h \in Conn, NEW v \in Conn,
           NoGap(h, v), Follows(h, v), Send(h, v)
    PROVE  NoGap(h, v)' /\ Follows(h, v)'
<1> DEFINE n == Len(got[v])
           s == got[v]
           t == Append(s, <<h, pos[h] - 1>>)
<1>1. /\ pc[h] \in Forwarding /\ v \in todo[h] /\ net[v] = "open"
      /\ got'[v] = t /\ v \notin todo'[h]
      /\ UNCHANGED <<viewers, pc, pos, net>>
  BY DEF Send, Reached, registry, TypeOK
<1>2. pos[h] \in Nat /\ pos[h] >= 1 /\ pc[h] # "done"
  BY <1>1 DEF Joined, TypeOK, Forwarding
<1>3. /\ n \in Nat /\ Len(t) = n + 1 /\ t[n + 1][1] = h /\ t[n + 1][2] = pos[h] - 1
      /\ \A i \in 1..n : t[i] = s[i]
  BY AppendProperties DEF TypeOK
<1> HIDE DEF s, t, n
<1>4. PlacesOf(h, v) \subseteq 1..n /\ PlacesOf(h, v)' = PlacesOf(h, v) \cup {n + 1}
  <2>1. PlacesOf(h, v) = {i \in 1..n : s[i][1] = h}
    BY DEF PlacesOf, s, n
  <2>2. PlacesOf(h, v)' = {i \in 1..n + 1 : t[i][1] = h}
    BY <1>1, <1>3 DEF PlacesOf
  <2> QED BY <2>1, <2>2, <1>3
<1>5. \A i \in PlacesOf(h, v) : t[i] = s[i] /\ i \in Nat /\ i < n + 1
  BY <1>3, <1>4
<1>6. \A i \in PlacesOf(h, v) : IsLast(i, PlacesOf(h, v)) => s[i][2] = pos[h] - 2
  BY <1>1, <1>2 DEF Follows, s
<1>7. NoGap(h, v)'
  <2> SUFFICES ASSUME NEW i \in PlacesOf(h, v)', NEW j \in PlacesOf(h, v)', i < j,
                      \A k \in PlacesOf(h, v)' : k <= i \/ j <= k
               PROVE  t[j][2] = t[i][2] + 1
    BY <1>1 DEF NoGap
  <2>1. i \in PlacesOf(h, v) /\ i \in Nat
    <3>1. j <= n + 1 /\ i # n + 1
      BY <1>4, <1>3, <1>5
    <3> QED BY <3>1, <1>4, <1>5
  <2>2. CASE j = n + 1
    <3>1. \A k \in PlacesOf(h, v) : k <= i
      BY <2>2, <1>4, <1>5, <1>3
    <3>2. s[i][2] = pos[h] - 2
      BY <3>1, <2>1, <1>6 DEF IsLast
    <3> QED BY <3>2, <2>1, <2>2, <1>5, <1>3, <1>2
  <2>3. CASE j # n + 1
    <3>1. j \in PlacesOf(h, v)
      BY <2>3, <1>4
    <3>2. s[j][2] = s[i][2] + 1
      BY <3>1, <2>1, <1>4 DEF NoGap, s
    <3> QED BY <3>1, <3>2, <2>1, <1>5
  <2> QED BY <2>2, <2>3
<1>8. \A i \in PlacesOf(h, v)' : IsLast(i, PlacesOf(h, v)') => t[i][2] = pos[h] - 1
  <2> SUFFICES ASSUME NEW i \in PlacesOf(h, v)', IsLast(i, PlacesOf(h, v)')
               PROVE  i = n + 1
    BY <1>3
  <2> QED BY <1>3, <1>4, <1>5 DEF IsLast
<1>9. Follows(h, v)'
  <2>1. v \in viewers
    BY <1>1 DEF Follows
  <2>2. pos[h] >= 2
    BY <1>1 DEF RolesKept, RoleKept
  <2> QED BY <1>1, <1>8, <2>1, <2>2 DEF Follows
<1> QED BY <1>7, <1>9

(* A step that gives v nothing from h, and after which a connected v is as *)
(* far behind h as before.                                                 *)
Keeps(h, v) ==
    /\ PlacesOf(h, v)' = PlacesOf(h, v)
    /\ \A i \in PlacesOf(h, v) : got'[v][i] = got[v][i]
    /\ pos'[h] = pos[h]
    /\ net'[v] = "open" =>
         /\ net[v] = "open"
         /\ v \in viewers => v \in viewers'
         /\ v \in todo'[h] => v \in todo[h]
         /\ pc'[h] # "done" => pc[h] # "done" /\ (v \in todo[h] => v \in todo'[h])

LEMMA KeepsStream ==
    ASSUME NEW h, NEW v, NoGap(h, v), Follows(h, v), Keeps(h, v)
    PROVE  NoGap(h, v)' /\ Follows(h, v)'
<1>1. NoGap(h, v)'
  BY DEF Keeps, NoGap
<1>2. \A i : IsLast(i, PlacesOf(h, v)') <=> IsLast(i, PlacesOf(h, v))
  BY DEF Keeps
<1>3. Follows(h, v)'
  BY <1>2 DEF Keeps, Follows
<1> QED BY <1>1, <1>3

(* What v gets from somebody else is no frame of h.                        *)
LEMMA OtherSender ==
    ASSUME TypeOK, NEW c \in Conn, NEW p \in Conn, NEW h \in Conn, NEW v \in Conn,
           c # h \/ p # v, Send(c, p)
    PROVE  /\ PlacesOf(h, v)' = PlacesOf(h, v)
           /\ \A i \in PlacesOf(h, v) : got'[v][i] = got[v][i]
<1>1. CASE p # v
  <2>1. got'[v] = got[v]
    BY <1>1 DEF Send, TypeOK
  <2> QED BY <2>1 DEF PlacesOf
<1>2. CASE p = v /\ c # h
  <2> DEFINE s == got[v]
             t == Append(s, <<c, pos[c] - 1>>)
             n == Len(s)
  <2>1. got'[v] = t
    BY <1>2 DEF Send, TypeOK
  <2>2. n \in Nat /\ Len(t) = n + 1 /\ t[n + 1][1] = c /\ \A i \in 1..n : t[i] = s[i]
    BY AppendProperties DEF TypeOK
  <2>3. PlacesOf(h, v) = {i \in 1..n : s[i][1] = h}
    BY DEF PlacesOf
  <2> HIDE DEF t, n, s
  <2>4. PlacesOf(h, v)' = {i \in 1..n + 1 : t[i][1] = h}
    BY <2>1, <2>2 DEF PlacesOf
  <2>5. \A i \in PlacesOf(h, v) : t[i] = s[i]
    BY <2>2, <2>3
  <2>6. PlacesOf(h, v)' = PlacesOf(h, v)
    BY <2>2, <2>3, <2>4, <1>2
  <2> QED BY <2>1, <2>5, <2>6 DEF s
<1> QED BY <1>1, <1>2

(* Every action keeps every stream.                                        *)
LEMMA StreamStep == ASSUME IInv, SInv, [Next]_vars PROVE Streams'
<1> USE DEF IInv, SInv, registry, frame
<1>1. CASE UNCHANGED vars
  BY <1>1 DEF vars, Streams, NoGap, Follows, PlacesOf
<1> SUFFICES ASSUME NEW c \in Conn,
                    Handle(c) \/ Disconnect(c) \/ CloseCompletes(c),
                    NEW h \in Conn, NEW v \in Conn, ViewerOf(h, v)
             PROVE  NoGap(h, v)' /\ Follows(h, v)'
  BY <1>1 DEF Next, Streams, ViewerOf
<1>str. NoGap(h, v) /\ Follows(h, v)
  BY DEF Streams
<1>roles. /\ v \notin Hosts /\ v \notin agents /\ h # v
          /\ pos[h] > 0 => role[h] = "host"
  BY DEF RegisteredIsHandled, RolesKept, RoleKept, ViewerOf, TypeOK
<1>pos. pos[h] \in Nat
  BY DEF TypeOK
<1>got. ASSUME UNCHANGED got
        PROVE  /\ PlacesOf(h, v)' = PlacesOf(h, v)
               /\ \A i \in PlacesOf(h, v) : got'[v][i] = got[v][i]
               /\ NoGap(h, v)'
  BY <1>got, <1>str DEF PlacesOf, NoGap
<1>fresh. ASSUME UNCHANGED <<got, viewers>>, pos[h] <= 1, v \notin todo'[h] \/ UNCHANGED <<todo, net>>
          PROVE  NoGap(h, v)' /\ Follows(h, v)'
  <2>1. PlacesOf(h, v)' = {}
    BY <1>fresh, <1>str, <1>pos, <1>got DEF Follows
  <2> QED BY <1>fresh, <2>1, <1>got, <1>str DEF Follows
<1>2. CASE JoinHost(c)
  <2>1. CASE c = h
    BY <1>2, <2>1, <1>fresh DEF JoinHost, frame, Reads
  <2>2. CASE c # h
    BY <1>2, <2>2, <1>got, <1>str, KeepsStream DEF JoinHost, Keeps, TypeOK
  <2> QED BY <2>1, <2>2
<1>3. CASE EvictStart(c)
  <2>1. CASE c = h
    <3>1. v \notin todo'[h]
      BY <1>3, <2>1, <1>roles DEF EvictStart, TypeOK
    <3> QED BY <1>3, <2>1, <3>1, <1>fresh DEF EvictStart
  <2>2. CASE c # h
    BY <1>3, <2>2, <1>got, <1>str, KeepsStream DEF EvictStart, StartClose, Keeps, TypeOK
  <2> QED BY <2>1, <2>2
<1>4. CASE EvictEnd(c)
  <2>1. CASE c = h
    <3>1. v \notin todo'[h] /\ pos[h] = 1
      BY <1>4, <2>1 DEF EvictEnd, RolesKept, RoleKept, TypeOK
    <3> QED BY <1>4, <3>1, <1>fresh DEF EvictEnd
  <2>2. CASE c # h
    BY <1>4, <2>2, <1>got, <1>str, KeepsStream DEF EvictEnd, Keeps, TypeOK
  <2> QED BY <2>1, <2>2
<1>5. CASE JoinPeer(c)
  <2>1. c # h
    BY <1>5 DEF JoinPeer, ViewerOf
  <2> QED BY <1>5, <2>1, <1>got, <1>str, KeepsStream DEF JoinPeer, Keeps, TypeOK
<1>6. CASE Reject(c)
  <2>1. c # h
    BY <1>6 DEF Reject, ViewerOf
  <2> QED BY <1>6, <2>1, <1>got, <1>str, KeepsStream DEF Reject, StartClose, Keeps, TypeOK
<1>broadcast. ASSUME UNCHANGED <<got, viewers, net>>, pc[h] = "recv", pos[h] > 0,
                     pos'[h] = pos[h] + 1, v \in todo'[h] <=> v \in viewers
              PROVE  NoGap(h, v)' /\ Follows(h, v)'
  <2>1. v \notin todo[h]
    BY <1>broadcast DEF RolesKept, RoleKept
  <2>2. \A i \in PlacesOf(h, v) : IsLast(i, PlacesOf(h, v)) /\ net[v] = "open" =>
            v \in viewers /\ got[v][i][2] = pos[h] - 1
    BY <2>1, <1>broadcast, <1>str DEF Follows
  <2> QED BY <2>2, <1>broadcast, <1>got, <1>pos, <1>str DEF Follows
<1>7. CASE HandleOutput(c)
  <2>1. CASE c = h
    <3>1. /\ UNCHANGED <<got, viewers, net>> /\ pc[h] = "recv" /\ pos[h] > 0
          /\ pos'[h] = pos[h] + 1 /\ todo'[h] = viewers
      BY <1>7, <2>1 DEF HandleOutput, NextFrame, Reads, Enter, TypeOK
    <3> QED BY <3>1, <1>broadcast
  <2>2. CASE c # h
    BY <1>7, <2>2, <1>got, <1>str, KeepsStream DEF HandleOutput, NextFrame, Enter, Keeps, TypeOK
  <2> QED BY <2>1, <2>2
<1>8. CASE HandleInput(c)
  <2>1. c # h
    BY <1>8, <1>roles DEF HandleInput, NextFrame
  <2> QED BY <1>8, <2>1, <1>got, <1>str, KeepsStream DEF HandleInput, NextFrame, Enter, Keeps, TypeOK
<1>9. CASE HandleChat(c)
  <2>1. CASE c = h
    <3>1. /\ UNCHANGED <<got, viewers, net>> /\ pc[h] = "recv" /\ pos[h] > 0
          /\ pos'[h] = pos[h] + 1 /\ todo'[h] = Registered \ {h}
      BY <1>9, <2>1 DEF HandleChat, NextFrame, Reads, Enter, TypeOK
    <3>2. v \in todo'[h] <=> v \in viewers
      BY <3>1, <1>roles DEF Registered
    <3> QED BY <3>1, <3>2, <1>broadcast
  <2>2. CASE c # h
    BY <1>9, <2>2, <1>got, <1>str, KeepsStream DEF HandleChat, NextFrame, Enter, Keeps, TypeOK
  <2> QED BY <2>1, <2>2
<1>10. ASSUME NEW p \in Conn, Send(c, p) PROVE NoGap(h, v)' /\ Follows(h, v)'
  <2>1. CASE c = h /\ p = v
    BY <1>10, <2>1, <1>str, ReceiveStep
  <2>2. CASE c # h \/ p # v
    <3>1. /\ PlacesOf(h, v)' = PlacesOf(h, v)
          /\ \A i \in PlacesOf(h, v) : got'[v][i] = got[v][i]
      BY <1>10, <2>2, OtherSender
    <3>2. UNCHANGED <<viewers, pc, pos, net>> /\ (v \in todo'[h] <=> v \in todo[h])
      BY <1>10, <2>2 DEF Send, Reached, TypeOK
    <3> QED BY <3>1, <3>2, <1>str, KeepsStream DEF Keeps
  <2> QED BY <2>1, <2>2
<1>11. ASSUME NEW p \in Conn, SendFails(c, p) PROVE NoGap(h, v)' /\ Follows(h, v)'
  <2>1. /\ UNCHANGED <<viewers, pc, pos, net, got>>
        /\ net[v] = "open" => (v \in todo'[h] <=> v \in todo[h])
    BY <1>11 DEF SendFails, Reached, TypeOK
  <2> QED BY <2>1, <1>got, <1>str, KeepsStream DEF Keeps
<1>12. CASE EndLoop(c)
  <2>1. /\ UNCHANGED <<pos, net, got>>
        /\ net[v] = "open" /\ v \in viewers => v \in viewers'
    BY <1>12 DEF EndLoop, RemoveFromLoopList, DeadAreGone
  <2>2. v \in todo'[h] <=> v \in todo[h]
    BY <1>12, <1>roles DEF EndLoop, LoopDone, Enter, TypeOK
  <2>3. (pc[h] # "done" /\ pc'[h] # "done") \/ pc'[h] = pc[h]
    BY <1>12 DEF EndLoop, LoopDone, Enter, Forwarding, TypeOK
  <2> QED BY <2>1, <2>2, <2>3, <1>got, <1>str, KeepsStream DEF Keeps
<1>13. CASE RemoveRaises(c) \/ EndOfStream(c) \/ RejectEnd(c)
  <2>1. /\ UNCHANGED <<got, pos>>
        /\ pc' = [pc EXCEPT ![c] = "done"]
        /\ todo' = [todo EXCEPT ![c] = {}]
        /\ net'[v] = "open" => net[v] = "open" /\ (v \in viewers => v \in viewers')
    BY <1>13, EndKeepsViewers
  <2>2. /\ v \in todo'[h] => v \in todo[h]
        /\ pc'[h] # "done" => pc'[h] = pc[h] /\ todo'[h] = todo[h]
    BY <2>1 DEF TypeOK
  <2> QED BY <2>1, <2>2, <1>got, <1>str, KeepsStream DEF Keeps
<1>14. CASE Disconnect(c) \/ CloseCompletes(c)
  <2>1. UNCHANGED <<viewers, pc, pos, todo, got>> /\ (net'[v] = "open" => net[v] = "open")
    BY <1>14 DEF Disconnect, CloseCompletes, TypeOK
  <2> QED BY <2>1, <1>got, <1>str, KeepsStream DEF Keeps
<1> QED BY <1>2, <1>3, <1>4, <1>5, <1>6, <1>7, <1>8, <1>9, <1>10, <1>11, <1>12,
           <1>13, <1>14 DEF Handle

(* Initially nothing has been sent.                                        *)
LEMMA InitSInv == Init => SInv
<1> SUFFICES ASSUME Init PROVE SInv
  OBVIOUS
<1>1. RolesKept /\ DeadAreGone
  BY DEF Init, RolesKept, RoleKept, DeadAreGone, Forwarding
<1>2. ASSUME NEW h \in Conn, NEW v \in Conn PROVE PlacesOf(h, v) = {} /\ v \notin todo[h]
  BY DEF Init, PlacesOf
<1>3. Streams
  BY <1>2 DEF Streams, NoGap, Follows
<1> QED BY <1>1, <1>3 DEF SInv

(* What a viewer has got of a host is the host's stream without a gap, a   *)
(* repetition or a reordering, and up to date whenever the relay waits for *)
(* the host's next frame.                                                  *)
THEOREM StreamsReachViewers == Spec => []StreamIsContiguous
<1>1. SInv => StreamIsContiguous
  BY DEF SInv, RolesKept, RoleKept, Streams, ViewerOf, NoGap, Follows, StreamIsContiguous
<1>2. IInv /\ SInv /\ [Next]_vars => SInv'
  BY RolesStep, StreamStep DEF SInv
<1> QED BY <1>1, <1>2, InitSInv, Invariance, PTL DEF Spec
=============================================================================
