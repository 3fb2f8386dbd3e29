--------------------------- MODULE MCRelayHandler ---------------------------
(* Instances of RelayHandler for TLC: up to three host connections (the     *)
(* second and third are reconnections), two viewers and an agent.           *)
EXTENDS RelayHandler, TLC

CONSTANTS h1, h2, h3, v1, v2, a1, t1, t2

HostConns == {h1, h2, h3}
ViewerConns == {v1, v2}

MCRoleOf == [c \in Conn |-> IF c \in HostConns THEN "host"
                            ELSE IF c \in ViewerConns THEN "viewer" ELSE "agent"]

(* Everybody has the password of the session.                              *)
OneToken == [c \in Conn |-> t1]
(* The host restarts with another password; the viewers have the first one.*)
NewToken == [c \in Conn |-> IF c = h2 THEN t2 ELSE t1]

(* The first host streams, its successor once.                             *)
Streaming == [c \in Conn |->
    CASE c = h1 -> <<"terminal_output", "terminal_output">>
      [] c = h2 -> <<"terminal_output">>
      [] OTHER -> <<>>]
Viewers == Permutations(ViewerConns)

(* Every kind of frame once.                                               *)
Everything == [c \in Conn |->
    CASE c = h1 -> <<"terminal_output">>
      [] c = v1 -> <<"terminal_input", "chat">>
      [] c = a1 -> <<"terminal_input", "suggest", "chat">>
      [] OTHER -> <<>>]

Silent == [c \in Conn |-> <<>>]

(* The states in which everybody has left and every coroutine has ended    *)
(* are the only ones in which the relay may stop.                          *)
Finished == \A c \in Conn : pc[c] = "done" /\ net[c] = "closed"
MCNext == Next \/ (Finished /\ UNCHANGED vars)
MCSpec == Init /\ [][MCNext]_vars
MCFairSpec == MCSpec /\ Fairness
=============================================================================
