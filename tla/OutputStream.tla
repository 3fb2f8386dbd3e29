---------------------------- MODULE OutputStream ----------------------------
(* What the sharing of a terminal promises about the host's output: it     *)
(* arrives in the order in which it was produced, each chunk once, up to   *)
(* the point where the stream is cut.  Once it is cut, some of what was on *)
(* its way may still arrive, and nothing new does.                         *)
EXTENDS Naturals, Sequences

CONSTANT Chunk

VARIABLES
    pending,   \* produced and not yet arrived, oldest first
    delivered, \* arrived
    open       \* the stream has not been cut

vars == <<pending, delivered, open>>

Init == pending = <<>> /\ delivered = <<>> /\ open = TRUE

Produce(x) ==
    /\ open
    /\ pending' = Append(pending, x)
    /\ UNCHANGED <<delivered, open>>

Deliver ==
    /\ pending # <<>>
    /\ delivered' = Append(delivered, Head(pending))
    /\ pending' = Tail(pending)
    /\ UNCHANGED open

(* The stream is cut and keeps the n oldest chunks on their way; a cut     *)
(* stream may be cut again.                                                *)
Cut(n) ==
    /\ open' = FALSE
    /\ pending' = SubSeq(pending, 1, n)
    /\ UNCHANGED delivered

Next == \/ \E x \in Chunk : Produce(x)
        \/ Deliver
        \/ \E n \in 0..Len(pending) : Cut(n)

Spec == Init /\ [][Next]_vars
=============================================================================
