----------------------------- MODULE FifoChannel -----------------------------
(***************************************************************************)
(* What the client's chunk queue promises to main and to the sender's      *)
(* workers: a first-in first-out channel of bounded capacity that can be   *)
(* closed.  An accepted value is delivered at most once and in the order   *)
(* of acceptance; nothing is accepted after the closing, but what was      *)
(* accepted before can still be delivered.                                 *)
(***************************************************************************)
EXTENDS Naturals, Sequences

CONSTANTS Values, Capacity

VARIABLES
    accepted,    \* the values taken in, oldest first
    delivered,   \* the values handed out, oldest first
    closed

channelVars == <<accepted, delivered, closed>>

Init == accepted = <<>> /\ delivered = <<>> /\ closed = FALSE

Accept(v) ==
    /\ ~closed
    /\ Len(accepted) < Len(delivered) + Capacity
    /\ accepted' = Append(accepted, v)
    /\ UNCHANGED <<delivered, closed>>

Deliver ==
    /\ Len(delivered) < Len(accepted)
    /\ delivered' = Append(delivered, accepted[Len(delivered) + 1])
    /\ UNCHANGED <<accepted, closed>>

Close ==
    /\ closed' = TRUE
    /\ UNCHANGED <<accepted, delivered>>

Next == (\E v \in Values : Accept(v)) \/ Deliver \/ Close

Spec == Init /\ [][Next]_channelVars
=============================================================================
