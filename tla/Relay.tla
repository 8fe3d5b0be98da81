-------------------------------- MODULE Relay --------------------------------
(***************************************************************************)
(* What the byte relay between a client and an upstream promises, without  *)
(* saying how: bytes of a direction are forwarded in order while the relay *)
(* is open or ending, they are delivered in order and none is invented, a  *)
(* suffix may be lost, and a relay that begins to end comes to an end.     *)
(* Pipe implements it.                                                     *)
(***************************************************************************)
EXTENDS Naturals, Sequences

Conns == {"client", "upstream"}
Dirs  == {"toUpstream", "toClient"}

VARIABLES
    sent,     \* [Dirs -> Nat]: how many bytes the source has produced
    fwd,      \* [Dirs -> Nat]: how many of them the relay has passed on
    got,      \* [Dirs -> Seq(bytes)]: what the destination has received
    phase     \* "open", then "ending", then "over"

vars == <<sent, fwd, got, phase>>

\* The i-th byte that the source of direction d produces.
Byte(d, i) == <<d, i>>

Init ==
    /\ sent \in [Dirs -> Nat]
    /\ fwd = [d \in Dirs |-> 0]
    /\ got = [d \in Dirs |-> <<>>]
    /\ phase = "open"

Produce(d) ==
    /\ sent' = [sent EXCEPT ![d] = @ + 1]
    /\ UNCHANGED <<fwd, got, phase>>

Forward(d) ==
    /\ phase # "over"
    /\ fwd[d] < sent[d]
    /\ fwd' = [fwd EXCEPT ![d] = @ + 1]
    /\ UNCHANGED <<sent, got, phase>>

Deliver(d) ==
    /\ Len(got[d]) < fwd[d]
    /\ got' = [got EXCEPT ![d] = Append(@, Byte(d, Len(@) + 1))]
    /\ UNCHANGED <<sent, fwd, phase>>

BeginEnd ==
    /\ phase = "open"
    /\ phase' = "ending"
    /\ UNCHANGED <<sent, fwd, got>>

Finish ==
    /\ phase = "ending"
    /\ phase' = "over"
    /\ UNCHANGED <<sent, fwd, got>>

Next ==
    \/ \E d \in Dirs : Produce(d) \/ Forward(d) \/ Deliver(d)
    \/ BeginEnd
    \/ Finish

SafeSpec == Init /\ [][Next]_vars

Spec == SafeSpec /\ (phase = "ending" ~> phase = "over")
=============================================================================
