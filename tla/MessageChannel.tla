--------------------------- MODULE MessageChannel ---------------------------
(***************************************************************************)
(* What the sessions rely on a metadata channel for, in one direction:     *)
(* whole messages, in the order they were sent, until an end gives up.     *)
(* Rendezvous uses channels as this module describes them.                 *)
(***************************************************************************)
EXTENDS Naturals, Sequences

CONSTANT Messages
VARIABLES
    sent,  \* messages handed to Channel::send
    got,   \* messages Channel::receive has returned
    up     \* the receiving end is still in use

vars == <<sent, got, up>>

Init == sent = <<>> /\ got = <<>> /\ up = TRUE

Send(m) == sent' = Append(sent, m) /\ UNCHANGED <<got, up>>

Receive ==
    /\ up
    /\ Len(got) < Len(sent)
    /\ got' = Append(got, sent[Len(got) + 1])
    /\ UNCHANGED <<sent, up>>

GiveUp == up /\ up' = FALSE /\ UNCHANGED <<sent, got>>

Next == (\E m \in Messages : Send(m)) \/ Receive \/ GiveUp

Spec == Init /\ [][Next]_vars
=============================================================================
