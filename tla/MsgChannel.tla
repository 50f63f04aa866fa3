----------------------------- MODULE MsgChannel -----------------------------
(***************************************************************************)
(* What the transport promises to net/node.go in one direction: messages   *)
(* are received whole, once and in the order in which they were sent.      *)
(* Nothing is promised about when, or that they are received at all: the   *)
(* connection may fail.  Module PodNet's streams are this channel.         *)
(***************************************************************************)
EXTENDS Naturals, Sequences

CONSTANT Message

VARIABLES
    sent,   \* the messages that were sent
    got     \* the messages that were received

chan == <<sent, got>>

Init == sent = << >> /\ got = << >>

Send == /\ \E m \in Message : sent' = Append(sent, m)
        /\ UNCHANGED got

Receive == /\ Len(got) < Len(sent)
           /\ got' = Append(got, sent[Len(got) + 1])
           /\ UNCHANGED sent

Next == Send \/ Receive

Spec == Init /\ [][Next]_chan
=============================================================================
