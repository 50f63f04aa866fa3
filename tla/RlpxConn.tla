------------------------------ MODULE RlpxConn ------------------------------
(***************************************************************************)
(* A connection from the dial to its last message: the handshake of        *)
(* RlpxHandshake, and then the direction of RlpxStream that is used first, *)
(* from the buyer that dialled to the seller that listens.  Each end goes  *)
(* on to its messages when its own Handshake has returned (connection.go), *)
(* and the listening end is done first: it waits for messages while the    *)
(* dialling end still waits for the last packet of the handshake, or has   *)
(* failed on it.  Faults of both phases count together.                    *)
(***************************************************************************)
EXTENDS RlpxStream

CONSTANTS Keys, Pads    \* of RlpxHandshake

ASSUME PadAssumption == Pads \subseteq 100..299 /\ Pads # {}

VARIABLES
    key, pc, known,
    hwire               \* the packets of the handshake

Conn == "conn"
handshake == <<key, pc, known, hwire>>
stream == <<sent, whole, w, wire, r, got>>
connVars == <<vars, handshake>>

Handshake == INSTANCE RlpxHandshake WITH wire <- hwire, Conns <- {Conn}

\* Connection.Handshake has returned without an error: buyNewConn at the dialling end,
\* AliceNewConn at the listening end.
BuyerReady == pc[Conn]["dial"] = "done"
SellerReady == pc[Conn]["listen"] = "done"

\* Mutant of Abandoned: the seller waits for its buyer.
AbandonedNever == FALSE /\ UNCHANGED connVars

\* The buyer's handshake has failed: the seller's read runs into its deadline.
Abandoned ==
    /\ SellerReady /\ pc[Conn]["dial"] = "failed"
    /\ r.pc # "failed"
    /\ ReadFailed
    /\ UNCHANGED <<sent, whole, w, wire, faults, handshake>>

ConnInit == Init /\ Handshake!Init

Shake == Handshake!Step(Conn) /\ UNCHANGED stream
ReadOn == SellerReady /\ Read /\ UNCHANGED handshake
GiveUp == SellerReady /\ ReadDeadline /\ UNCHANGED handshake

ConnNext ==
    \/ Handshake!Next /\ UNCHANGED stream
    \/ BuyerReady /\ Writes /\ UNCHANGED handshake
    \/ SellerReady /\ Reads /\ UNCHANGED handshake
    \/ Damage /\ UNCHANGED handshake
    \/ Abandoned

\* The ends are goroutines that go on when they can; their deadlines pass when they
\* cannot.
ConnSpec ==
    /\ ConnInit /\ [][ConnNext]_connVars
    /\ WF_connVars(Shake) /\ WF_connVars(ReadOn) /\ WF_connVars(GiveUp) /\ WF_connVars(Abandoned)

-----------------------------------------------------------------------------
\* A handshake that succeeds ends at the node the buyer was told of, whichever node
\* answers at the TCP address and whatever happens to the messages; and the seller
\* knows the buyer's key.
PeerIsDialled == Handshake!PeerIsDialled

\* Frames are read only over secrets that mirror each other, and only by the node
\* that was dialled: what is received was authenticated the way it is checked.
HeardIsDialled ==
    r.part = "payload" \/ got # << >> \/ r.pc = "data" =>
        LET d == known[Conn]["dial"].sec
            l == known[Conn]["listen"].sec
        IN  /\ d.aes = l.aes /\ d.egress = l.ingress /\ d.ingress = l.egress
            /\ key[Conn].listen = key[Conn].want

\* With the right node and nothing in the way the handshake does not fail, whatever
\* the padding of the packets.
NoSpuriousRefusal == Handshake!NoSpuriousFailure

\* Both handshakes come to an end, and a seller whose buyer has failed in the last
\* packet of the handshake does not wait for its messages for ever.
Ends == Handshake!Ends /\ (pc[Conn]["dial"] = "failed" ~> pc[Conn]["listen"] = "failed" \/ r.pc = "failed")

\* A message that was written to the end is received or the seller's end fails; and when
\* a Write fails, with a part of a message or of a frame on its way, the seller does not
\* wait for the rest for ever: its Read fails too.
Arrives ==
    /\ \A n \in 1..MaxMsgs : (whole >= n) ~> (Len(got) >= n \/ r.pc = "failed")
    /\ (w.pc = "failed") ~> (r.pc = "failed")
=============================================================================
