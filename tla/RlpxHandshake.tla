---------------------------- MODULE RlpxHandshake ----------------------------
(***************************************************************************)
(* Connection.Handshake of net/rlpx/transport.go: a buyer that dialled a   *)
(* TCP address asks the node there to sign a random message, checks that   *)
(* the signer has the Ethereum address it dialled, and both ends run the   *)
(* encryption handshake of p2p/rlpx.go that derives the secrets of the     *)
(* frames.  Which node answers at a TCP address is up to the network: its  *)
(* key may not be the one the buyer was told.                              *)
(*                                                                         *)
(* Cryptography is symbolic (external): a signature names its signer and   *)
(* what was signed, an encrypted packet names the key that opens it.       *)
(***************************************************************************)
EXTENDS Naturals, Sequences

CONSTANTS
    Conns,        \* connections
    Keys,         \* Ethereum keys; a key also stands for its public key and address
    Pads,         \* lengths of the padding sealEIP8 may draw
    MaxFaults

Sides == {"dial", "listen"}
Peer(s) == IF s = "dial" THEN "listen" ELSE "dial"

VARIABLES
    key,      \* key[c]: of the two ends, and the one the dialler was told
    pc,       \* pc[c][s]: the next step of end s
    known,    \* known[c][s]: what end s has learned
    wire,     \* wire[c][s]: messages on their way to s
    faults

vars == <<key, pc, known, wire, faults>>

Nobody == <<"nobody", "none">>
NoSecrets == [aes |-> << >>, egress |-> << >>, ingress |-> << >>]
Nothing == [random |-> Nobody, remote |-> Nobody, remoteRand |-> Nobody, nonces |-> << >>,
            auth |-> << >>, sec |-> NoSecrets]

\* The random values an end draws on a connection.
Random(c, s) == <<c, s>>

Init ==
    /\ key \in [Conns -> [dial : Keys, listen : Keys, want : Keys]]
    /\ pc = [c \in Conns |-> [s \in Sides |-> IF s = "dial" THEN "sendRequest" ELSE "recvRequest"]]
    /\ known = [c \in Conns |-> [s \in Sides |-> Nothing]]
    /\ wire = [c \in Conns |-> [s \in Sides |-> << >>]]
    /\ faults = 0

Goto(c, s, label) == pc' = [pc EXCEPT ![c][s] = label]
Fail(c, s) == Goto(c, s, "failed") /\ UNCHANGED <<known, wire>>
Ended(c, s) == pc[c][s] \in {"done", "failed"}

\* tcpSend of m to the other end, and tcpRecv of the next message for s.
Put(c, s, m) == wire' = [wire EXCEPT ![c][Peer(s)] = Append(@, m)]
Next1(c, s) == Head(wire[c][s])

Take(c, s) == wire' = [wire EXCEPT ![c][s] = Tail(@)]
TakeAndPut(c, s, m) == wire' = [wire EXCEPT ![c][s] = Tail(@), ![c][Peer(s)] = Append(@, m)]

Sign(k, x) == [by |-> k, of |-> x]
Recover(sig, x) == IF sig.of = x THEN sig.by ELSE Nobody

-----------------------------------------------------------------------------
(***************************************************************************)
(* The pre-authentication.                                                 *)
(***************************************************************************)
preAuthReqSize == 1024
preAuthAckSize == 130

\* decodePreAuthMsg: revision, type and size are checked, the type against no
\* expectation.
Decodes(m, maxSize) == m.rev = 1 /\ m.typ < 2 /\ m.size <= maxSize

sendPreAuthRequest(c) ==
    /\ pc[c]["dial"] = "sendRequest"
    /\ Put(c, "dial", [rev |-> 1, typ |-> 0, size |-> preAuthReqSize, random |-> Random(c, "dial")])
    /\ Goto(c, "dial", "recvAck")
    /\ UNCHANGED <<key, known, faults>>

\* receiverPreAuthHandshake: recvPreAuthRequest, sendPreAuthAck
receiverPreAuthHandshake(c) ==
    /\ pc[c]["listen"] = "recvRequest" /\ wire[c]["listen"] # << >>
    /\ LET m == Next1(c, "listen")
       IN  IF Decodes(m, preAuthReqSize)
           THEN /\ TakeAndPut(c, "listen", [rev |-> 1, typ |-> 1, size |-> preAuthAckSize,
                                            sig |-> Sign(key[c].listen, m.random),
                                            pub |-> key[c].listen])
                /\ Goto(c, "listen", "recvAuth")
                /\ UNCHANGED known
           ELSE Fail(c, "listen")
    /\ UNCHANGED <<key, faults>>

\* Mutant of verifyPreAuthAck: the address that was dialled is not compared.
verifyPreAuthAckSigner(random, want, m) == Recover(m.sig, random) = m.pub

\* The signer is the address that was dialled, and signed what was sent.
verifyPreAuthAck(random, want, m) == m.pub = want /\ Recover(m.sig, random) = m.pub

\* recvPreAuthAck, verifyPreAuthAck
recvPreAuthAck(c) ==
    /\ pc[c]["dial"] = "recvAck" /\ wire[c]["dial"] # << >>
    /\ LET m == Next1(c, "dial")
       IN  IF Decodes(m, preAuthAckSize) /\ verifyPreAuthAck(Random(c, "dial"), key[c].want, m)
           THEN /\ known' = [known EXCEPT ![c]["dial"].remote = m.pub]
                /\ Take(c, "dial")
                /\ Goto(c, "dial", "sendAuth")
           ELSE Fail(c, "dial")
    /\ UNCHANGED <<key, faults>>

-----------------------------------------------------------------------------
(***************************************************************************)
(* The encryption handshake.                                               *)
(***************************************************************************)
\* Bytes of the two messages in RLP, of encryption, and of their plain encodings.
BodyLen == [auth |-> 169, resp |-> 102]
eciesOverhead == 113
PlainLen == [auth |-> 307, resp |-> 210]

\* Mutant of PadLens: any amount of padding.
PadLensAny == Pads \cup {0}

\* sealEIP8 pads with at least 100 bytes, so that the packet is longer than a plain one.
PadLens == Pads

\* An encrypted packet and its length prefix.
sealEIP8(kind, to, body, pad) ==
    [rev |-> 1, kind |-> kind, to |-> to, size |-> BodyLen[kind] + pad + eciesOverhead, body |-> body]

\* readHandshakeMsg: the bytes of a plain packet are read first, then what the prefix
\* says is left, unless it says less; the key must open the packet.
Opens(m, kind, k) == m.rev = 1 /\ m.kind = kind /\ m.size >= PlainLen[kind] /\ m.to = k

\* What the owner of one static key shares with the owner of another.
staticSharedSecret(k1, k2) == {k1, k2}

\* initiatorEncHandshake, up to its packet: makeAuthMsg
makeAuthMsg(c) ==
    /\ pc[c]["dial"] = "sendAuth"
    /\ \E pad \in PadLens :
        LET remote == known[c]["dial"].remote
            nonce  == Random(c, "dial")
            auth   == sealEIP8("auth", remote,
                        [sig   |-> Sign(Random(c, "dial"),
                                        <<staticSharedSecret(key[c].dial, remote), nonce>>),
                         pub   |-> key[c].dial,
                         nonce |-> nonce], pad)
        IN  /\ Put(c, "dial", auth)
            /\ known' = [known EXCEPT ![c]["dial"].nonces = <<nonce>>, ![c]["dial"].auth = <<auth>>]
    /\ Goto(c, "dial", "recvResp")
    /\ UNCHANGED <<key, faults>>

\* Mutant of secrets: both ends use the first MAC for what they send.
secretsOneWay(initiator, rand, remoteRand, initNonce, respNonce, auth, resp) ==
    LET aes  == <<{rand, remoteRand}, respNonce, initNonce>>
    IN  [aes |-> aes, egress |-> <<aes, respNonce, auth>>, ingress |-> <<aes, initNonce, resp>>]

\* encHandshake.secrets
secrets(initiator, rand, remoteRand, initNonce, respNonce, auth, resp) ==
    LET aes  == <<{rand, remoteRand}, respNonce, initNonce>>
        mac1 == <<aes, respNonce, auth>>
        mac2 == <<aes, initNonce, resp>>
    IN  IF initiator THEN [aes |-> aes, egress |-> mac1, ingress |-> mac2]
                     ELSE [aes |-> aes, egress |-> mac2, ingress |-> mac1]

\* receiverEncHandshake: handleAuthMsg takes the dialler's key from the packet and
\* recovers its ephemeral key from the signature, makeAuthResp answers.
receiverEncHandshake(c) ==
    /\ pc[c]["listen"] = "recvAuth" /\ wire[c]["listen"] # << >>
    /\ LET m == Next1(c, "listen")
       IN  IF Opens(m, "auth", key[c].listen)
           THEN \E pad \in PadLens :
                LET rand   == Random(c, "listen")
                    token  == staticSharedSecret(key[c].listen, m.body.pub)
                    rrand  == Recover(m.body.sig, <<token, m.body.nonce>>)
                    resp   == sealEIP8("resp", m.body.pub, [rand |-> rand, nonce |-> rand], pad)
                IN  /\ TakeAndPut(c, "listen", resp)
                    /\ known' = [known EXCEPT
                            ![c]["listen"].remote = m.body.pub,
                            ![c]["listen"].sec = secrets(FALSE, rand, rrand, m.body.nonce, rand, m, resp)]
                    /\ Goto(c, "listen", "done")
           ELSE Fail(c, "listen")
    /\ UNCHANGED <<key, faults>>

\* initiatorEncHandshake, from the answer on: handleAuthResp
handleAuthResp(c) ==
    /\ pc[c]["dial"] = "recvResp" /\ wire[c]["dial"] # << >>
    /\ LET m == Next1(c, "dial")
       IN  IF Opens(m, "resp", key[c].dial)
           THEN /\ known' = [known EXCEPT ![c]["dial"].sec =
                        secrets(TRUE, Random(c, "dial"), m.body.rand, Random(c, "dial"),
                                m.body.nonce, known[c]["dial"].auth[1], m)]
                /\ Take(c, "dial")
                /\ Goto(c, "dial", "done")
           ELSE Fail(c, "dial")
    /\ UNCHANGED <<key, faults>>

-----------------------------------------------------------------------------
\* The steps that wait for a message, each under a deadline.
Waits(label) == label \in {"recvRequest", "recvAck", "recvAuth", "recvResp"}

\* The other end has ended and will not send what is waited for.
Deadline(c, s) ==
    /\ Waits(pc[c][s]) /\ wire[c][s] = << >> /\ Ended(c, Peer(s))
    /\ Fail(c, s)
    /\ UNCHANGED <<key, faults>>

Fault == faults < MaxFaults /\ faults' = faults + 1

\* The deadline passes although the other end is at work.
Timeout(c, s) ==
    /\ Fault
    /\ Waits(pc[c][s])
    /\ Fail(c, s)
    /\ UNCHANGED key

\* The connection breaks.
Break(c) ==
    /\ Fault
    /\ pc' = [pc EXCEPT ![c] = [s \in Sides |-> IF Ended(c, s) THEN @[s] ELSE "failed"]]
    /\ UNCHANGED <<key, known, wire>>

\* A message is damaged on its way: a request is taken for another one, a packet no
\* longer opens.
Damage(c, s) ==
    /\ Fault
    /\ wire[c][s] # << >>
    /\ wire' = [wire EXCEPT ![c][s][1] = IF "random" \in DOMAIN @ THEN [@ EXCEPT !.random = Nobody]
                                         ELSE [@ EXCEPT !.rev = 0]]
    /\ UNCHANGED <<key, pc, known>>

Step(c) ==
    \/ sendPreAuthRequest(c) \/ receiverPreAuthHandshake(c) \/ recvPreAuthAck(c)
    \/ makeAuthMsg(c) \/ receiverEncHandshake(c) \/ handleAuthResp(c)
    \/ \E s \in Sides : Deadline(c, s)

Next == \E c \in Conns : Step(c) \/ Break(c) \/ \E s \in Sides : Timeout(c, s) \/ Damage(c, s)

\* The ends of a connection are goroutines that run when they can; deadlines pass.
Spec == Init /\ [][Next]_vars /\ \A c \in Conns : WF_vars(Step(c))

-----------------------------------------------------------------------------
Labels == {"sendRequest", "recvAck", "sendAuth", "recvResp", "recvRequest", "recvAuth", "done", "failed"}

\* Types of the variables.
TypeOK ==
    /\ key \in [Conns -> [dial : Keys, listen : Keys, want : Keys]]
    /\ pc \in [Conns -> [Sides -> Labels]]
    /\ \A c \in Conns, s \in Sides :
            /\ Len(wire[c][s]) <= 1
            /\ known[c][s].remote \in Keys \cup {Nobody}
    /\ faults \in 0..MaxFaults

\* A handshake that succeeds ends at the node the buyer was told of, whichever node
\* answers at the TCP address and whatever happens to the messages; and the seller
\* knows the buyer's key.
PeerIsDialled ==
    \A c \in Conns :
        /\ pc[c]["dial"] = "done" => known[c]["dial"].remote = key[c].listen /\ key[c].listen = key[c].want
        /\ pc[c]["listen"] = "done" => known[c]["listen"].remote = key[c].dial

\* With the right node and nothing in the way the handshake does not fail, whatever
\* the padding of the packets.
NoSpuriousFailure ==
    \A c \in Conns, s \in Sides :
        pc[c][s] = "failed" => faults > 0 \/ key[c].listen # key[c].want

\* Both ends always come to an end: no goroutine waits for a peer that has given up.
Ends == \A c \in Conns, s \in Sides : <>Ended(c, s)
=============================================================================
