------------------------------- MODULE PodNet -------------------------------
(***************************************************************************)
(* One trading connection between a seller (Alice) and a buyer (Bob).      *)
(*                                                                         *)
(* Each end owns a Node (net/node.go): a connection and a protocol state   *)
(* that every method checks before, and advances after, it sends or        *)
(* receives one message (net/session.go, net/tx.go).  Each end is driven   *)
(* by its program in connection.go: Alice by AliceAcceptTx, Bob by         *)
(* BobPurchaseDataAPIHandler.  pc[r] names the Node method that r's        *)
(* program calls next; an action is that call with everything the program  *)
(* does with its result.  What the programs do on the chain once the       *)
(* receipt is exchanged belongs to module PodTrade; here both are "done".  *)
(*                                                                         *)
(* The connection is a pair of FIFO streams.  It may break, any step may   *)
(* fail locally or time out (Fail), and MaxFaults bounds how often.        *)
(***************************************************************************)
EXTENDS PodModes, Naturals, Sequences

CONSTANTS
    SessNums,      \* numbers newSessID may draw (0 <= n < 10^10)
    Offers,        \* what Alice may have published under the Merkle root
    Wants,         \* requests Bob's user may make
    MaxFaults      \* bound on broken connections and local failures

ASSUME SessNumsAssumption == SessNums \subseteq Nat
ASSUME OffersAssumption == Offers \subseteq Offer
ASSUME WantsAssumption == Wants \subseteq Request
ASSUME MaxFaultsAssumption == MaxFaults \in Nat

VARIABLES
    pc,         \* pc[r]: the next call of r's program
    state,      \* state[r]: Node.state
    session,    \* session[r]: Node.session
    open,       \* open[r]: r has not closed its end of the connection
    params,     \* params[r]: AliceConnParam / BobConnParam
    ack,        \* the ack BobCreateSess received
    outcome,    \* outcome[r]: how r's program left the connection
    inbox,      \* inbox[r]: messages on their way to r
    link,       \* "up" or "down"
    faults,     \* faults injected so far
    offer, want \* the published offer and the user's request

vars == <<pc, state, session, open, params, ack, outcome, inbox, link, faults, offer, want>>

-----------------------------------------------------------------------------
Roles == {"Alice", "Bob"}
Peer(r) == IF r = "Alice" THEN "Bob" ELSE "Alice"

\* net/state.go
NodeStates ==
    {"Connected", "Closed", "SessionAckWait", "SessionReqRecvd", "SessionAckRecvd",
     "SessionEstablished", "NegoAckReqWait", "NegoAckReqRecvd", "NegoRequestRecvd",
     "NegoAckWait", "Negotiated", "TxResponseWait", "TxRequestRecvd", "TxReceiptWait",
     "TxResponseRecvd", "TxSecretWait", "TxReceiptRecvd"}

AliceCalls == {"RecvSessionRequest", "SendSessionAck", "RecvSessionAck",
               "RecvNegoRequest", "SendNegoAckReq", "RecvNegoAck",
               "RecvTxRequest", "SendTxResponse", "RecvTxReceipt", "done", "ended"}
BobCalls == {"SendNewSessionRequest", "RecvSessionAck", "SendSessionAck", "mkdir",
             "SendNegoRequest", "RecvNegoAckReq", "SendNegoAck",
             "SendTxRequest", "RecvTxResponse", "SendTxReceipt", "done", "ended"}

\* The calls made inside preBobConn.
BobSessionCalls == {"SendNewSessionRequest", "RecvSessionAck", "SendSessionAck", "mkdir"}

TxTypes == {"NegoRequest", "NegoAckReq", "NegoAck", "TxRequest", "TxResponse", "TxReceipt"}

\* A session request or ack; of the extra information only the request's is read.
SessionRequestMsg(re) == [typ |-> "SessionRequest", id |-> 0, mode |-> 0, extra |-> re]
SessionAckMsg(id, mode) == [typ |-> "SessionAck", id |-> id, mode |-> mode]
TxMsg(typ) == [typ |-> typ]

\* Calls that wait for a message, and calls that send one.
RecvCalls == {"RecvSessionRequest", "RecvSessionAck", "RecvNegoRequest", "RecvNegoAck",
              "RecvTxRequest", "RecvTxReceipt", "RecvNegoAckReq", "RecvTxResponse"}
SendCalls == {"SendNewSessionRequest", "SendSessionAck", "SendNegoRequest", "SendNegoAckReq",
              "SendNegoAck", "SendTxRequest", "SendTxResponse", "SendTxReceipt"}

\* newSessID's number is written in decimal; preAliceConn reads the digits as
\* hexadecimal, and BobCreateSess prints the number it receives with %x.  A
\* string of decimal digits is represented by the number it denotes in base 10.
ParseHex[n \in Nat] == IF n < 10 THEN n ELSE 16 * ParseHex[n \div 10] + (n % 10)
PrintHex[n \in Nat] == IF n < 16 THEN n ELSE 10 * PrintHex[n \div 16] + (n % 16)

NoParams == [mode |-> "", subMode |-> "", ot |-> FALSE, sess |-> 0, price |-> 0]

\* AliceConnParam, from the offer, the request and the session number.
AliceParams(o, re, n) ==
    LET p == preAliceTx(o, re)
    IN  [mode |-> p.mode, subMode |-> p.subMode, ot |-> p.ot, sess |-> n, price |-> re.price]

\* BobConnParam after BobCreateSess: what the ack says, and Bob's own price.
BobParams(m, re) ==
    LET p == modeFromInt(m.mode)
    IN  [mode |-> p.mode, subMode |-> p.subMode, ot |-> p.ot,
         sess |-> PrintHex[m.id], price |-> re.price]

-----------------------------------------------------------------------------
Init ==
    /\ pc = [r \in Roles |-> IF r = "Alice" THEN "RecvSessionRequest" ELSE "SendNewSessionRequest"]
    /\ state = [r \in Roles |-> "Connected"]
    /\ session = [r \in Roles |-> [id |-> 0, mode |-> 0]]
    /\ open = [r \in Roles |-> TRUE]
    /\ params = [r \in Roles |-> NoParams]
    /\ ack = [id |-> 0, mode |-> 0]
    /\ outcome = [r \in Roles |-> "running"]
    /\ inbox = [r \in Roles |-> << >>]
    /\ link = "up"
    /\ faults = 0
    /\ offer \in Offers
    /\ want \in Wants

\* The program returns before the trade is over.  Alice's goroutine closes node
\* and connection whatever happens, Bob's handler defers that only once
\* preBobConn has succeeded: a failure inside it leaves both as they are.
Abort(r, why) ==
    LET closes == r = "Alice" \/ pc[r] \notin BobSessionCalls
    IN  /\ pc' = [pc EXCEPT ![r] = "ended"]
        /\ outcome' = [outcome EXCEPT ![r] = why]
        /\ state' = IF closes THEN [state EXCEPT ![r] = "Closed"] ELSE state
        /\ open' = IF closes THEN [open EXCEPT ![r] = FALSE] ELSE open

Goto(r, call) ==
    /\ pc' = [pc EXCEPT ![r] = call]
    /\ UNCHANGED <<outcome, open>>

SetState(r, s) == state' = [state EXCEPT ![r] = s]

\* Node.sendMsg: what is written to a dead connection, or to one the peer has
\* closed, is lost.
sendMsg(r, m) ==
    inbox' = IF link = "up" /\ open[Peer(r)]
             THEN [inbox EXCEPT ![Peer(r)] = Append(@, m)]
             ELSE inbox

\* Node.recvMsgHeader and recvMsgPayload: the next message, whatever its type.
recvMsg(r) ==
    /\ inbox[r] # << >>
    /\ inbox' = [inbox EXCEPT ![r] = Tail(@)]

\* The session calls check the state before they read.
recvSessMsg(r, preState) == IF state[r] = preState THEN recvMsg(r) ELSE UNCHANGED inbox

sendTxMsg(r, typ, preState, postState, next) ==
    IF state[r] # preState
    THEN Abort(r, "state") /\ UNCHANGED inbox
    ELSE sendMsg(r, TxMsg(typ)) /\ SetState(r, postState) /\ Goto(r, next)

recvTxMsg(r, typ, preState, postState, next) ==
    IF state[r] # preState
    THEN Abort(r, "state") /\ UNCHANGED inbox
    ELSE /\ recvMsg(r)
         /\ IF Head(inbox[r]).typ # typ
            THEN Abort(r, "type")
            ELSE SetState(r, postState) /\ Goto(r, next)

\* The negotiation calls are refused outside the OT modes.
negoMsg(r, A) ==
    IF isOTMode(session[r].mode) THEN A ELSE Abort(r, "mode") /\ UNCHANGED inbox

\* Mutant of requestPreState: the negotiated state of the OT modes is forgotten.
requestPreStateNoOT(r) == "SessionEstablished"

\* The state SendTxRequest and RecvTxRequest start from.
requestPreState(r) == IF isOTMode(session[r].mode) THEN "Negotiated" ELSE "SessionEstablished"

\* Frame of the calls that run inside a transaction program.
TxFrame == UNCHANGED <<session, params, ack, link, faults, offer, want>>
-----------------------------------------------------------------------------
(***************************************************************************)
(* The session handshake: request, ack, ack (net/session.go, driven by     *)
(* preBobConn / BobCreateSess and preAliceTxAndConn / preAliceConn).       *)
(***************************************************************************)
SendNewSessionRequest ==
    /\ pc["Bob"] = "SendNewSessionRequest"
    /\ IF state["Bob"] # "Connected"
       THEN Abort("Bob", "state") /\ UNCHANGED inbox
       ELSE /\ sendMsg("Bob", SessionRequestMsg(want))
            /\ SetState("Bob", "SessionAckWait")
            /\ Goto("Bob", "RecvSessionAck")
    /\ UNCHANGED <<session, params, ack, link, faults, offer, want>>

\* AliceRcvSessReq, then preAliceTx on what the request asks for.
RecvSessionRequest ==
    LET m == Head(inbox["Alice"])
    IN  /\ pc["Alice"] = "RecvSessionRequest"
        /\ recvSessMsg("Alice", "Connected")
        /\ IF state["Alice"] # "Connected"
           THEN Abort("Alice", "state") /\ UNCHANGED params
           ELSE IF m.typ # "SessionRequest"
           THEN Abort("Alice", "type") /\ UNCHANGED params
           ELSE IF m.id # 0 \/ m.mode >= modeMax
           THEN Abort("Alice", "id") /\ UNCHANGED params
           ELSE IF ~Acceptable(offer, m.extra)
           THEN Abort("Alice", "refused") /\ UNCHANGED params
           ELSE /\ \E n \in SessNums :
                      params' = [params EXCEPT !["Alice"] = AliceParams(offer, m.extra, n)]
                /\ SetState("Alice", "SessionReqRecvd")
                /\ Goto("Alice", "SendSessionAck")
        /\ UNCHANGED <<session, ack, link, faults, offer, want>>

\* Mutant of AliceSendSessionAck: the error of modeToInt is not looked at.
AliceSendSessionAckUnchecked ==
    /\ pc["Alice"] = "SendSessionAck"
    /\ sendMsg("Alice", SessionAckMsg(ParseHex[params["Alice"].sess], modeToInt(params["Alice"])))
    /\ SetState("Alice", "SessionAckWait")
    /\ Goto("Alice", "RecvSessionAck")
    /\ UNCHANGED <<session, params, ack, link, faults, offer, want>>

\* preAliceConn up to SendSessionAck(.., true).
AliceSendSessionAck ==
    LET netMode == modeToInt(params["Alice"])
    IN  /\ pc["Alice"] = "SendSessionAck"
        /\ IF netMode = modeMax
           THEN Abort("Alice", "refused") /\ UNCHANGED inbox
           ELSE IF state["Alice"] # "SessionReqRecvd"
           THEN Abort("Alice", "state") /\ UNCHANGED inbox
           ELSE /\ sendMsg("Alice", SessionAckMsg(ParseHex[params["Alice"].sess], netMode))
                /\ SetState("Alice", "SessionAckWait")
                /\ Goto("Alice", "RecvSessionAck")
        /\ UNCHANGED <<session, params, ack, link, faults, offer, want>>

\* BobCreateSess: RecvSessionAck(true), then modeFromInt on the acked mode.
BobRecvSessionAck ==
    LET m == Head(inbox["Bob"])
    IN  /\ pc["Bob"] = "RecvSessionAck"
        /\ recvSessMsg("Bob", "SessionAckWait")
        /\ IF state["Bob"] # "SessionAckWait"
           THEN Abort("Bob", "state") /\ UNCHANGED <<params, ack>>
           ELSE IF m.typ # "SessionAck"
           THEN Abort("Bob", "type") /\ UNCHANGED <<params, ack>>
           ELSE IF m.id = 0
           THEN Abort("Bob", "zeroID") /\ UNCHANGED <<params, ack>>
           ELSE IF m.mode \notin NetModes
           THEN Abort("Bob", "mode") /\ UNCHANGED <<params, ack>>
           ELSE /\ params' = [params EXCEPT !["Bob"] = BobParams(m, want)]
                /\ ack' = [id |-> m.id, mode |-> m.mode]
                /\ SetState("Bob", "SessionAckRecvd")
                /\ Goto("Bob", "SendSessionAck")
        /\ UNCHANGED <<session, link, faults, offer, want>>

\* Mutant of BobSendSessionAck: the session is not kept in the Node.
BobSendSessionAckNotKept ==
    /\ pc["Bob"] = "SendSessionAck"
    /\ sendMsg("Bob", SessionAckMsg(ack.id, ack.mode))
    /\ SetState("Bob", "SessionEstablished")
    /\ Goto("Bob", "mkdir")
    /\ UNCHANGED <<session, params, ack, link, faults, offer, want>>

\* BobCreateSess: SendSessionAck(.., false) echoes the ack.
BobSendSessionAck ==
    /\ pc["Bob"] = "SendSessionAck"
    /\ IF state["Bob"] # "SessionAckRecvd"
       THEN Abort("Bob", "state") /\ UNCHANGED <<inbox, session>>
       ELSE /\ sendMsg("Bob", SessionAckMsg(ack.id, ack.mode))
            /\ session' = [session EXCEPT !["Bob"] = ack]
            /\ SetState("Bob", "SessionEstablished")
            /\ Goto("Bob", "mkdir")
    /\ UNCHANGED <<params, ack, link, faults, offer, want>>

\* preAliceConn: RecvSessionAck(false), then the check of the acked number.
\* AliceAcceptTx goes on with the program of the agreed mode.
AliceRecvSessionAck ==
    LET m == Head(inbox["Alice"])
    IN  /\ pc["Alice"] = "RecvSessionAck"
        /\ recvSessMsg("Alice", "SessionAckWait")
        /\ IF state["Alice"] # "SessionAckWait"
           THEN Abort("Alice", "state") /\ UNCHANGED session
           ELSE IF m.typ # "SessionAck"
           THEN Abort("Alice", "type") /\ UNCHANGED session
           ELSE IF m.id = 0
           THEN Abort("Alice", "zeroID") /\ UNCHANGED session
           ELSE /\ session' = [session EXCEPT !["Alice"] = [id |-> m.id, mode |-> m.mode]]
                /\ IF m.id # ParseHex[params["Alice"].sess]
                   THEN Abort("Alice", "id")
                   ELSE /\ SetState("Alice", "SessionEstablished")
                        /\ Goto("Alice", IF AliceTxFor(params["Alice"]) \in OTPrograms
                                         THEN "RecvNegoRequest" ELSE "RecvTxRequest")
        /\ UNCHANGED <<params, ack, link, faults, offer, want>>

\* The end of preBobConn, and the dispatch of BobPurchaseDataAPIHandler.
BobMkdir ==
    /\ pc["Bob"] = "mkdir"
    /\ Goto("Bob", IF BobTxFor(params["Bob"]) \in OTPrograms
                   THEN "SendNegoRequest" ELSE "SendTxRequest")
    /\ UNCHANGED <<state, inbox>>
    /\ TxFrame

-----------------------------------------------------------------------------
(***************************************************************************)
(* Key negotiation of the OT programs, then request, response and receipt  *)
(* (net/tx.go, called through the Alice.. and Bob.. wrappers of            *)
(* connection.go).                                                         *)
(***************************************************************************)
SendNegoRequest ==
    /\ pc["Bob"] = "SendNegoRequest"
    /\ negoMsg("Bob", sendTxMsg("Bob", "NegoRequest", "SessionEstablished",
                                "NegoAckReqWait", "RecvNegoAckReq"))
    /\ TxFrame

RecvNegoRequest ==
    /\ pc["Alice"] = "RecvNegoRequest"
    /\ negoMsg("Alice", recvTxMsg("Alice", "NegoRequest", "SessionEstablished",
                                  "NegoRequestRecvd", "SendNegoAckReq"))
    /\ TxFrame

SendNegoAckReq ==
    /\ pc["Alice"] = "SendNegoAckReq"
    /\ negoMsg("Alice", sendTxMsg("Alice", "NegoAckReq", "NegoRequestRecvd",
                                  "NegoAckWait", "RecvNegoAck"))
    /\ TxFrame

RecvNegoAckReq ==
    /\ pc["Bob"] = "RecvNegoAckReq"
    /\ negoMsg("Bob", recvTxMsg("Bob", "NegoAckReq", "NegoAckReqWait",
                                "NegoAckReqRecvd", "SendNegoAck"))
    /\ TxFrame

SendNegoAck ==
    /\ pc["Bob"] = "SendNegoAck"
    /\ negoMsg("Bob", sendTxMsg("Bob", "NegoAck", "NegoAckReqRecvd",
                                "Negotiated", "SendTxRequest"))
    /\ TxFrame

RecvNegoAck ==
    /\ pc["Alice"] = "RecvNegoAck"
    /\ negoMsg("Alice", recvTxMsg("Alice", "NegoAck", "NegoAckWait",
                                  "Negotiated", "RecvTxRequest"))
    /\ TxFrame

SendTxRequest ==
    /\ pc["Bob"] = "SendTxRequest"
    /\ sendTxMsg("Bob", "TxRequest", requestPreState("Bob"), "TxResponseWait", "RecvTxResponse")
    /\ TxFrame

RecvTxRequest ==
    /\ pc["Alice"] = "RecvTxRequest"
    /\ recvTxMsg("Alice", "TxRequest", requestPreState("Alice"), "TxRequestRecvd", "SendTxResponse")
    /\ TxFrame

SendTxResponse ==
    /\ pc["Alice"] = "SendTxResponse"
    /\ sendTxMsg("Alice", "TxResponse", "TxRequestRecvd", "TxReceiptWait", "RecvTxReceipt")
    /\ TxFrame

RecvTxResponse ==
    /\ pc["Bob"] = "RecvTxResponse"
    /\ recvTxMsg("Bob", "TxResponse", "TxResponseWait", "TxResponseRecvd", "SendTxReceipt")
    /\ TxFrame

SendTxReceipt ==
    /\ pc["Bob"] = "SendTxReceipt"
    /\ sendTxMsg("Bob", "TxReceipt", "TxResponseRecvd", "TxSecretWait", "done")
    /\ TxFrame

RecvTxReceipt ==
    /\ pc["Alice"] = "RecvTxReceipt"
    /\ recvTxMsg("Alice", "TxReceipt", "TxReceiptWait", "TxReceiptRecvd", "done")
    /\ TxFrame

-----------------------------------------------------------------------------
\* The deferred Close calls once the program has finished with the connection.
Close(r) ==
    /\ pc[r] = "done"
    /\ Abort(r, "ok")
    /\ UNCHANGED inbox
    /\ TxFrame

\* Mutant of PeerGone: reads and writes carry no deadline.
PeerGoneNoDeadline(r) ==
    /\ pc[r] \in RecvCalls => inbox[r] = << >>
    /\ pc[r] \in RecvCalls \cup SendCalls
    /\ link = "down" \/ ~open[Peer(r)]
    /\ Abort(r, "gone")
    /\ UNCHANGED inbox
    /\ TxFrame

\* Nothing will come from, or get to, the peer: the read or the write fails, or
\* its deadline passes (frameReadTimeout, frameWriteTimeout of p2p/server.go).
PeerGone(r) ==
    /\ pc[r] \in RecvCalls => inbox[r] = << >>
    /\ pc[r] \in RecvCalls \cup SendCalls
    /\ link = "down" \/ ~open[Peer(r)] \/ pc[Peer(r)] = "ended"
    /\ Abort(r, "gone")
    /\ UNCHANGED inbox
    /\ TxFrame

\* A step of the program fails on r's side: file, library or validation error,
\* or a deadline that passes while the peer is still at work.
Fail(r) ==
    /\ faults < MaxFaults
    /\ pc[r] # "ended"
    /\ Abort(r, "failed")
    /\ faults' = faults + 1
    /\ UNCHANGED <<session, params, ack, inbox, link, offer, want>>

\* The connection breaks; what is in flight is lost.
Break ==
    /\ faults < MaxFaults
    /\ link = "up"
    /\ link' = "down"
    /\ inbox' = [r \in Roles |-> << >>]
    /\ faults' = faults + 1
    /\ UNCHANGED <<pc, state, session, open, params, ack, outcome, offer, want>>

AliceStep ==
    \/ RecvSessionRequest \/ AliceSendSessionAck \/ AliceRecvSessionAck
    \/ RecvNegoRequest \/ SendNegoAckReq \/ RecvNegoAck
    \/ RecvTxRequest \/ SendTxResponse \/ RecvTxReceipt
    \/ Close("Alice") \/ PeerGone("Alice")

BobStep ==
    \/ SendNewSessionRequest \/ BobRecvSessionAck \/ BobSendSessionAck \/ BobMkdir
    \/ SendNegoRequest \/ RecvNegoAckReq \/ SendNegoAck
    \/ SendTxRequest \/ RecvTxResponse \/ SendTxReceipt
    \/ Close("Bob") \/ PeerGone("Bob")

Next ==
    \/ AliceStep
    \/ BobStep
    \/ \E r \in Roles : Fail(r)
    \/ Break

\* Both programs run to their end: every read and write carries a deadline.
Fairness == WF_vars(AliceStep) /\ WF_vars(BobStep)

Spec == Init /\ [][Next]_vars /\ Fairness
-----------------------------------------------------------------------------
\* Session numbers as they are sent, and as Bob prints them.
SessIDs == {ParseHex[n] : n \in SessNums} \cup {0}
SessNames == SessNums \cup {PrintHex[i] : i \in SessIDs}

Msgs == [typ : {"SessionRequest"}, id : {0}, mode : {0}, extra : Wants]
            \cup [typ : {"SessionAck"}, id : SessIDs, mode : NetModes]
            \cup [typ : TxTypes]

TradeParams == [mode : DataModes, subMode : SubModes, ot : BOOLEAN, sess : SessNames, price : Nat]

Outcomes == {"running", "ok", "state", "type", "mode", "id", "zeroID", "refused", "gone", "failed"}

\* Types of the variables.  The numbers on the wire and in Node.session are numbers
\* newSessID drew, and the modes stay below modeMax, the bound RecvSessionRequest
\* checks.
TypeOK ==
    /\ DOMAIN pc = Roles /\ pc["Alice"] \in AliceCalls /\ pc["Bob"] \in BobCalls
    /\ state \in [Roles -> NodeStates]
    /\ session \in [Roles -> [id : SessIDs, mode : NetModes]]
    /\ ack \in [id : SessIDs, mode : NetModes]
    /\ open \in [Roles -> BOOLEAN]
    /\ params \in [Roles -> TradeParams \cup {NoParams}]
    /\ outcome \in [Roles -> Outcomes]
    /\ inbox \in [Roles -> Seq(Msgs)]
    /\ link \in {"up", "down"}
    /\ faults \in 0..MaxFaults
    /\ offer \in Offers /\ want \in Wants

\* Whatever breaks and whoever gives up, neither side ever meets the errors the
\* Node methods reserve for a misused protocol: a call in the wrong state, a
\* message of another type than the one expected, a negotiation call outside the
\* OT modes, a session number other than the one that was offered.
NoProtocolError == \A r \in Roles : outcome[r] \notin {"state", "type", "mode", "id"}

Trading(r) == pc[r] \notin BobSessionCalls \cup {"RecvSessionRequest", "ended"}

\* Two ends that are both past the handshake hold the same session number and
\* mode, and the number is not zero, though Alice only learns that Bob accepted
\* it from his echo and Bob goes on without waiting for her.
SessionAgreement ==
    (Trading("Alice") /\ Trading("Bob")) =>
        /\ session["Alice"] = session["Bob"]
        /\ session["Bob"].id # 0

\* Two ends that trade run the same program, for the same price and in
\* transaction directories of the same name, although Alice keeps the mode as
\* three fields, sends it as one number and the session in decimal digits read
\* as hexadecimal ones, and Bob decodes both (modeToInt, modeFromInt, %x).
SameTrade ==
    (Trading("Alice") /\ Trading("Bob")) =>
        /\ params["Alice"] = params["Bob"]
        /\ AliceTxFor(params["Alice"]) = BobTxFor(params["Bob"])
        /\ AliceTxFor(params["Alice"]) \in Programs

\* A trade that is refused for what was offered and asked, or for the session
\* number 0, which newSessID may draw and RecvSessionAck rejects.
Refused == \E r \in Roles : outcome[r] \in {"refused", "zeroID"}

\* Without faults and unless it is refused, every trade gets to the signed
\* receipt and both sides close their end.
Completes == [](faults = 0) => <>(Refused \/ outcome = [r \in Roles |-> "ok"])

\* With faults, a side whose peer has vanished does not hang: it always ends.
BothEnd == <>(\A r \in Roles : pc[r] = "ended")
=============================================================================
