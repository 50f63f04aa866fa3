---------------------------- MODULE PodNetProofs ----------------------------
(***************************************************************************)
(* For every offer, request, set of session numbers and number of faults:  *)
(* the two ends of a connection never meet a protocol error, agree on the  *)
(* session and run the same trade.                                         *)
(*                                                                         *)
(* The invariant has a local and a global part.  The local one ties the    *)
(* state of a Node and the messages that may still be waiting for it to    *)
(* the call its program is at; it survives a broken connection and a peer  *)
(* that has given up.  The global one lists the positions of two programs  *)
(* that are both running on a live connection, with exactly the messages   *)
(* between them: it is what makes the next message the expected one.       *)
(***************************************************************************)
EXTENDS PodNet, SequenceTheorems, TLAPS

\* The session number and mode Alice offers, and the messages that carry them.
Num == ParseHex[params["Alice"].sess]
Mode == modeToInt(params["Alice"])
OT == isOTMode(Mode)
Req == SessionRequestMsg(want)
Ack == SessionAckMsg(Num, Mode)

\* The contents an inbox may have, and what sending and receiving make of them.
Empty == << >>
One(m) == <<m>>
Two(m, n) == <<m, n>>
Put(box, m) == Append(box, m)
First(box) == Head(box)
Rest(box) == Tail(box)

\* Alice at a call: the state of her Node and what may wait in her inbox.
AliceAt(call, st, boxes) ==
    pc["Alice"] = call => state["Alice"] = st /\ inbox["Alice"] \in boxes

AliceLocal ==
    /\ AliceAt("RecvSessionRequest", "Connected", {Empty, One(Req)})
    /\ AliceAt("SendSessionAck", "SessionReqRecvd", {Empty})
    /\ AliceAt("RecvSessionAck", "SessionAckWait",
               {Empty, One(Ack), IF OT THEN Two(Ack, TxMsg("NegoRequest"))
                                      ELSE Two(Ack, TxMsg("TxRequest"))})
    /\ AliceAt("RecvNegoRequest", "SessionEstablished", {Empty, One(TxMsg("NegoRequest"))})
    /\ AliceAt("SendNegoAckReq", "NegoRequestRecvd", {Empty})
    /\ AliceAt("RecvNegoAck", "NegoAckWait",
               {Empty, One(TxMsg("NegoAck")), Two(TxMsg("NegoAck"), TxMsg("TxRequest"))})
    /\ AliceAt("RecvTxRequest", IF OT THEN "Negotiated" ELSE "SessionEstablished",
               {Empty, One(TxMsg("TxRequest"))})
    /\ AliceAt("SendTxResponse", "TxRequestRecvd", {Empty})
    /\ AliceAt("RecvTxReceipt", "TxReceiptWait", {Empty, One(TxMsg("TxReceipt"))})
    /\ pc["Alice"] # "ended" => open["Alice"]

BobAt(call, st, boxes) ==
    pc["Bob"] = call => state["Bob"] = st /\ inbox["Bob"] \in boxes

BobLocal ==
    /\ BobAt("SendNewSessionRequest", "Connected", {Empty})
    /\ BobAt("RecvSessionAck", "SessionAckWait", IF inbox["Bob"] = Empty THEN {Empty} ELSE {One(Ack)})
    /\ BobAt("SendSessionAck", "SessionAckRecvd", {Empty})
    /\ BobAt("mkdir", "SessionEstablished", {Empty})
    /\ BobAt("SendNegoRequest", "SessionEstablished", {Empty})
    /\ BobAt("RecvNegoAckReq", "NegoAckReqWait", {Empty, One(TxMsg("NegoAckReq"))})
    /\ BobAt("SendNegoAck", "NegoAckReqRecvd", {Empty})
    /\ BobAt("SendTxRequest", IF OT THEN "Negotiated" ELSE "SessionEstablished", {Empty})
    /\ BobAt("RecvTxResponse", "TxResponseWait", {Empty, One(TxMsg("TxResponse"))})
    /\ BobAt("SendTxReceipt", "TxResponseRecvd", {Empty})
    /\ pc["Bob"] # "ended" => open["Bob"]

\* What Alice knows: the parameters she chose, and the session once Bob echoed it.
Chosen ==
    /\ Acceptable(offer, want)
    /\ \E n \in SessNums : params["Alice"] = AliceParams(offer, want, n)

AliceData ==
    /\ pc["Alice"] \notin {"RecvSessionRequest", "ended"} => Chosen
    /\ pc["Alice"] \notin {"RecvSessionRequest", "SendSessionAck", "ended"} => Mode \in NetModes
    /\ pc["Alice"] \notin {"RecvSessionRequest", "SendSessionAck", "RecvSessionAck", "ended"} =>
            session["Alice"] = [id |-> Num, mode |-> Mode] /\ Num # 0
    /\ pc["Alice"] \in {"RecvNegoRequest", "SendNegoAckReq", "RecvNegoAck"} => OT

\* What Bob knows: the ack, which is Alice's choice, and the session he echoed.
BobData ==
    /\ pc["Bob"] = "RecvSessionAck" /\ inbox["Bob"] # Empty => Chosen /\ Mode \in NetModes
    /\ pc["Bob"] \notin {"SendNewSessionRequest", "RecvSessionAck", "ended"} =>
            /\ Chosen /\ Mode \in NetModes
            /\ ack = [id |-> Num, mode |-> Mode]
            /\ params["Bob"] = BobParams(Ack, want)
    /\ pc["Bob"] \notin {"SendNewSessionRequest", "RecvSessionAck", "SendSessionAck", "ended"} =>
            session["Bob"] = [id |-> Num, mode |-> Mode]
    /\ pc["Bob"] \in {"SendNegoRequest", "RecvNegoAckReq", "SendNegoAck"} => OT

\* Until Alice has answered, Bob has nothing to go on with.
Unanswered ==
    pc["Alice"] \in {"RecvSessionRequest", "SendSessionAck"} =>
        /\ pc["Bob"] \in {"SendNewSessionRequest", "RecvSessionAck", "ended"}
        /\ pc["Bob"] # "ended" => inbox["Bob"] = Empty

\* Two running programs on a live connection, and the messages between them.
Pair(a, b, toAlice, toBob) ==
    pc["Alice"] = a /\ pc["Bob"] = b /\ inbox["Alice"] = toAlice /\ inbox["Bob"] = toBob

HandshakePair ==
    \/ Pair("RecvSessionRequest", "SendNewSessionRequest", Empty, Empty)
    \/ Pair("RecvSessionRequest", "RecvSessionAck", One(Req), Empty)
    \/ Pair("SendSessionAck", "RecvSessionAck", Empty, Empty)
    \/ Pair("RecvSessionAck", "RecvSessionAck", Empty, One(Ack))
    \/ Pair("RecvSessionAck", "SendSessionAck", Empty, Empty)
    \/ Pair("RecvSessionAck", "mkdir", One(Ack), Empty)

\* Bob has sent his echo and goes on before Alice has read it.
EchoPair ==
    \/ OT /\ Pair("RecvSessionAck", "SendNegoRequest", One(Ack), Empty)
    \/ OT /\ Pair("RecvSessionAck", "RecvNegoAckReq", Two(Ack, TxMsg("NegoRequest")), Empty)
    \/ ~OT /\ Pair("RecvSessionAck", "SendTxRequest", One(Ack), Empty)
    \/ ~OT /\ Pair("RecvSessionAck", "RecvTxResponse", Two(Ack, TxMsg("TxRequest")), Empty)

NegoPair ==
    \/ Pair("RecvNegoRequest", "mkdir", Empty, Empty)
    \/ Pair("RecvNegoRequest", "SendNegoRequest", Empty, Empty)
    \/ Pair("RecvNegoRequest", "RecvNegoAckReq", One(TxMsg("NegoRequest")), Empty)
    \/ Pair("SendNegoAckReq", "RecvNegoAckReq", Empty, Empty)
    \/ Pair("RecvNegoAck", "RecvNegoAckReq", Empty, One(TxMsg("NegoAckReq")))
    \/ Pair("RecvNegoAck", "SendNegoAck", Empty, Empty)
    \/ Pair("RecvNegoAck", "SendTxRequest", One(TxMsg("NegoAck")), Empty)
    \/ Pair("RecvNegoAck", "RecvTxResponse", Two(TxMsg("NegoAck"), TxMsg("TxRequest")), Empty)

TxPair ==
    \/ ~OT /\ Pair("RecvTxRequest", "mkdir", Empty, Empty)
    \/ Pair("RecvTxRequest", "SendTxRequest", Empty, Empty)
    \/ Pair("RecvTxRequest", "RecvTxResponse", One(TxMsg("TxRequest")), Empty)
    \/ Pair("SendTxResponse", "RecvTxResponse", Empty, Empty)
    \/ Pair("RecvTxReceipt", "RecvTxResponse", Empty, One(TxMsg("TxResponse")))
    \/ Pair("RecvTxReceipt", "SendTxReceipt", Empty, Empty)
    \/ Pair("RecvTxReceipt", "done", One(TxMsg("TxReceipt")), Empty)
    \/ Pair("done", "done", Empty, Empty)

Together ==
    link = "up" /\ pc["Alice"] # "ended" /\ pc["Bob"] # "ended" =>
        HandshakePair \/ EchoPair \/ NegoPair \/ TxPair

\* The inductive invariant.
Inv ==
    /\ TypeOK /\ NoProtocolError
    /\ AliceLocal /\ BobLocal /\ AliceData /\ BobData
    /\ Unanswered /\ Together
-----------------------------------------------------------------------------
\* Appending to a sequence of length one.
LEMMA TwoLong ==
    ASSUME NEW S, NEW s \in Seq(S), NEW b \in S, NEW t \in Seq(S), NEW u \in Seq(S),
           Len(s) = 1,
           Len(t) = Len(s) + 1, t[Len(s) + 1] = b, \A i \in 1..Len(s) : t[i] = s[i],
           Len(u) = 2, u[1] = s[1], u[2] = b
    PROVE  t = u
<1>1. Len(t) = 2 /\ t[1] = s[1] /\ t[2] = b
  OBVIOUS
<1>2. \A i \in 1..2 : t[i] = u[i]
  BY <1>1
<1> QED
  BY <1>1, <1>2, SeqEqual

\* Two elements, one of them appended.
LEMMA AppendToOne ==
    ASSUME NEW S, NEW s \in Seq(S), NEW b \in S, NEW u \in Seq(S),
           Len(s) = 1, Len(u) = 2, u[1] = s[1], u[2] = b
    PROVE  Append(s, b) = u
<1>1. /\ Append(s, b) \in Seq(S)
      /\ Len(Append(s, b)) = Len(s) + 1
      /\ Append(s, b)[Len(s) + 1] = b
      /\ \A i \in 1..Len(s) : Append(s, b)[i] = s[i]
  BY ONLY s \in Seq(S), b \in S, AppendProperties
<1> QED
  BY <1>1, TwoLong, Zenon

\* Sequences of up to two messages.
LEMMA SeqFacts ==
    /\ \A a : Put(Empty, a) = One(a) /\ One(a) # Empty /\ First(One(a)) = a /\ Rest(One(a)) = Empty
    /\ \A a, b : /\ Put(One(a), b) = Two(a, b) /\ Two(a, b) # Empty
                 /\ First(Two(a, b)) = a /\ Rest(Two(a, b)) = One(b)
<1>1. ASSUME NEW a PROVE Append(<< >>, a) = <<a>>
  OBVIOUS
<1>2. ASSUME NEW a PROVE <<a>> # << >> /\ Head(<<a>>) = a
  OBVIOUS
<1>3. ASSUME NEW a PROVE Tail(<<a>>) = << >>
  OBVIOUS
<1>4. ASSUME NEW a, NEW b PROVE Append(<<a>>, b) = <<a, b>>
  <2> DEFINE S == {a, b}
  <2>1. /\ <<a>> \in Seq(S) /\ Len(<<a>>) = 1 /\ b \in S
        /\ <<a, b>> \in Seq(S) /\ Len(<<a, b>>) = 2
        /\ <<a, b>>[1] = <<a>>[1] /\ <<a, b>>[2] = b
    OBVIOUS
  <2> HIDE DEF S
  <2> QED
    BY <2>1, AppendToOne
<1>5. ASSUME NEW a, NEW b PROVE <<a, b>> # << >> /\ Head(<<a, b>>) = a
  OBVIOUS
<1>6. ASSUME NEW a, NEW b PROVE Tail(<<a, b>>) = <<b>>
  OBVIOUS
<1> QED
  BY <1>1, <1>2, <1>3, <1>4, <1>5, <1>6 DEF Empty, One, Two, Put, First, Rest

\* What the messages of the protocol are.
LEMMA MsgFacts ==
    /\ \A t : TxMsg(t).typ = t
    /\ \A t \in TxTypes : TxMsg(t) \in Msgs
    /\ Req.typ = "SessionRequest" /\ Req.id = 0 /\ Req.mode = 0 /\ Req.extra = want
    /\ Ack.typ = "SessionAck" /\ Ack.id = Num /\ Ack.mode = Mode
    /\ want \in Wants => Req \in Msgs
    /\ Num \in SessIDs /\ Mode \in NetModes => Ack \in Msgs
BY DEF TxMsg, Req, Ack, SessionRequestMsg, SessionAckMsg, Msgs

\* The parameters Alice chooses are well formed, and their OT flag is only set
\* where the sub-mode has an OT variant.
LEMMA ChosenType ==
    ASSUME NEW o \in Offer, NEW re \in Request, Acceptable(o, re), NEW n \in SessNums
    PROVE  /\ AliceParams(o, re, n) \in TradeParams
           /\ AliceParams(o, re, n).sess = n
           /\ AliceParams(o, re, n).price = re.price
           /\ AliceParams(o, re, n).ot =>
                    AliceParams(o, re, n).subMode \notin {"atomic_swap", "atomic_swap_vc"}
<1>1. \A i \in DOMAIN o.subModes : o.subModes[i] \in SubModes
  BY DEF Offer
<1>2. 1 \in DOMAIN o.subModes
  BY DEF Offer, Acceptable
<1>3. preAliceTx(o, re).subMode \in SubModes
  BY <1>1, <1>2 DEF preAliceTx
<1>4. preAliceTx(o, re).mode \in DataModes /\ re.price \in Nat
  BY DEF preAliceTx, Offer, Request
<1>5. /\ preAliceTx(o, re).ot \in BOOLEAN
      /\ preAliceTx(o, re).ot => preAliceTx(o, re).subMode \notin {"atomic_swap", "atomic_swap_vc"}
  BY DEF preAliceTx
<1>6. n \in SessNames
  BY DEF SessNames
<1> QED
  BY <1>3, <1>4, <1>5, <1>6 DEF AliceParams, TradeParams

\* The number of a mode that has one decides which calls the programs of both
\* sides start with, and names a program.
LEMMA ModeFacts ==
    ASSUME NEW p \in TradeParams, modeToInt(p) # modeMax
    PROVE  /\ modeToInt(p) \in NetModes
           /\ isOTMode(modeToInt(p)) <=> AliceTxFor(p) \in OTPrograms
           /\ AliceTxFor(p) \in Programs
           /\ BobTxFor(p) = AliceTxFor(p)
<1>1. p.mode \in DataModes /\ p.subMode \in SubModes /\ p.ot \in BOOLEAN
  BY DEF TradeParams
<1>2. CASE p.mode = "plain"
  BY <1>1, <1>2 DEF SubModes, modeToInt, modeMax, NetModes, isOTMode, AliceTxFor, BobTxFor,
                    OTPrograms, Programs
<1>3. CASE p.mode = "table"
  BY <1>1, <1>3 DEF SubModes, modeToInt, modeMax, NetModes, isOTMode, AliceTxFor, BobTxFor,
                    OTPrograms, Programs
<1> QED
  BY <1>1, <1>2, <1>3 DEF DataModes

\* Bob decodes the mode that Alice has encoded.
LEMMA ModeRoundTrip ==
    ASSUME NEW p \in TradeParams, modeToInt(p) # modeMax,
           p.ot => p.subMode \notin {"atomic_swap", "atomic_swap_vc"}
    PROVE  LET q == modeFromInt(modeToInt(p))
           IN  q.mode = p.mode /\ q.subMode = p.subMode /\ q.ot = p.ot
<1>1. p.mode \in DataModes /\ p.subMode \in SubModes /\ p.ot \in BOOLEAN
  BY DEF TradeParams
<1>2. CASE p.mode = "plain"
  BY <1>1, <1>2 DEF SubModes, modeToInt, modeMax, modeFromInt
<1>3. CASE p.mode = "table"
  BY <1>1, <1>3 DEF SubModes, modeToInt, modeMax, modeFromInt
<1> QED
  BY <1>1, <1>2, <1>3 DEF DataModes

\* What Bob makes of an ack is well formed.
LEMMA BobParamsType ==
    ASSUME NEW i \in SessIDs, NEW m \in NetModes, NEW re \in Request
    PROVE  BobParams(SessionAckMsg(i, m), re) \in TradeParams
<1>1. modeFromInt(m) \in Params
  BY DEF modeFromInt, NetModes, Params, DataModes, SubModes
<1>2. PrintHex[i] \in SessNames /\ re.price \in Nat
  BY DEF SessNames, Request
<1> QED
  BY <1>1, <1>2 DEF BobParams, SessionAckMsg, Params, TradeParams

-----------------------------------------------------------------------------
\* The initial states satisfy the invariant.
LEMMA InitInv == Init => Inv
<1> SUFFICES ASSUME Init PROVE Inv
  OBVIOUS
<1>1. TypeOK
  BY MaxFaultsAssumption
     DEF Init, TypeOK, Roles, AliceCalls, BobCalls, NodeStates, SessIDs, NetModes, Outcomes
<1>2. NoProtocolError /\ AliceLocal /\ BobLocal /\ AliceData /\ BobData /\ Unanswered /\ Together
  BY DEF Init, Empty, Roles, NoProtocolError, AliceLocal, BobLocal, AliceAt, BobAt, AliceData, BobData,
         Unanswered, Together, HandshakePair, Pair
<1> QED
  BY <1>1, <1>2 DEF Inv

\* What Alice has chosen changes only when she chooses it.
LEMMA ChoiceStable ==
    ASSUME UNCHANGED <<params, offer, want>>
    PROVE  /\ Num' = Num /\ Mode' = Mode /\ OT' = OT /\ Req' = Req /\ Ack' = Ack
           /\ Chosen' = Chosen
BY DEF Num, Mode, OT, Req, Ack, Chosen

\* A side that returns leaves the other one as it is.
LEMMA AbortInv ==
    ASSUME Inv, NEW r \in Roles, NEW why \in {"ok", "gone", "failed", "refused", "zeroID"},
           Abort(r, why), UNCHANGED <<params, ack, offer, want>>,
           link' \in {"up", "down"}, faults' \in 0..MaxFaults,
           inbox' \in [Roles -> Seq(Msgs)], inbox'[Peer(r)] = inbox[Peer(r)],
           session' \in [Roles -> [id : SessIDs, mode : NetModes]],
           session'[Peer(r)] = session[Peer(r)]
    PROVE  Inv'
<1>1. TypeOK'
  BY DEF Inv, TypeOK, Abort, Roles, AliceCalls, BobCalls, NodeStates, Outcomes
<1>2. NoProtocolError'
  BY DEF Inv, TypeOK, Abort, NoProtocolError, Roles
<1>3. CASE r = "Alice"
  <2>1. /\ pc'["Alice"] = "ended" /\ pc'["Bob"] = pc["Bob"] /\ state'["Bob"] = state["Bob"]
        /\ open'["Bob"] = open["Bob"] /\ inbox'["Bob"] = inbox["Bob"]
        /\ session'["Bob"] = session["Bob"]
    BY <1>3 DEF Inv, TypeOK, Abort, Roles, Peer
  <2>2. AliceLocal' /\ AliceData' /\ Unanswered' /\ Together'
    BY <2>1 DEF AliceLocal, AliceAt, AliceData, Unanswered, Together
  <2>3. BobLocal' /\ BobData'
    BY <2>1, ChoiceStable DEF Inv, BobLocal, BobAt, BobData
  <2> QED BY <1>1, <1>2, <2>2, <2>3 DEF Inv
<1>4. CASE r = "Bob"
  <2>1. /\ pc'["Bob"] = "ended" /\ pc'["Alice"] = pc["Alice"] /\ state'["Alice"] = state["Alice"]
        /\ open'["Alice"] = open["Alice"] /\ inbox'["Alice"] = inbox["Alice"]
        /\ session'["Alice"] = session["Alice"]
    BY <1>4 DEF Inv, TypeOK, Abort, Roles, Peer
  <2>2. BobLocal' /\ BobData' /\ Unanswered' /\ Together'
    BY <2>1 DEF BobLocal, BobAt, BobData, Unanswered, Together
  <2>3. AliceLocal' /\ AliceData'
    BY <2>1, ChoiceStable DEF Inv, AliceLocal, AliceAt, AliceData
  <2> QED BY <1>1, <1>2, <2>2, <2>3 DEF Inv
<1> QED
  BY <1>3, <1>4 DEF Roles

(***************************************************************************)
(* The effect of a call, seen from both ends.                              *)
(***************************************************************************)
Moves(r, call, st) ==
    /\ pc'[r] = call /\ pc'[Peer(r)] = pc[Peer(r)]
    /\ state'[r] = st /\ state'[Peer(r)] = state[Peer(r)]
    /\ open' = open /\ link' = link

Sends(r, m) ==
    /\ inbox'[r] = inbox[r]
    /\ link # "up" => inbox'[Peer(r)] = inbox[Peer(r)]
    /\ link = "up" /\ pc[Peer(r)] # "ended" => inbox'[Peer(r)] = Put(inbox[Peer(r)], m)

Takes(r) ==
    /\ inbox[r] # Empty
    /\ inbox'[r] = Rest(inbox[r])
    /\ inbox'[Peer(r)] = inbox[Peer(r)]

\* The assumptions the two lemmas below share.
Call(r, call, st) ==
    /\ pc' = [pc EXCEPT ![r] = call] /\ state' = [state EXCEPT ![r] = st]
    /\ call \in (IF r = "Alice" THEN AliceCalls ELSE BobCalls) /\ st \in NodeStates
    /\ UNCHANGED <<open, outcome, link, faults, offer, want>>
    /\ session' \in [Roles -> [id : SessIDs, mode : NetModes]]
    /\ ack' \in [id : SessIDs, mode : NetModes]
    /\ params' \in [Roles -> TradeParams \cup {NoParams}]

\* A call that sends: only its caller moves, and the peer has one message more.
LEMMA SendCall ==
    ASSUME Inv, NEW r \in Roles, NEW m \in Msgs, NEW call, NEW st,
           Call(r, call, st), sendMsg(r, m)
    PROVE  TypeOK' /\ NoProtocolError' /\ Moves(r, call, st) /\ Sends(r, m)
<1>1. Peer(r) \in Roles /\ Peer(r) # r
  BY DEF Roles, Peer
<1>2. inbox \in [Roles -> Seq(Msgs)] /\ inbox' \in [Roles -> Seq(Msgs)]
  BY <1>1, AppendProperties DEF Inv, TypeOK, sendMsg
<1>3. TypeOK' /\ NoProtocolError' /\ Moves(r, call, st)
  BY <1>1, <1>2 DEF Inv, TypeOK, NoProtocolError, Moves, Call, Roles, Peer
<1>4. pc[Peer(r)] # "ended" => open[Peer(r)]
  BY DEF Inv, AliceLocal, BobLocal, Roles, Peer
<1> QED
  BY <1>1, <1>2, <1>3, <1>4 DEF Sends, sendMsg, Put

\* A call that receives: only its caller moves, and the first message is taken.
LEMMA RecvCall ==
    ASSUME Inv, NEW r \in Roles, NEW call, NEW st, Call(r, call, st), recvMsg(r)
    PROVE  TypeOK' /\ NoProtocolError' /\ Moves(r, call, st) /\ Takes(r)
<1>1. Peer(r) \in Roles /\ Peer(r) # r
  BY DEF Roles, Peer
<1>2. inbox \in [Roles -> Seq(Msgs)] /\ inbox' \in [Roles -> Seq(Msgs)]
  BY <1>1, HeadTailProperties DEF Inv, TypeOK, recvMsg
<1>3. TypeOK' /\ NoProtocolError' /\ Moves(r, call, st)
  BY <1>1, <1>2 DEF Inv, TypeOK, NoProtocolError, Moves, Call, Roles, Peer
<1> QED
  BY <1>1, <1>2, <1>3 DEF Takes, recvMsg, Rest, Empty

\* The negotiation of the OT programs.
LEMMA NegoInv ==
    ASSUME Inv,
           \/ SendNegoRequest \/ RecvNegoRequest \/ SendNegoAckReq
           \/ RecvNegoAckReq \/ SendNegoAck \/ RecvNegoAck
    PROVE  Inv'
<1>1. ASSUME SendNegoRequest PROVE Inv'
  <2>1. /\ pc["Bob"] = "SendNegoRequest" /\ state["Bob"] = "SessionEstablished"
        /\ isOTMode(session["Bob"].mode)
    BY <1>1 DEF Inv, SendNegoRequest, BobLocal, BobAt, BobData, requestPreState, OT
  <2>2. Call("Bob", "RecvNegoAckReq", "NegoAckReqWait") /\ sendMsg("Bob", TxMsg("NegoRequest"))
        /\ UNCHANGED <<session, params, ack, offer, want>>
    BY <1>1, <2>1 DEF Inv, TypeOK, SendNegoRequest, negoMsg, sendTxMsg, Goto, SetState, TxFrame, Call,
                     Roles, BobCalls, NodeStates
  <2>3. TypeOK' /\ NoProtocolError' /\ Moves("Bob", "RecvNegoAckReq", "NegoAckReqWait")
        /\ Sends("Bob", TxMsg("NegoRequest"))
    BY <2>2, SendCall, MsgFacts DEF Inv, Roles, TxTypes
  <2>4. BobLocal' /\ BobData' /\ AliceData' /\ Unanswered'
    BY <2>1, <2>2, <2>3, SeqFacts, ChoiceStable
       DEF Inv, Moves, Sends, Peer, BobLocal, BobAt, BobData, AliceData, Unanswered
  <2>5. Together'
    BY <2>1, <2>2, <2>3, SeqFacts, ChoiceStable
       DEF Inv, Moves, Sends, Peer, Together, Pair, HandshakePair, EchoPair, NegoPair, TxPair
  <2>6. AliceLocal'
    BY <2>1, <2>2, <2>3, SeqFacts, ChoiceStable
       DEF Inv, Moves, Sends, Peer, AliceLocal, AliceAt,
           Together, Pair, HandshakePair, EchoPair, NegoPair, TxPair
  <2> QED BY <2>3, <2>4, <2>5, <2>6 DEF Inv
<1>2. ASSUME RecvNegoRequest PROVE Inv'
  <2>1. /\ pc["Alice"] = "RecvNegoRequest" /\ state["Alice"] = "SessionEstablished"
        /\ isOTMode(session["Alice"].mode)
    BY <1>2 DEF Inv, RecvNegoRequest, AliceLocal, AliceAt, AliceData, requestPreState, OT
  <2>2. recvMsg("Alice")
    BY <1>2, <2>1 DEF RecvNegoRequest, negoMsg, recvTxMsg
  <2>3. Head(inbox["Alice"]).typ = "NegoRequest"
    BY <2>1, <2>2, SeqFacts, MsgFacts DEF Inv, recvMsg, First, Empty, AliceLocal, AliceAt
  <2>4. Call("Alice", "SendNegoAckReq", "NegoRequestRecvd") /\ UNCHANGED <<session, params, ack, offer, want>>
    BY <1>2, <2>1, <2>3 DEF Inv, TypeOK, RecvNegoRequest, negoMsg, recvTxMsg, Goto, SetState, TxFrame,
                     Call, Roles, AliceCalls, NodeStates
  <2>5. TypeOK' /\ NoProtocolError' /\ Moves("Alice", "SendNegoAckReq", "NegoRequestRecvd") /\ Takes("Alice")
    BY <2>2, <2>4, RecvCall DEF Inv, Roles
  <2>6. AliceLocal' /\ AliceData' /\ BobLocal' /\ BobData' /\ Unanswered'
    BY <2>1, <2>4, <2>5, SeqFacts, ChoiceStable
       DEF Inv, Moves, Takes, Peer, AliceLocal, AliceAt, AliceData, BobLocal, BobAt, BobData, Unanswered
  <2>7. Together'
    BY <2>1, <2>4, <2>5, SeqFacts, ChoiceStable
       DEF Inv, Moves, Takes, Peer, Together, Pair, HandshakePair, EchoPair, NegoPair, TxPair
  <2> QED BY <2>5, <2>6, <2>7 DEF Inv
<1>3. ASSUME SendNegoAckReq PROVE Inv'
  <2>1. /\ pc["Alice"] = "SendNegoAckReq" /\ state["Alice"] = "NegoRequestRecvd"
        /\ isOTMode(session["Alice"].mode)
    BY <1>3 DEF Inv, SendNegoAckReq, AliceLocal, AliceAt, AliceData, requestPreState, OT
  <2>2. Call("Alice", "RecvNegoAck", "NegoAckWait") /\ sendMsg("Alice", TxMsg("NegoAckReq"))
        /\ UNCHANGED <<session, params, ack, offer, want>>
    BY <1>3, <2>1 DEF Inv, TypeOK, SendNegoAckReq, negoMsg, sendTxMsg, Goto, SetState, TxFrame, Call,
                     Roles, AliceCalls, NodeStates
  <2>3. TypeOK' /\ NoProtocolError' /\ Moves("Alice", "RecvNegoAck", "NegoAckWait")
        /\ Sends("Alice", TxMsg("NegoAckReq"))
    BY <2>2, SendCall, MsgFacts DEF Inv, Roles, TxTypes
  <2>4. AliceLocal' /\ AliceData' /\ BobData' /\ Unanswered'
    BY <2>1, <2>2, <2>3, SeqFacts, ChoiceStable
       DEF Inv, Moves, Sends, Peer, AliceLocal, AliceAt, AliceData, BobData, Unanswered
  <2>5. Together'
    BY <2>1, <2>2, <2>3, SeqFacts, ChoiceStable
       DEF Inv, Moves, Sends, Peer, Together, Pair, HandshakePair, EchoPair, NegoPair, TxPair
  <2>6. BobLocal'
    BY <2>1, <2>2, <2>3, SeqFacts, ChoiceStable
       DEF Inv, Moves, Sends, Peer, BobLocal, BobAt,
           Together, Pair, HandshakePair, EchoPair, NegoPair, TxPair
  <2> QED BY <2>3, <2>4, <2>5, <2>6 DEF Inv
<1>4. ASSUME RecvNegoAckReq PROVE Inv'
  <2>1. /\ pc["Bob"] = "RecvNegoAckReq" /\ state["Bob"] = "NegoAckReqWait"
        /\ isOTMode(session["Bob"].mode)
    BY <1>4 DEF Inv, RecvNegoAckReq, BobLocal, BobAt, BobData, requestPreState, OT
  <2>2. recvMsg("Bob")
    BY <1>4, <2>1 DEF RecvNegoAckReq, negoMsg, recvTxMsg
  <2>3. Head(inbox["Bob"]).typ = "NegoAckReq"
    BY <2>1, <2>2, SeqFacts, MsgFacts DEF Inv, recvMsg, First, Empty, BobLocal, BobAt
  <2>4. Call("Bob", "SendNegoAck", "NegoAckReqRecvd") /\ UNCHANGED <<session, params, ack, offer, want>>
    BY <1>4, <2>1, <2>3 DEF Inv, TypeOK, RecvNegoAckReq, negoMsg, recvTxMsg, Goto, SetState, TxFrame,
                     Call, Roles, BobCalls, NodeStates
  <2>5. TypeOK' /\ NoProtocolError' /\ Moves("Bob", "SendNegoAck", "NegoAckReqRecvd") /\ Takes("Bob")
    BY <2>2, <2>4, RecvCall DEF Inv, Roles
  <2>6. BobLocal' /\ BobData' /\ AliceLocal' /\ AliceData' /\ Unanswered'
    BY <2>1, <2>4, <2>5, SeqFacts, ChoiceStable
       DEF Inv, Moves, Takes, Peer, BobLocal, BobAt, BobData, AliceLocal, AliceAt, AliceData, Unanswered
  <2>7. Together'
    BY <2>1, <2>4, <2>5, SeqFacts, ChoiceStable
       DEF Inv, Moves, Takes, Peer, Together, Pair, HandshakePair, EchoPair, NegoPair, TxPair
  <2> QED BY <2>5, <2>6, <2>7 DEF Inv
<1>5. ASSUME SendNegoAck PROVE Inv'
  <2>1. /\ pc["Bob"] = "SendNegoAck" /\ state["Bob"] = "NegoAckReqRecvd"
        /\ isOTMode(session["Bob"].mode)
    BY <1>5 DEF Inv, SendNegoAck, BobLocal, BobAt, BobData, requestPreState, OT
  <2>2. Call("Bob", "SendTxRequest", "Negotiated") /\ sendMsg("Bob", TxMsg("NegoAck"))
        /\ UNCHANGED <<session, params, ack, offer, want>>
    BY <1>5, <2>1 DEF Inv, TypeOK, SendNegoAck, negoMsg, sendTxMsg, Goto, SetState, TxFrame, Call,
                     Roles, BobCalls, NodeStates
  <2>3. TypeOK' /\ NoProtocolError' /\ Moves("Bob", "SendTxRequest", "Negotiated")
        /\ Sends("Bob", TxMsg("NegoAck"))
    BY <2>2, SendCall, MsgFacts DEF Inv, Roles, TxTypes
  <2>4. BobLocal' /\ BobData' /\ AliceData' /\ Unanswered'
    BY <2>1, <2>2, <2>3, SeqFacts, ChoiceStable
       DEF Inv, Moves, Sends, Peer, BobLocal, BobAt, BobData, AliceData, Unanswered
  <2>5. Together'
    BY <2>1, <2>2, <2>3, SeqFacts, ChoiceStable
       DEF Inv, Moves, Sends, Peer, Together, Pair, HandshakePair, EchoPair, NegoPair, TxPair
  <2>6. AliceLocal'
    BY <2>1, <2>2, <2>3, SeqFacts, ChoiceStable
       DEF Inv, Moves, Sends, Peer, AliceLocal, AliceAt,
           Together, Pair, HandshakePair, EchoPair, NegoPair, TxPair
  <2> QED BY <2>3, <2>4, <2>5, <2>6 DEF Inv
<1>6. ASSUME RecvNegoAck PROVE Inv'
  <2>1. /\ pc["Alice"] = "RecvNegoAck" /\ state["Alice"] = "NegoAckWait"
        /\ isOTMode(session["Alice"].mode)
    BY <1>6 DEF Inv, RecvNegoAck, AliceLocal, AliceAt, AliceData, requestPreState, OT
  <2>2. recvMsg("Alice")
    BY <1>6, <2>1 DEF RecvNegoAck, negoMsg, recvTxMsg
  <2>3. Head(inbox["Alice"]).typ = "NegoAck"
    BY <2>1, <2>2, SeqFacts, MsgFacts DEF Inv, recvMsg, First, Empty, AliceLocal, AliceAt
  <2>4. Call("Alice", "RecvTxRequest", "Negotiated") /\ UNCHANGED <<session, params, ack, offer, want>>
    BY <1>6, <2>1, <2>3 DEF Inv, TypeOK, RecvNegoAck, negoMsg, recvTxMsg, Goto, SetState, TxFrame,
                     Call, Roles, AliceCalls, NodeStates
  <2>5. TypeOK' /\ NoProtocolError' /\ Moves("Alice", "RecvTxRequest", "Negotiated") /\ Takes("Alice")
    BY <2>2, <2>4, RecvCall DEF Inv, Roles
  <2>6. AliceLocal' /\ AliceData' /\ BobLocal' /\ BobData' /\ Unanswered'
    BY <2>1, <2>4, <2>5, SeqFacts, ChoiceStable
       DEF Inv, Moves, Takes, Peer, AliceLocal, AliceAt, AliceData, BobLocal, BobAt, BobData, Unanswered
  <2>7. Together'
    BY <2>1, <2>4, <2>5, SeqFacts, ChoiceStable
       DEF Inv, Moves, Takes, Peer, Together, Pair, HandshakePair, EchoPair, NegoPair, TxPair
  <2> QED BY <2>5, <2>6, <2>7 DEF Inv
<1> QED
  BY <1>1, <1>2, <1>3, <1>4, <1>5, <1>6

\* Request, response and receipt.
LEMMA TxInv ==
    ASSUME Inv,
           \/ SendTxRequest \/ RecvTxRequest \/ SendTxResponse
           \/ RecvTxResponse \/ SendTxReceipt \/ RecvTxReceipt
    PROVE  Inv'
<1>1. ASSUME SendTxRequest PROVE Inv'
  <2>1. /\ pc["Bob"] = "SendTxRequest" /\ state["Bob"] = requestPreState("Bob")
    BY <1>1 DEF Inv, SendTxRequest, BobLocal, BobAt, BobData, requestPreState, OT
  <2>2. Call("Bob", "RecvTxResponse", "TxResponseWait") /\ sendMsg("Bob", TxMsg("TxRequest"))
        /\ UNCHANGED <<session, params, ack, offer, want>>
    BY <1>1, <2>1 DEF Inv, TypeOK, SendTxRequest, sendTxMsg, Goto, SetState, TxFrame, Call,
                     Roles, BobCalls, NodeStates
  <2>3. TypeOK' /\ NoProtocolError' /\ Moves("Bob", "RecvTxResponse", "TxResponseWait")
        /\ Sends("Bob", TxMsg("TxRequest"))
    BY <2>2, SendCall, MsgFacts DEF Inv, Roles, TxTypes
  <2>4. BobLocal' /\ BobData' /\ AliceData' /\ Unanswered'
    BY <2>1, <2>2, <2>3, SeqFacts, ChoiceStable
       DEF Inv, Moves, Sends, Peer, BobLocal, BobAt, BobData, AliceData, Unanswered
  <2>5. Together'
    BY <2>1, <2>2, <2>3, SeqFacts, ChoiceStable
       DEF Inv, Moves, Sends, Peer, Together, Pair, HandshakePair, EchoPair, NegoPair, TxPair
  <2>6. AliceLocal'
    BY <2>1, <2>2, <2>3, SeqFacts, ChoiceStable
       DEF Inv, Moves, Sends, Peer, AliceLocal, AliceAt,
           Together, Pair, HandshakePair, EchoPair, NegoPair, TxPair
  <2> QED BY <2>3, <2>4, <2>5, <2>6 DEF Inv
<1>2. ASSUME RecvTxRequest PROVE Inv'
  <2>1. /\ pc["Alice"] = "RecvTxRequest" /\ state["Alice"] = requestPreState("Alice")
    BY <1>2 DEF Inv, RecvTxRequest, AliceLocal, AliceAt, AliceData, requestPreState, OT
  <2>2. recvMsg("Alice")
    BY <1>2, <2>1 DEF RecvTxRequest, recvTxMsg
  <2>3. Head(inbox["Alice"]).typ = "TxRequest"
    BY <2>1, <2>2, SeqFacts, MsgFacts DEF Inv, recvMsg, First, Empty, AliceLocal, AliceAt
  <2>4. Call("Alice", "SendTxResponse", "TxRequestRecvd") /\ UNCHANGED <<session, params, ack, offer, want>>
    BY <1>2, <2>1, <2>3 DEF Inv, TypeOK, RecvTxRequest, recvTxMsg, Goto, SetState, TxFrame,
                     Call, Roles, AliceCalls, NodeStates
  <2>5. TypeOK' /\ NoProtocolError' /\ Moves("Alice", "SendTxResponse", "TxRequestRecvd") /\ Takes("Alice")
    BY <2>2, <2>4, RecvCall DEF Inv, Roles
  <2>6. AliceLocal' /\ AliceData' /\ BobLocal' /\ BobData' /\ Unanswered'
    BY <2>1, <2>4, <2>5, SeqFacts, ChoiceStable
       DEF Inv, Moves, Takes, Peer, AliceLocal, AliceAt, AliceData, BobLocal, BobAt, BobData, Unanswered
  <2>7. Together'
    BY <2>1, <2>4, <2>5, SeqFacts, ChoiceStable
       DEF Inv, Moves, Takes, Peer, Together, Pair, HandshakePair, EchoPair, NegoPair, TxPair
  <2> QED BY <2>5, <2>6, <2>7 DEF Inv
<1>3. ASSUME SendTxResponse PROVE Inv'
  <2>1. /\ pc["Alice"] = "SendTxResponse" /\ state["Alice"] = "TxRequestRecvd"
    BY <1>3 DEF Inv, SendTxResponse, AliceLocal, AliceAt, AliceData, requestPreState, OT
  <2>2. Call("Alice", "RecvTxReceipt", "TxReceiptWait") /\ sendMsg("Alice", TxMsg("TxResponse"))
        /\ UNCHANGED <<session, params, ack, offer, want>>
    BY <1>3, <2>1 DEF Inv, TypeOK, SendTxResponse, sendTxMsg, Goto, SetState, TxFrame, Call,
                     Roles, AliceCalls, NodeStates
  <2>3. TypeOK' /\ NoProtocolError' /\ Moves("Alice", "RecvTxReceipt", "TxReceiptWait")
        /\ Sends("Alice", TxMsg("TxResponse"))
    BY <2>2, SendCall, MsgFacts DEF Inv, Roles, TxTypes
  <2>4. AliceLocal' /\ AliceData' /\ BobData' /\ Unanswered'
    BY <2>1, <2>2, <2>3, SeqFacts, ChoiceStable
       DEF Inv, Moves, Sends, Peer, AliceLocal, AliceAt, AliceData, BobData, Unanswered
  <2>5. Together'
    BY <2>1, <2>2, <2>3, SeqFacts, ChoiceStable
       DEF Inv, Moves, Sends, Peer, Together, Pair, HandshakePair, EchoPair, NegoPair, TxPair
  <2>6. BobLocal'
    BY <2>1, <2>2, <2>3, SeqFacts, ChoiceStable
       DEF Inv, Moves, Sends, Peer, BobLocal, BobAt,
           Together, Pair, HandshakePair, EchoPair, NegoPair, TxPair
  <2> QED BY <2>3, <2>4, <2>5, <2>6 DEF Inv
<1>4. ASSUME RecvTxResponse PROVE Inv'
  <2>1. /\ pc["Bob"] = "RecvTxResponse" /\ state["Bob"] = "TxResponseWait"
    BY <1>4 DEF Inv, RecvTxResponse, BobLocal, BobAt, BobData, requestPreState, OT
  <2>2. recvMsg("Bob")
    BY <1>4, <2>1 DEF RecvTxResponse, recvTxMsg
  <2>3. Head(inbox["Bob"]).typ = "TxResponse"
    BY <2>1, <2>2, SeqFacts, MsgFacts DEF Inv, recvMsg, First, Empty, BobLocal, BobAt
  <2>4. Call("Bob", "SendTxReceipt", "TxResponseRecvd") /\ UNCHANGED <<session, params, ack, offer, want>>
    BY <1>4, <2>1, <2>3 DEF Inv, TypeOK, RecvTxResponse, recvTxMsg, Goto, SetState, TxFrame,
                     Call, Roles, BobCalls, NodeStates
  <2>5. TypeOK' /\ NoProtocolError' /\ Moves("Bob", "SendTxReceipt", "TxResponseRecvd") /\ Takes("Bob")
    BY <2>2, <2>4, RecvCall DEF Inv, Roles
  <2>6. BobLocal' /\ BobData' /\ AliceLocal' /\ AliceData' /\ Unanswered'
    BY <2>1, <2>4, <2>5, SeqFacts, ChoiceStable
       DEF Inv, Moves, Takes, Peer, BobLocal, BobAt, BobData, AliceLocal, AliceAt, AliceData, Unanswered
  <2>7. Together'
    BY <2>1, <2>4, <2>5, SeqFacts, ChoiceStable
       DEF Inv, Moves, Takes, Peer, Together, Pair, HandshakePair, EchoPair, NegoPair, TxPair
  <2> QED BY <2>5, <2>6, <2>7 DEF Inv
<1>5. ASSUME SendTxReceipt PROVE Inv'
  <2>1. /\ pc["Bob"] = "SendTxReceipt" /\ state["Bob"] = "TxResponseRecvd"
    BY <1>5 DEF Inv, SendTxReceipt, BobLocal, BobAt, BobData, requestPreState, OT
  <2>2. Call("Bob", "done", "TxSecretWait") /\ sendMsg("Bob", TxMsg("TxReceipt"))
        /\ UNCHANGED <<session, params, ack, offer, want>>
    BY <1>5, <2>1 DEF Inv, TypeOK, SendTxReceipt, sendTxMsg, Goto, SetState, TxFrame, Call,
                     Roles, BobCalls, NodeStates
  <2>3. TypeOK' /\ NoProtocolError' /\ Moves("Bob", "done", "TxSecretWait")
        /\ Sends("Bob", TxMsg("TxReceipt"))
    BY <2>2, SendCall, MsgFacts DEF Inv, Roles, TxTypes
  <2>4. BobLocal' /\ BobData' /\ AliceData' /\ Unanswered'
    BY <2>1, <2>2, <2>3, SeqFacts, ChoiceStable
       DEF Inv, Moves, Sends, Peer, BobLocal, BobAt, BobData, AliceData, Unanswered
  <2>5. Together'
    BY <2>1, <2>2, <2>3, SeqFacts, ChoiceStable
       DEF Inv, Moves, Sends, Peer, Together, Pair, HandshakePair, EchoPair, NegoPair, TxPair
  <2>6. AliceLocal'
    BY <2>1, <2>2, <2>3, SeqFacts, ChoiceStable
       DEF Inv, Moves, Sends, Peer, AliceLocal, AliceAt,
           Together, Pair, HandshakePair, EchoPair, NegoPair, TxPair
  <2> QED BY <2>3, <2>4, <2>5, <2>6 DEF Inv
<1>6. ASSUME RecvTxReceipt PROVE Inv'
  <2>1. /\ pc["Alice"] = "RecvTxReceipt" /\ state["Alice"] = "TxReceiptWait"
    BY <1>6 DEF Inv, RecvTxReceipt, AliceLocal, AliceAt, AliceData, requestPreState, OT
  <2>2. recvMsg("Alice")
    BY <1>6, <2>1 DEF RecvTxReceipt, recvTxMsg
  <2>3. Head(inbox["Alice"]).typ = "TxReceipt"
    BY <2>1, <2>2, SeqFacts, MsgFacts DEF Inv, recvMsg, First, Empty, AliceLocal, AliceAt
  <2>4. Call("Alice", "done", "TxReceiptRecvd") /\ UNCHANGED <<session, params, ack, offer, want>>
    BY <1>6, <2>1, <2>3 DEF Inv, TypeOK, RecvTxReceipt, recvTxMsg, Goto, SetState, TxFrame,
                     Call, Roles, AliceCalls, NodeStates
  <2>5. TypeOK' /\ NoProtocolError' /\ Moves("Alice", "done", "TxReceiptRecvd") /\ Takes("Alice")
    BY <2>2, <2>4, RecvCall DEF Inv, Roles
  <2>6. AliceLocal' /\ AliceData' /\ BobLocal' /\ BobData' /\ Unanswered'
    BY <2>1, <2>4, <2>5, SeqFacts, ChoiceStable
       DEF Inv, Moves, Takes, Peer, AliceLocal, AliceAt, AliceData, BobLocal, BobAt, BobData, Unanswered
  <2>7. Together'
    BY <2>1, <2>4, <2>5, SeqFacts, ChoiceStable
       DEF Inv, Moves, Takes, Peer, Together, Pair, HandshakePair, EchoPair, NegoPair, TxPair
  <2> QED BY <2>5, <2>6, <2>7 DEF Inv
<1> QED
  BY <1>1, <1>2, <1>3, <1>4, <1>5, <1>6

-----------------------------------------------------------------------------
\* The types the choice and the ack have.
LEMMA ChoiceType ==
    ASSUME TypeOK, Chosen
    PROVE  /\ params["Alice"] \in TradeParams /\ Num \in SessIDs
           /\ Mode # modeMax => Mode \in NetModes
           /\ Mode # modeMax => (OT <=> AliceTxFor(params["Alice"]) \in OTPrograms)
<1>1. PICK n \in SessNums : params["Alice"] = AliceParams(offer, want, n)
  BY DEF Chosen
<1>2. offer \in Offer /\ want \in Request /\ Acceptable(offer, want)
  BY OffersAssumption, WantsAssumption DEF TypeOK, Chosen
<1>3. params["Alice"] \in TradeParams /\ params["Alice"].sess = n
  BY <1>1, <1>2, ChosenType
<1>4. Num \in SessIDs
  BY <1>3 DEF Num, SessIDs
<1> QED
  BY <1>3, <1>4, ModeFacts DEF Mode, OT

\* Bob reads the program from the ack that Alice dispatches on.
LEMMA SameProgram ==
    ASSUME TypeOK, Chosen, Mode \in NetModes, params["Bob"] = BobParams(Ack, want)
    PROVE  /\ params["Bob"].mode = params["Alice"].mode
           /\ params["Bob"].subMode = params["Alice"].subMode
           /\ params["Bob"].ot = params["Alice"].ot
           /\ params["Bob"].price = params["Alice"].price
           /\ params["Bob"].sess = PrintHex[ParseHex[params["Alice"].sess]]
           /\ BobTxFor(params["Bob"]) = AliceTxFor(params["Alice"])
           /\ AliceTxFor(params["Alice"]) \in Programs
<1>1. PICK n \in SessNums : params["Alice"] = AliceParams(offer, want, n)
  BY DEF Chosen
<1>2. offer \in Offer /\ want \in Request /\ Acceptable(offer, want)
  BY OffersAssumption, WantsAssumption DEF TypeOK, Chosen
<1>3. /\ params["Alice"] \in TradeParams
      /\ params["Alice"].price = want.price
      /\ params["Alice"].ot => params["Alice"].subMode \notin {"atomic_swap", "atomic_swap_vc"}
  BY <1>1, <1>2, ChosenType
<1>4. Mode # modeMax
  BY DEF NetModes, modeMax
<1>5. /\ modeFromInt(Mode).mode = params["Alice"].mode
      /\ modeFromInt(Mode).subMode = params["Alice"].subMode
      /\ modeFromInt(Mode).ot = params["Alice"].ot
  BY <1>3, <1>4, ModeRoundTrip DEF Mode
<1>6. /\ params["Bob"].mode = params["Alice"].mode
      /\ params["Bob"].subMode = params["Alice"].subMode
      /\ params["Bob"].ot = params["Alice"].ot
      /\ params["Bob"].price = params["Alice"].price
      /\ params["Bob"].sess = PrintHex[ParseHex[params["Alice"].sess]]
  BY <1>3, <1>5, MsgFacts DEF BobParams, Num
<1>7. BobTxFor(params["Bob"]) = BobTxFor(params["Alice"])
  BY <1>6 DEF BobTxFor
<1> QED
  BY <1>3, <1>4, <1>6, <1>7, ModeFacts DEF Mode

\* The session handshake and the dispatch of Bob's handler.
LEMMA HandshakeInv ==
    ASSUME Inv,
           \/ SendNewSessionRequest \/ RecvSessionRequest \/ AliceSendSessionAck
           \/ BobRecvSessionAck \/ BobSendSessionAck \/ AliceRecvSessionAck \/ BobMkdir
    PROVE  Inv'
<1>1. ASSUME SendNewSessionRequest PROVE Inv'
  <2>1. pc["Bob"] = "SendNewSessionRequest" /\ state["Bob"] = "Connected"
    BY <1>1 DEF Inv, SendNewSessionRequest, BobLocal, BobAt
  <2>2. /\ Call("Bob", "RecvSessionAck", "SessionAckWait") /\ sendMsg("Bob", Req)
        /\ UNCHANGED <<session, params, ack, offer, want>>
    BY <1>1, <2>1 DEF Inv, TypeOK, SendNewSessionRequest, Req, Goto, SetState, Call, Roles,
                      BobCalls, NodeStates
  <2>3. /\ TypeOK' /\ NoProtocolError' /\ Moves("Bob", "RecvSessionAck", "SessionAckWait")
        /\ Sends("Bob", Req)
    BY <2>2, SendCall, MsgFacts DEF Inv, TypeOK, Roles
  <2>4. BobLocal' /\ BobData' /\ AliceData' /\ Unanswered'
    BY <2>1, <2>2, <2>3, SeqFacts, ChoiceStable
       DEF Inv, Moves, Sends, Peer, BobLocal, BobAt, BobData, AliceData, Unanswered
  <2>5. Together'
    BY <2>1, <2>2, <2>3, SeqFacts, ChoiceStable
       DEF Inv, Moves, Sends, Peer, Together, Pair, HandshakePair, EchoPair, NegoPair, TxPair
  <2>6. AliceLocal'
    BY <2>1, <2>2, <2>3, SeqFacts, ChoiceStable
       DEF Inv, Moves, Sends, Peer, AliceLocal, AliceAt,
           Together, Pair, HandshakePair, EchoPair, NegoPair, TxPair
  <2> QED BY <2>3, <2>4, <2>5, <2>6 DEF Inv
<1>2. ASSUME RecvSessionRequest PROVE Inv'
  <2>1. /\ pc["Alice"] = "RecvSessionRequest" /\ state["Alice"] = "Connected"
        /\ recvMsg("Alice")
    BY <1>2 DEF Inv, RecvSessionRequest, recvSessMsg, AliceLocal, AliceAt
  <2>2. inbox["Alice"] = One(Req) /\ Head(inbox["Alice"]) = Req
    BY <2>1, SeqFacts DEF Inv, recvMsg, First, Empty, AliceLocal, AliceAt
  <2>3. Req.typ = "SessionRequest" /\ Req.id = 0 /\ ~(Req.mode >= modeMax) /\ Req.extra = want
    BY MsgFacts DEF modeMax
  <2>4. CASE ~Acceptable(offer, want)
    <3>1. Abort("Alice", "refused") /\ UNCHANGED <<params, session, ack, link, faults, offer, want>>
      BY <1>2, <2>1, <2>2, <2>3, <2>4 DEF RecvSessionRequest
    <3>2. inbox' \in [Roles -> Seq(Msgs)] /\ inbox'["Bob"] = inbox["Bob"]
      BY <2>1, HeadTailProperties DEF Inv, TypeOK, recvMsg, Roles
    <3> QED BY <3>1, <3>2, AbortInv DEF Inv, TypeOK, Roles, Peer
  <2>5. CASE Acceptable(offer, want)
    <3>1. PICK n \in SessNums : params' = [params EXCEPT !["Alice"] = AliceParams(offer, want, n)]
      BY <1>2, <2>1, <2>2, <2>3, <2>5 DEF RecvSessionRequest
    <3>2. AliceParams(offer, want, n) \in TradeParams
      BY <2>5, ChosenType, OffersAssumption, WantsAssumption DEF Inv, TypeOK
    <3>3. Call("Alice", "SendSessionAck", "SessionReqRecvd") /\ UNCHANGED <<session, ack, offer, want>>
      BY <1>2, <2>1, <2>2, <2>3, <2>5, <3>1, <3>2
         DEF Inv, TypeOK, RecvSessionRequest, Goto, SetState, Call, Roles, AliceCalls, NodeStates
    <3>4. /\ TypeOK' /\ NoProtocolError' /\ Moves("Alice", "SendSessionAck", "SessionReqRecvd")
          /\ Takes("Alice")
      BY <2>1, <3>3, RecvCall DEF Inv, Roles
    <3>5. params'["Alice"] = AliceParams(offer, want, n) /\ Chosen'
      BY <2>5, <3>1, <3>3 DEF Inv, TypeOK, Chosen, Roles
    <3>6. /\ pc["Bob"] \in {"SendNewSessionRequest", "RecvSessionAck", "ended"}
          /\ pc["Bob"] # "ended" => inbox["Bob"] = Empty
      BY <2>1 DEF Inv, Unanswered
    <3>7. AliceLocal' /\ AliceData' /\ BobLocal' /\ BobData' /\ Unanswered'
      BY <2>1, <2>2, <3>3, <3>4, <3>5, <3>6, SeqFacts
         DEF Inv, Moves, Takes, Peer, AliceLocal, AliceAt, AliceData, BobLocal, BobAt, BobData,
             Unanswered
    <3>8. Together'
      BY <2>1, <2>2, <3>4, <3>6, SeqFacts DEF Inv, Moves, Takes, Peer, Together, Pair, HandshakePair, EchoPair, NegoPair, TxPair
    <3> QED BY <3>4, <3>7, <3>8 DEF Inv
  <2> QED BY <2>4, <2>5
<1>3. ASSUME AliceSendSessionAck PROVE Inv'
  <2>1. pc["Alice"] = "SendSessionAck" /\ state["Alice"] = "SessionReqRecvd" /\ Chosen
    BY <1>3 DEF Inv, AliceSendSessionAck, AliceLocal, AliceAt, AliceData
  <2>2. CASE Mode = modeMax
    <3>1. /\ Abort("Alice", "refused")
          /\ UNCHANGED <<inbox, params, session, ack, link, faults, offer, want>>
      BY <1>3, <2>2 DEF AliceSendSessionAck, Mode
    <3> QED BY <3>1, AbortInv DEF Inv, TypeOK, Roles
  <2>3. CASE Mode # modeMax
    <3>1. Mode \in NetModes /\ Num \in SessIDs
      <4>1. TypeOK /\ Chosen /\ Mode # modeMax
        BY <2>1, <2>3 DEF Inv
      <4> QED BY <4>1, ChoiceType
    <3>2. /\ Call("Alice", "RecvSessionAck", "SessionAckWait") /\ sendMsg("Alice", Ack)
          /\ UNCHANGED <<session, params, ack, offer, want>>
      BY <1>3, <2>1, <2>3 DEF Inv, TypeOK, AliceSendSessionAck, Ack, Num, Mode, Goto, SetState,
                              Call, Roles, AliceCalls, NodeStates
    <3>3. /\ TypeOK' /\ NoProtocolError' /\ Moves("Alice", "RecvSessionAck", "SessionAckWait")
          /\ Sends("Alice", Ack)
      BY <3>1, <3>2, SendCall, MsgFacts DEF Inv, Roles
    <3>4. AliceLocal' /\ AliceData' /\ Unanswered'
      BY <2>1, <3>1, <3>2, <3>3, SeqFacts, ChoiceStable
         DEF Inv, Moves, Sends, Peer, AliceLocal, AliceAt, AliceData, Unanswered
    <3>5. Together'
      BY <2>1, <3>2, <3>3, SeqFacts, ChoiceStable
         DEF Inv, Moves, Sends, Peer, Together, Pair, HandshakePair, EchoPair, NegoPair, TxPair
    <3>6. BobLocal' /\ BobData'
      BY <2>1, <3>1, <3>2, <3>3, SeqFacts, ChoiceStable
         DEF Inv, Moves, Sends, Peer, BobLocal, BobAt, BobData, Unanswered,
             Together, Pair, HandshakePair, EchoPair, NegoPair, TxPair
    <3> QED BY <3>3, <3>4, <3>5, <3>6 DEF Inv
  <2> QED BY <2>2, <2>3
<1>4. ASSUME BobRecvSessionAck PROVE Inv'
  <2>1. /\ pc["Bob"] = "RecvSessionAck" /\ state["Bob"] = "SessionAckWait" /\ recvMsg("Bob")
    BY <1>4 DEF Inv, BobRecvSessionAck, recvSessMsg, BobLocal, BobAt
  <2>2. inbox["Bob"] = One(Ack) /\ Head(inbox["Bob"]) = Ack /\ Chosen /\ Mode \in NetModes
    BY <2>1, SeqFacts DEF Inv, recvMsg, First, Empty, BobLocal, BobAt, BobData
  <2>3. Ack.typ = "SessionAck" /\ Ack.id = Num /\ Ack.mode = Mode
    BY MsgFacts
  <2>4. CASE Num = 0
    <3>1. Abort("Bob", "zeroID") /\ UNCHANGED <<params, ack, session, link, faults, offer, want>>
      BY <1>4, <2>1, <2>2, <2>3, <2>4 DEF BobRecvSessionAck
    <3>2. inbox' \in [Roles -> Seq(Msgs)] /\ inbox'["Alice"] = inbox["Alice"]
      BY <2>1, HeadTailProperties DEF Inv, TypeOK, recvMsg, Roles
    <3> QED BY <3>1, <3>2, AbortInv DEF Inv, TypeOK, Roles, Peer
  <2>5. CASE Num # 0
    <3>1. /\ params' = [params EXCEPT !["Bob"] = BobParams(Ack, want)]
          /\ ack' = [id |-> Num, mode |-> Mode]
      BY <1>4, <2>1, <2>2, <2>3, <2>5 DEF BobRecvSessionAck
    <3>2. BobParams(Ack, want) \in TradeParams /\ Num \in SessIDs
      BY <2>2, ChoiceType, BobParamsType, WantsAssumption DEF Inv, TypeOK, Ack
    <3>3. Call("Bob", "SendSessionAck", "SessionAckRecvd") /\ UNCHANGED <<session, offer, want>>
      BY <1>4, <2>1, <2>2, <2>3, <2>5, <3>1, <3>2
         DEF Inv, TypeOK, BobRecvSessionAck, Goto, SetState, Call, Roles, BobCalls, NodeStates
    <3>4. /\ TypeOK' /\ NoProtocolError' /\ Moves("Bob", "SendSessionAck", "SessionAckRecvd")
          /\ Takes("Bob")
      BY <2>1, <3>3, RecvCall DEF Inv, Roles
    <3>5. params'["Alice"] = params["Alice"] /\ params'["Bob"] = BobParams(Ack, want)
      BY <3>1 DEF Inv, TypeOK, Roles
    <3>6. /\ Num' = Num /\ Mode' = Mode /\ OT' = OT /\ Req' = Req /\ Ack' = Ack
          /\ Chosen' = Chosen
      BY <3>3, <3>5 DEF Num, Mode, OT, Req, Ack, Chosen
    <3>7. BobLocal' /\ BobData'
      BY <2>1, <2>2, <3>1, <3>3, <3>4, <3>5, <3>6, SeqFacts
         DEF Inv, Moves, Takes, Peer, BobLocal, BobAt, BobData
    <3>8. AliceLocal' /\ AliceData' /\ Unanswered'
      BY <2>1, <2>2, <3>3, <3>4, <3>6, SeqFacts
         DEF Inv, Moves, Takes, Peer, AliceLocal, AliceAt, AliceData, Unanswered
    <3>9. Together'
      BY <2>1, <2>2, <3>4, <3>6, SeqFacts DEF Inv, Moves, Takes, Peer, Together, Pair, HandshakePair, EchoPair, NegoPair, TxPair
    <3> QED BY <3>4, <3>7, <3>8, <3>9 DEF Inv
  <2> QED BY <2>4, <2>5
<1>5. ASSUME BobSendSessionAck PROVE Inv'
  <2>1. /\ pc["Bob"] = "SendSessionAck" /\ state["Bob"] = "SessionAckRecvd"
        /\ ack = [id |-> Num, mode |-> Mode]
    BY <1>5 DEF Inv, BobSendSessionAck, BobLocal, BobAt, BobData
  <2>2. /\ Num \in SessIDs /\ Mode \in NetModes /\ SessionAckMsg(ack.id, ack.mode) = Ack
    BY <2>1 DEF Inv, TypeOK, Ack
  <2>3. /\ Call("Bob", "mkdir", "SessionEstablished") /\ sendMsg("Bob", Ack)
        /\ session' = [session EXCEPT !["Bob"] = ack]
        /\ UNCHANGED <<params, ack, offer, want>>
    BY <1>5, <2>1, <2>2 DEF Inv, TypeOK, BobSendSessionAck, Goto, SetState, Call, Roles,
                            BobCalls, NodeStates
  <2>4. /\ TypeOK' /\ NoProtocolError' /\ Moves("Bob", "mkdir", "SessionEstablished")
        /\ Sends("Bob", Ack)
    BY <2>2, <2>3, SendCall, MsgFacts DEF Inv, Roles
  <2>5. session'["Bob"] = ack /\ session'["Alice"] = session["Alice"]
    BY <2>3 DEF Inv, TypeOK, Roles
  <2>6. BobLocal' /\ BobData' /\ AliceData' /\ Unanswered'
    BY <2>1, <2>3, <2>4, <2>5, SeqFacts, ChoiceStable
       DEF Inv, Moves, Sends, Peer, BobLocal, BobAt, BobData, AliceData, Unanswered
  <2>7. Together'
    BY <2>1, <2>3, <2>4, SeqFacts, ChoiceStable
       DEF Inv, Moves, Sends, Peer, Together, Pair, HandshakePair, EchoPair, NegoPair, TxPair
  <2>8. AliceLocal'
    BY <2>1, <2>3, <2>4, SeqFacts, ChoiceStable
       DEF Inv, Moves, Sends, Peer, AliceLocal, AliceAt,
           Together, Pair, HandshakePair, EchoPair, NegoPair, TxPair
  <2> QED BY <2>4, <2>6, <2>7, <2>8 DEF Inv
<1>6. ASSUME AliceRecvSessionAck PROVE Inv'
  <2> DEFINE next == IF OT THEN "RecvNegoRequest" ELSE "RecvTxRequest"
  <2>1. /\ pc["Alice"] = "RecvSessionAck" /\ state["Alice"] = "SessionAckWait"
        /\ recvMsg("Alice") /\ Chosen /\ Mode \in NetModes
    BY <1>6 DEF Inv, AliceRecvSessionAck, recvSessMsg, AliceLocal, AliceAt, AliceData
  <2>2. Head(inbox["Alice"]) = Ack
    BY <2>1, SeqFacts DEF Inv, recvMsg, First, Empty, AliceLocal, AliceAt
  <2>3. Ack.typ = "SessionAck" /\ Ack.id = Num /\ Ack.mode = Mode
    BY MsgFacts
  <2>4. CASE Num = 0
    <3>1. Abort("Alice", "zeroID") /\ UNCHANGED <<session, params, ack, link, faults, offer, want>>
      BY <1>6, <2>1, <2>2, <2>3, <2>4 DEF AliceRecvSessionAck
    <3>2. inbox' \in [Roles -> Seq(Msgs)] /\ inbox'["Bob"] = inbox["Bob"]
      BY <2>1, HeadTailProperties DEF Inv, TypeOK, recvMsg, Roles
    <3> QED BY <3>1, <3>2, AbortInv DEF Inv, TypeOK, Roles, Peer
  <2>5. CASE Num # 0
    <3>1. /\ session' = [session EXCEPT !["Alice"] = [id |-> Num, mode |-> Mode]]
          /\ SetState("Alice", "SessionEstablished")
          /\ Goto("Alice", IF AliceTxFor(params["Alice"]) \in OTPrograms
                           THEN "RecvNegoRequest" ELSE "RecvTxRequest")
          /\ UNCHANGED <<params, ack, link, faults, offer, want>>
      BY <1>6, <2>1, <2>2, <2>3, <2>5 DEF AliceRecvSessionAck, Num
    <3>2. Num \in SessIDs /\ (OT <=> AliceTxFor(params["Alice"]) \in OTPrograms)
      BY <2>1, ChoiceType DEF Inv, NetModes, modeMax
    <3>3. Call("Alice", next, "SessionEstablished")
      BY <2>1, <3>1, <3>2 DEF Inv, TypeOK, Goto, SetState, Call, Roles, AliceCalls, NodeStates
    <3>4. /\ TypeOK' /\ NoProtocolError' /\ Moves("Alice", next, "SessionEstablished")
          /\ Takes("Alice")
      BY <2>1, <3>3, RecvCall DEF Inv, Roles
    <3>5. session'["Alice"] = [id |-> Num, mode |-> Mode] /\ session'["Bob"] = session["Bob"]
      BY <3>1 DEF Inv, TypeOK, Roles
    <3>6. AliceLocal' /\ AliceData' /\ Unanswered'
      BY <2>1, <2>5, <3>1, <3>4, <3>5, SeqFacts, ChoiceStable
         DEF Inv, Moves, Takes, Peer, AliceLocal, AliceAt, AliceData, Unanswered
    <3>7. BobLocal' /\ BobData'
      BY <2>1, <3>1, <3>4, <3>5, SeqFacts, ChoiceStable
         DEF Inv, Moves, Takes, Peer, BobLocal, BobAt, BobData
    <3>8. Together'
      BY <2>1, <3>1, <3>4, SeqFacts, ChoiceStable
         DEF Inv, Moves, Takes, Peer, Together, Pair, HandshakePair, EchoPair, NegoPair, TxPair
    <3> QED BY <3>4, <3>6, <3>7, <3>8 DEF Inv
  <2> QED BY <2>4, <2>5
<1>7. ASSUME BobMkdir PROVE Inv'
  <2> DEFINE next == IF OT THEN "SendNegoRequest" ELSE "SendTxRequest"
  <2>1. /\ pc["Bob"] = "mkdir" /\ state["Bob"] = "SessionEstablished" /\ Chosen
        /\ Mode \in NetModes /\ params["Bob"] = BobParams(Ack, want)
    BY <1>7 DEF Inv, BobMkdir, BobLocal, BobAt, BobData
  <2>2. OT <=> BobTxFor(params["Bob"]) \in OTPrograms
    BY <2>1, ChoiceType, SameProgram DEF Inv, NetModes, modeMax
  <2>3. /\ pc' = [pc EXCEPT !["Bob"] = next]
        /\ UNCHANGED <<state, inbox, outcome, open, session, params, ack, link, faults, offer, want>>
    BY <1>7, <2>2 DEF BobMkdir, Goto, TxFrame
  <2>4. pc'["Bob"] = next /\ pc'["Alice"] = pc["Alice"] /\ TypeOK' /\ NoProtocolError'
    BY <2>3 DEF Inv, TypeOK, NoProtocolError, Roles, BobCalls
  <2>5. AliceLocal' /\ AliceData' /\ Unanswered'
    BY <2>1, <2>3, <2>4, ChoiceStable DEF Inv, AliceLocal, AliceAt, AliceData, Unanswered
  <2>6. BobLocal' /\ BobData'
    BY <2>1, <2>3, <2>4, ChoiceStable DEF Inv, BobLocal, BobAt, BobData
  <2>7. Together'
    BY <2>1, <2>3, <2>4, ChoiceStable DEF Inv, AliceData, Together, Pair, HandshakePair, EchoPair, NegoPair, TxPair
  <2> QED BY <2>4, <2>5, <2>6, <2>7 DEF Inv
<1> QED
  BY <1>1, <1>2, <1>3, <1>4, <1>5, <1>6, <1>7

\* Closing, giving up, failing, and the loss of the connection.
LEMMA EndInv ==
    ASSUME Inv, (\E r \in Roles : Close(r) \/ PeerGone(r) \/ Fail(r)) \/ Break
    PROVE  Inv'
<1>1. ASSUME NEW r \in Roles, Close(r) \/ PeerGone(r) \/ Fail(r) PROVE Inv'
  <2>1. /\ Abort(r, "ok") \/ Abort(r, "gone") \/ Abort(r, "failed")
        /\ UNCHANGED <<session, params, ack, inbox, link, offer, want>>
        /\ faults' \in 0..MaxFaults
    BY <1>1, MaxFaultsAssumption, SMTT(40) DEF Inv, TypeOK, Close, PeerGone, Fail, TxFrame
  <2> QED
    BY <2>1, AbortInv DEF Inv, TypeOK
<1>2. ASSUME Break PROVE Inv'
  <2>1. /\ inbox' = [r \in Roles |-> Empty] /\ link' = "down" /\ faults' \in 0..MaxFaults
        /\ UNCHANGED <<pc, state, session, open, params, ack, outcome, offer, want>>
    BY <1>2, MaxFaultsAssumption DEF Inv, TypeOK, Break, Empty
  <2>2. inbox'["Alice"] = Empty /\ inbox'["Bob"] = Empty /\ inbox' \in [Roles -> Seq(Msgs)]
    BY <2>1, EmptySeq DEF Empty, Roles
  <2>3. TypeOK' /\ NoProtocolError'
    BY <2>1, <2>2 DEF Inv, TypeOK, NoProtocolError
  <2>4. AliceLocal' /\ AliceData'
    BY <2>1, <2>2, ChoiceStable DEF Inv, AliceLocal, AliceAt, AliceData
  <2>5. BobLocal' /\ BobData'
    BY <2>1, <2>2, ChoiceStable DEF Inv, BobLocal, BobAt, BobData
  <2>6. Unanswered' /\ Together'
    BY <2>1, <2>2 DEF Inv, Unanswered, Together
  <2> QED BY <2>3, <2>4, <2>5, <2>6 DEF Inv
<1> QED BY <1>1, <1>2

\* Every step keeps the invariant.
LEMMA NextInv ==
    ASSUME Inv, [Next]_vars
    PROVE  Inv'
<1>1. CASE UNCHANGED vars
  BY <1>1, ChoiceStable
     DEF Inv, TypeOK, NoProtocolError, AliceLocal, AliceAt, BobLocal, BobAt, AliceData, BobData,
         Unanswered, Together, Pair, HandshakePair, EchoPair, NegoPair, TxPair, vars
<1>2. CASE AliceStep
  BY <1>2, HandshakeInv, NegoInv, TxInv, EndInv DEF AliceStep, Roles
<1>3. CASE BobStep
  BY <1>3, HandshakeInv, NegoInv, TxInv, EndInv DEF BobStep, Roles
<1>4. CASE (\E r \in Roles : Fail(r)) \/ Break
  BY <1>4, EndInv
<1> QED
  BY <1>1, <1>2, <1>3, <1>4 DEF Next

-----------------------------------------------------------------------------
\* The invariant holds in every reachable state of a connection.
THEOREM Invariance == Spec => []Inv
<1>1. Inv /\ [Next]_vars => Inv'
  BY NextInv
<1> QED BY <1>1, InitInv, PTL DEF Spec

\* The variables keep their types: in particular no mode that modeToInt refuses and
\* no session number that newSessID did not draw is ever sent or kept by a Node.
THEOREM TypeCorrect == Spec => []TypeOK
<1>1. Inv => TypeOK
  BY DEF Inv
<1> QED BY <1>1, Invariance, PTL

\* Neither side ever meets an error the Node methods reserve for a misused protocol,
\* whatever breaks and whoever gives up: not the wrong state, not an unexpected
\* message, not a negotiation outside the OT modes, not a foreign session number.
THEOREM ProtocolIsFollowed == Spec => []NoProtocolError
<1>1. Inv => NoProtocolError
  BY DEF Inv
<1> QED BY <1>1, Invariance, PTL

\* Two ends that are past the handshake hold the same session number, which is not
\* zero, and the same mode.
THEOREM SessionsAgree == Spec => []SessionAgreement
<1>1. Inv => SessionAgreement
  BY DEF Inv, AliceData, BobData, SessionAgreement, Trading, BobSessionCalls
<1> QED BY <1>1, Invariance, PTL

\* Two ends that are past the handshake run the same program, for the same price and
\* under the same directory name, if printing in hexadecimal undoes what parsing
\* did to the numbers newSessID draws.
THEOREM TradesAgree ==
    ASSUME \A n \in SessNums : PrintHex[ParseHex[n]] = n
    PROVE  Spec => []SameTrade
<1>1. ASSUME Inv, Trading("Alice"), Trading("Bob")
      PROVE  /\ params["Alice"] = params["Bob"]
             /\ AliceTxFor(params["Alice"]) = BobTxFor(params["Bob"])
             /\ AliceTxFor(params["Alice"]) \in Programs
  <2>1. Chosen /\ Mode \in NetModes /\ params["Bob"] = BobParams(Ack, want)
    BY <1>1 DEF Inv, BobData, Trading, BobSessionCalls
  <2>2. PICK n \in SessNums : params["Alice"] = AliceParams(offer, want, n)
    BY <2>1 DEF Chosen
  <2>3. params["Alice"].sess = n
    BY <2>2 DEF AliceParams
  <2>4. /\ params["Bob"].mode = params["Alice"].mode
        /\ params["Bob"].subMode = params["Alice"].subMode
        /\ params["Bob"].ot = params["Alice"].ot
        /\ params["Bob"].price = params["Alice"].price
        /\ params["Bob"].sess = params["Alice"].sess
        /\ BobTxFor(params["Bob"]) = AliceTxFor(params["Alice"])
        /\ AliceTxFor(params["Alice"]) \in Programs
    BY <1>1, <2>1, <2>3, SameProgram DEF Inv
  <2>5. params["Alice"] = params["Bob"]
    BY <2>1, <2>2, <2>4 DEF AliceParams, BobParams
  <2> QED BY <2>4, <2>5
<1>2. Inv => SameTrade
  BY <1>1 DEF SameTrade
<1> QED BY <1>2, Invariance, PTL
=============================================================================
