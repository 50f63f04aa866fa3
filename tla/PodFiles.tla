------------------------------ MODULE PodFiles ------------------------------
(***************************************************************************)
(* The files of a trade.  Each side keeps the files of a trade in a        *)
(* directory named after the session id Alice drew, and every step of its  *)
(* program moves a content from one file to another: through a call of the *)
(* pod library, a message to the peer, or the contract.  Several trades    *)
(* run at a time, between several sellers and buyers, and the sellers draw *)
(* their ids independently.  The module runs the programs of PodPrograms   *)
(* again, this time for what they do to the files and to the values they   *)
(* hold; deposits, expiry and statuses are in PodTrade.                    *)
(***************************************************************************)
EXTENDS PodLibrary, FiniteSets

CONSTANTS
    Trades,       \* the trades, 1..n
    Sellers, Buyers,
    SessIDs,      \* the ids newSessID draws from
    Progs,
    UnitPrice,
    DemandSets, PhantomSets,   \* what the buyer may ask for: lists of <<start, count>>
    MaxFaults

ASSUME FilesAssumption ==
    /\ Trades \subseteq Nat \ {0}
    /\ 0 \notin SessIDs
    /\ Progs \subseteq Programs
    /\ UnitPrice \in Nat /\ MaxFaults \in Nat

VARIABLES
    prog,         \* the program of the trades
    genuine,      \* does the library accept the secrets?
    seller,       \* trade -> the node that sells
    buyer,        \* trade -> the node that buys
    order,        \* what the buyer asks for: [demands, phantoms]
    sid,          \* trade -> its session id, 0 before preAliceTx
    todo,         \* trade -> role -> the rest of its program
    dirs,         \* <<node, id>> of the transaction directories
    files,        \* <<node, id, name>> -> content, for the files that exist
    wire,         \* messages: [trade, op, body]
    aliceTx,      \* trade -> Alice's count, price and the receipt's values
    bobTx,        \* trade -> Bob's receipt, price, signature and secret
    record,       \* <<family, seller, buyer, id>> -> the secret in the contract
    faults

vars == <<prog, genuine, seller, buyer, order, sid, todo, dirs, files, wire, aliceTx, bobTx, record,
          faults>>
progVars == <<prog, genuine, seller, buyer, order>>

Roles == {"Alice", "Bob"}
Peer(r) == IF r = "Alice" THEN "Bob" ELSE "Alice"
Node(t, r) == IF r = "Alice" THEN seller[t] ELSE buyer[t]
File(t, r, name) == <<Node(t, r), sid[t], name>>

-----------------------------------------------------------------------------
\* The steps that touch a file, a message, the contract or a value they carry.
SendFiles ==
    [Alice |-> [SendNegoResp |-> <<"Alice_nego_response", "Alice_nego_request">>,
                SendResp     |-> <<"response">>],
     Bob   |-> [SendNegoReq  |-> <<"Bob_nego_request">>,
                SendNegoResp |-> <<"Bob_nego_response">>,
                SendReq      |-> <<"request">>]]

\* Mutant of RcvFiles: the two parts of Alice's negotiation message are swapped.
RcvFilesSwapped ==
    [Alice |-> [RcvNegoReq  |-> <<"Bob_nego_request">>,
                RcvNegoResp |-> <<"Bob_nego_response">>,
                RcvReq      |-> <<"request">>],
     Bob   |-> [RcvNegoResp |-> <<"Alice_nego_request", "Alice_nego_response">>,
                RcvResp     |-> <<"response">>]]

RcvFiles ==
    [Alice |-> [RcvNegoReq  |-> <<"Bob_nego_request">>,
                RcvNegoResp |-> <<"Bob_nego_response">>,
                RcvReq      |-> <<"request">>],
     Bob   |-> [RcvNegoResp |-> <<"Alice_nego_response", "Alice_nego_request">>,
                RcvResp     |-> <<"response">>]]

SentBy == [RcvNegoReq |-> "SendNegoReq", RcvNegoResp |-> "SendNegoResp", RcvReq |-> "SendReq",
           RcvResp |-> "SendResp", RcvRecpt |-> "SendRecpt"]

Wrapper(r) == IF r = "Alice" THEN PoDAlice(prog) ELSE PoDBob(prog)

\* The calls of the programs that leave the files and these values alone: the row, the
\* library's session, and the two checks before the submission.
Quiet == {"InsertTx", "NewSess", "CheckExpire", "CheckDeposit"}

\* The directory is made before the program runs.
FileProgram(r, p) ==
    <<St("Mkdir", "", "")>> \o (IF r = "Alice" THEN AliceProgram(p) ELSE BobProgram(p))

\* The call a side is about to make.
Call(t, r) == IF todo[t][r] = << >> THEN "none" ELSE Head(todo[t][r]).op
At(t, r, op) == Call(t, r) = op
Advance(t, r) == todo' = [todo EXCEPT ![t][r] = Tail(@)]
Stop(t, r) == todo' = [todo EXCEPT ![t][r] = << >>]

NoAliceTx == [count |-> 1, price |-> 0, sign |-> << >>, signPrice |-> 0, expireAt |-> 0]
NoBobTx == [receipt |-> Nothing, price |-> 0, sign |-> << >>, secret |-> Nothing]

Init ==
    /\ prog \in Progs
    /\ genuine \in BOOLEAN
    /\ seller \in [Trades -> Sellers]
    /\ buyer \in [Trades -> Buyers]
    /\ order \in [demands : DemandSets, phantoms : PhantomSets]
    /\ sid = [t \in Trades |-> 0]
    /\ todo = [t \in Trades |-> [r \in Roles |-> FileProgram(r, prog)]]
    /\ dirs = {}
    /\ files = << >>
    /\ wire = {}
    /\ aliceTx = [t \in Trades |-> NoAliceTx]
    /\ bobTx = [t \in Trades |-> NoBobTx]
    /\ record = << >>
    /\ faults = 0

-----------------------------------------------------------------------------
\* Mutant of AliceMkdir: a directory that is there already is used (MkdirAll).
AliceMkdirAll(t) ==
    /\ At(t, "Alice", "Mkdir")
    /\ \E id \in SessIDs :
            /\ dirs' = dirs \cup {<<seller[t], id>>}
            /\ sid' = [sid EXCEPT ![t] = id]
            /\ Advance(t, "Alice")
    /\ UNCHANGED <<progVars, files, wire, aliceTx, bobTx, record, faults>>

\* preAliceTx: newSessID and os.Mkdir, which fails when the directory exists: the session is
\* then not acknowledged and there is no trade.
AliceMkdir(t) ==
    /\ At(t, "Alice", "Mkdir")
    /\ \E id \in SessIDs :
            IF <<seller[t], id>> \in dirs
            THEN todo' = [todo EXCEPT ![t] = [r \in Roles |-> << >>]] /\ UNCHANGED <<sid, dirs>>
            ELSE /\ dirs' = dirs \cup {<<seller[t], id>>}
                 /\ sid' = [sid EXCEPT ![t] = id]
                 /\ Advance(t, "Alice")
    /\ UNCHANGED <<progVars, files, wire, aliceTx, bobTx, record, faults>>

\* preBobConn: Bob makes his directory for the id Alice acknowledged.
BobMkdir(t) ==
    /\ At(t, "Bob", "Mkdir") /\ sid[t] # 0
    /\ IF <<buyer[t], sid[t]>> \in dirs
       THEN Stop(t, "Bob") /\ UNCHANGED dirs
       ELSE dirs' = dirs \cup {<<buyer[t], sid[t]>>} /\ Advance(t, "Bob")
    /\ UNCHANGED <<progVars, sid, files, wire, aliceTx, bobTx, record, faults>>

\* A secret that the library rejects sends a complaint program to its claim and ends
\* the others.
Reject(t) ==
    todo' = [todo EXCEPT ![t]["Bob"] = IF prog \in ComplaintPrograms THEN BobClaim ELSE << >>]

\* What a call of the library makes.
Made(call, t) ==
    CASE call = "GetRequest" -> Content(call, t, {}, RequestD(prog, order.demands, order.phantoms),
                                                     RequestP(prog, order.demands, order.phantoms))
      [] call = "OnResponse" -> Content(call, t, ReceiptFields(prog), << >>, << >>)
      [] call = "OnReceipt"  -> Content(call, t, SecretFields(prog), << >>, << >>)
      [] OTHER               -> Content(call, t, {}, << >>, << >>)

\* A call of the library: it writes its outputs, made from what it reads.
LibraryCall(t, r) ==
    /\ Call(t, r) \in DOMAIN Wrapper(r)
    /\ LET w == Wrapper(r)[Call(t, r)]
       IN  IF \A name \in w.in : File(t, r, name) \in DOMAIN files
           THEN IF At(t, r, "VerifySecret") /\ ~genuine
                THEN Reject(t) /\ UNCHANGED files
                ELSE /\ files' = Over([f \in {File(t, r, name) : name \in w.out} |-> Made(w.call, t)], files)
                     /\ Advance(t, r)
           ELSE Stop(t, r) /\ UNCHANGED files
    /\ UNCHANGED <<progVars, sid, dirs, wire, aliceTx, bobTx, record, faults>>

\* AliceSend.., BobSend..: the files of the message, in the order of its parts.
SendMsg(t, r) ==
    /\ Call(t, r) \in DOMAIN SendFiles[r]
    /\ LET names == SendFiles[r][Call(t, r)]
       IN  /\ \A i \in DOMAIN names : File(t, r, names[i]) \in DOMAIN files
           /\ wire' = wire \cup {[trade |-> t, from |-> r, op |-> Call(t, r),
                                  body |-> [i \in DOMAIN names |-> files[File(t, r, names[i])]]]}
    /\ Advance(t, r)
    /\ UNCHANGED <<progVars, sid, dirs, files, aliceTx, bobTx, record, faults>>

\* AliceRcv.., BobRcv..: the parts of the message are saved; the file need not be new.
RcvMsg(t, r) ==
    /\ Call(t, r) \in DOMAIN RcvFiles[r]
    /\ \E m \in wire :
            LET names == RcvFiles[r][Call(t, r)]
            IN  /\ m.trade = t /\ m.from = Peer(r) /\ m.op = SentBy[Call(t, r)]
                /\ files' = Over([f \in {File(t, r, names[i]) : i \in DOMAIN names} |->
                                m.body[CHOOSE i \in DOMAIN names : names[i] = f[3]]], files)
    /\ Advance(t, r)
    /\ UNCHANGED <<progVars, sid, dirs, wire, aliceTx, bobTx, record, faults>>

\* The peer has stopped before sending what r waits for.
PeerGone(t, r) ==
    /\ Call(t, r) \in DOMAIN SentBy
    /\ ~\E m \in wire : m.trade = t /\ m.from = Peer(r) /\ m.op = SentBy[Call(t, r)]
    /\ todo[t][Peer(r)] = << >>
    /\ Stop(t, r)
    /\ UNCHANGED <<progVars, sid, dirs, files, wire, aliceTx, bobTx, record, faults>>

-----------------------------------------------------------------------------
\* InsertTx, the library's new session, and the checks of expiry and deposit.
Pass(t, r) ==
    /\ Call(t, r) \in Quiet
    /\ Advance(t, r)
    /\ UNCHANGED <<progVars, sid, dirs, files, wire, aliceTx, bobTx, record, faults>>

\* calcuCntfor..; the count of a query stays 1.
CalcuCnt(t) ==
    /\ At(t, "Alice", "CalcuCnt")
    /\ aliceTx' = [aliceTx EXCEPT ![t].count = AliceCnt(prog, files[File(t, "Alice", "request")])]
    /\ Advance(t, "Alice")
    /\ UNCHANGED <<progVars, sid, dirs, files, wire, bobTx, record, faults>>

\* tx.Price, before the deposit is looked at.
CalcuPrice(t) ==
    /\ At(t, "Alice", "CalcuDeposit")
    /\ aliceTx' = [aliceTx EXCEPT ![t].price =
                        IF prog \in QueryPrograms THEN UnitPrice ELSE UnitPrice * aliceTx[t].count]
    /\ Advance(t, "Alice")
    /\ UNCHANGED <<progVars, sid, dirs, files, wire, bobTx, record, faults>>

\* readReceiptFor..: Bob keeps the bytes of the receipt file.
ReadReceipt(t) ==
    /\ At(t, "Bob", "ReadReceipt")
    /\ bobTx' = [bobTx EXCEPT ![t].receipt = files[File(t, "Bob", "receipt")]]
    /\ Advance(t, "Bob")
    /\ UNCHANGED <<progVars, sid, dirs, files, wire, aliceTx, record, faults>>

\* The expiry is a time of this trade: the trade stands for it.
ExpireAt(t) == t

\* tx.Price and signRecptFor..
SignRecpt(t) ==
    /\ At(t, "Bob", "SignRecpt")
    /\ LET price == UnitPrice * BobCnt(prog, order.demands, order.phantoms)
       IN  bobTx' = [bobTx EXCEPT
                ![t].price = price,
                ![t].sign = signRecpt(prog, buyer[t], seller[t], sid[t],
                                      readReceipt(prog, bobTx[t].receipt), price, ExpireAt(t), "blt")]
    /\ Advance(t, "Bob")
    /\ UNCHANGED <<progVars, sid, dirs, files, wire, aliceTx, record, faults>>

\* BobSendPODRecpt
SendRecpt(t) ==
    /\ At(t, "Bob", "SendRecpt")
    /\ wire' = wire \cup {[trade |-> t, from |-> "Bob", op |-> "SendRecpt",
                           body |-> <<bobTx[t].receipt, bobTx[t].sign, bobTx[t].price, ExpireAt(t)>>]}
    /\ Advance(t, "Bob")
    /\ UNCHANGED <<progVars, sid, dirs, files, aliceTx, bobTx, record, faults>>

\* AliceRcvPODRecpt: the receipt is saved, the signature, price and expiry are held.
RcvRecpt(t) ==
    /\ At(t, "Alice", "RcvRecpt")
    /\ \E m \in wire :
            /\ m.trade = t /\ m.op = "SendRecpt"
            /\ files' = Over([f \in {File(t, "Alice", "receipt")} |-> m.body[1]], files)
            /\ aliceTx' = [aliceTx EXCEPT
                    ![t].sign = m.body[2], ![t].signPrice = m.body[3], ![t].expireAt = m.body[4]]
    /\ Advance(t, "Alice")
    /\ UNCHANGED <<progVars, sid, dirs, wire, bobTx, record, faults>>

CheckPrice(t) ==
    /\ At(t, "Alice", "CheckPrice")
    /\ IF aliceTx[t].signPrice = aliceTx[t].price THEN Advance(t, "Alice") ELSE Stop(t, "Alice")
    /\ UNCHANGED <<progVars, sid, dirs, files, wire, aliceTx, bobTx, record, faults>>

\* Alice's view of the trade as submitScrtFor.. gets it.
TxOf(t) == [sid |-> sid[t], bob |-> buyer[t], alice |-> seller[t], unitPrice |-> UnitPrice,
            count |-> aliceTx[t].count, expireAt |-> aliceTx[t].expireAt]
RecordOf(t) == <<Family(prog), seller[t], buyer[t], sid[t]>>

Submitted(t) ==
    submitScrt(prog, TxOf(t), aliceTx[t].sign,
               readReceipt(prog, files[File(t, "Alice", "receipt")]), files[File(t, "Alice", "secret")], "blt")

\* submitScrtFor..; the contract (external) keeps one record for each pair of
\* parties and id.
Submit(t) ==
    /\ At(t, "Alice", "Submit")
    /\ IF Submitted(t) = Nothing THEN Stop(t, "Alice") /\ UNCHANGED record
       ELSE /\ record' = Over(record, [k \in {RecordOf(t)} |-> Submitted(t)])
            /\ Advance(t, "Alice")
    /\ UNCHANGED <<progVars, sid, dirs, files, wire, aliceTx, bobTx, faults>>

\* readScrtFor..: both sides wait for the record.
ReadScrt(t, r) ==
    /\ At(t, r, "ReadScrt")
    /\ RecordOf(t) \in DOMAIN record
    /\ bobTx' = IF r = "Alice" THEN bobTx
                ELSE [bobTx EXCEPT ![t].secret = readScrt(prog, record[RecordOf(t)])]
    /\ Advance(t, r)
    /\ UNCHANGED <<progVars, sid, dirs, files, wire, aliceTx, record, faults>>

\* readScrtFor.. gives up after its rounds; only a seller that has stopped leaves
\* the record out for good.
ReadScrtTimeout(t, r) ==
    /\ At(t, r, "ReadScrt")
    /\ RecordOf(t) \notin DOMAIN record /\ todo[t]["Alice"] = << >>
    /\ Stop(t, r)
    /\ UNCHANGED <<progVars, sid, dirs, files, wire, aliceTx, bobTx, record, faults>>

\* BobSaveSecretFor..
SaveScrt(t) ==
    /\ At(t, "Bob", "SaveScrt")
    /\ files' = Over([f \in {File(t, "Bob", "secret")} |-> BobSaveSecret(prog, bobTx[t].secret)], files)
    /\ Advance(t, "Bob")
    /\ UNCHANGED <<progVars, sid, dirs, wire, aliceTx, bobTx, record, faults>>

\* claimToContractForComplaint: readClaim, then the call.
Claim(t) ==
    /\ At(t, "Bob", "Claim")
    /\ IF File(t, "Bob", "claim") \in DOMAIN files
       THEN wire' = wire \cup {[trade |-> t, from |-> "Bob", op |-> "Claim",
                                body |-> <<files[File(t, "Bob", "claim")]>>]}
       ELSE UNCHANGED wire
    /\ Advance(t, "Bob")
    /\ UNCHANGED <<progVars, sid, dirs, files, aliceTx, bobTx, record, faults>>

\* An error or the end of the process: the program stops, its directory stays.
Fault(t, r) ==
    /\ faults < MaxFaults
    /\ todo[t][r] # << >> /\ ~At(t, r, "Mkdir")
    /\ Stop(t, r)
    /\ faults' = faults + 1
    /\ UNCHANGED <<progVars, sid, dirs, files, wire, aliceTx, bobTx, record>>

AliceStep(t) ==
    \/ AliceMkdir(t) \/ LibraryCall(t, "Alice") \/ SendMsg(t, "Alice") \/ RcvMsg(t, "Alice")
    \/ PeerGone(t, "Alice") \/ CalcuCnt(t) \/ CalcuPrice(t) \/ RcvRecpt(t) \/ CheckPrice(t) \/ Submit(t)
    \/ ReadScrt(t, "Alice") \/ Pass(t, "Alice")

BobStep(t) ==
    \/ BobMkdir(t) \/ LibraryCall(t, "Bob") \/ SendMsg(t, "Bob") \/ RcvMsg(t, "Bob")
    \/ PeerGone(t, "Bob") \/ ReadReceipt(t) \/ SignRecpt(t) \/ SendRecpt(t) \/ ReadScrt(t, "Bob")
    \/ ReadScrtTimeout(t, "Bob") \/ SaveScrt(t) \/ Claim(t)
    \/ Pass(t, "Bob")

Next == \E t \in Trades : AliceStep(t) \/ BobStep(t) \/ \E r \in Roles : Fault(t, r)

Fairness == \A t \in Trades : WF_vars(AliceStep(t)) /\ WF_vars(BobStep(t))

Spec == Init /\ [][Next]_vars /\ Fairness

-----------------------------------------------------------------------------
\* Types of the variables: a file is always in a directory that was made.
TypeOK ==
    /\ prog \in Progs
    /\ seller \in [Trades -> Sellers] /\ buyer \in [Trades -> Buyers]
    /\ sid \in [Trades -> SessIDs \cup {0}]
    /\ dirs \subseteq (Sellers \cup Buyers) \X SessIDs
    /\ \A f \in DOMAIN files : <<f[1], f[2]>> \in dirs
    /\ faults \in 0..MaxFaults

\* The call whose inputs r is about to hand to the library finds in its directory
\* what the peer's matching call of the same trade made, complete and in the right
\* file: through the messages, the two parts of the negotiation answer, and the
\* secret's way over the contract (plain_*.go, table_*.go, connection.go).
InputsMatch ==
    \A t \in Trades, r \in Roles :
        Call(t, r) \in DOMAIN Wrapper(r) =>
            LET w == Wrapper(r)[Call(t, r)]
            IN  \A name \in w.in :
                    LET f == File(t, r, name)
                    IN  /\ f \in DOMAIN files
                        /\ files[f].by = Answers[w.call] /\ files[f].trade = t
                        /\ w.call = "OnSecret" => files[f].fields = SecretFields(prog)
                        /\ w.call = "OnReceipt" => files[f].fields = ReceiptFields(prog)

\* The files of a directory are of one trade, even when two trades draw the same
\* id: both sides make the directory of a trade themselves (os.Mkdir).
DirOfOneTrade ==
    \A f, g \in DOMAIN files :
        (f[1] = g[1] /\ f[2] = g[2]) => files[f].trade = files[g].trade

\* Two honest sides agree on the price and on what is signed: the price Bob takes
\* from his demands or phantoms is the one Alice takes from the request file, and
\* the tuple Alice hashes is the tuple Bob signed.
SidesAgree ==
    \A t \in Trades :
        /\ At(t, "Alice", "CheckPrice") => aliceTx[t].signPrice = aliceTx[t].price
        /\ At(t, "Alice", "Submit") => Submitted(t) # Nothing

\* What the buyer ends with.
Result(t) ==
    IF prog \in QueryPrograms THEN File(t, "Bob", "positions") \in DOMAIN files
    ELSE File(t, "Bob", "output") \in DOMAIN files

\* A trade in which no call fails, with an id of its own, delivers the data
\* (or the claim, when the library rejects the secret): no program waits for
\* a message, file or record of another name than the one its peer makes.
Delivers ==
    \A t \in Trades :
        <>(\/ faults > 0 \/ \E u \in Trades \ {t} : buyer[u] = buyer[t] /\ sid[u] = sid[t] /\ sid[t] # 0
           \/ /\ todo[t]["Alice"] = << >> /\ todo[t]["Bob"] = << >>
              /\ \/ sid[t] = 0
                 \/ IF genuine THEN Result(t)
                    ELSE prog \in ComplaintPrograms =>
                            \E m \in wire : m.trade = t /\ m.op = "Claim")
=============================================================================
