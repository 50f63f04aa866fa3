------------------------------ MODULE PodTrade ------------------------------
(***************************************************************************)
(* One trade from the accepted session to the end of both programs: the    *)
(* transaction program of each side (module PodPrograms), the rows they    *)
(* leave in their databases, Bob's deposit and the record of the revealed  *)
(* key in the exchange contract.                                           *)
(*                                                                         *)
(* The contract is external: it is modelled by what contract.go sends to   *)
(* it and reads from it.  A message of the peer is delivered once; module  *)
(* PodNet shows that the connection delivers it to the call that waits     *)
(* for it.  Time counts in units of the 600 s the code keeps as a margin.  *)
(***************************************************************************)
EXTENDS PodPrograms, Naturals, Sequences

CONSTANTS
    Progs,          \* programs the session may have agreed on
    Price,          \* what Alice computes from the request and the unit price
    SignedPrices,   \* prices Bob's own count may come to
    MaxDeposit,     \* bound on Bob's deposit
    Margin,         \* the 600 s of calcuDeposit, checkDeposit and the expiry check
    Period,         \* 8 h between bobUnDeposit and withdrawB
    Life,           \* 10 h a receipt is valid
    Rounds,         \* rounds readScrtFor.. polls the contract
    MaxTime,        \* bound on the clock
    MaxFaults       \* bound on failing calls and crashes

ASSUME ProgsAssumption == Progs \subseteq Programs
ASSUME PriceAssumption == Price \in Nat \ {0} /\ SignedPrices \subseteq Nat
ASSUME TimeAssumption ==
    /\ Margin \in Nat /\ Period \in Nat /\ Life \in Nat
    /\ Margin <= Period /\ Period <= Life
ASSUME BoundsAssumption ==
    Rounds \in Nat \ {0} /\ MaxDeposit \in Nat /\ MaxTime \in Nat /\ MaxFaults \in Nat

VARIABLES
    prog,       \* the program both sides run
    todo,       \* todo[r]: calls r's program has left to make
    live,       \* live[r]: "running", "ended", or "crashed" with its process
    status,     \* status[r]: tx.Status
    row,        \* row[r]: status of the row in r's database, "none" before the insert
    sent,       \* the messages sent, as <<sender, call>>
    receipt,    \* price and expiry Bob signed
    dep,        \* Bob's deposit for Alice in the contract
    rec,        \* the key: "none", "pending" once submitted, "mined" or "reverted"
    genuine,    \* the library accepts the key in BobVerifySecret
    polls,      \* polls[r]: rounds of readScrtFor.. done
    now, faults

vars == <<prog, todo, live, status, row, sent, receipt, dep, rec, genuine, polls, now, faults>>

progVars == <<todo, live, status>>
chainVars == <<dep, rec>>

Roles == {"Alice", "Bob"}
Peer(r) == IF r = "Alice" THEN "Bob" ELSE "Alice"

NoReceipt == [price |-> 0, expireAt |-> 0]

\* The call r's program makes next.
At(r, op) == live[r] = "running" /\ todo[r] # << >> /\ Head(todo[r]).op = op

SendOps == {"SendNegoReq", "SendNegoResp", "SendReq", "SendResp", "SendRecpt"}
\* The peer's call whose message a receiving call waits for.
SenderOf == [RcvNegoReq |-> "SendNegoReq", RcvNegoResp |-> "SendNegoResp",
             RcvReq |-> "SendReq", RcvResp |-> "SendResp", RcvRecpt |-> "SendRecpt"]
RecvOps == DOMAIN SenderOf
\* Calls into the pod library and the file system.
LocalOps == {"NewSess", "GeneNegoReq", "GeneNegoResp", "DealNegoResp", "CalcuCnt", "VerifyReq",
             "VerifyReceipt", "NewReq", "VerifyResp", "ReadReceipt", "SaveScrt", "GeneClaim",
             "Decrypt"}

-----------------------------------------------------------------------------
Init ==
    /\ prog \in Progs
    /\ todo = [r \in Roles |-> IF r = "Alice" THEN AliceProgram(prog) ELSE BobProgram(prog)]
    /\ live = [r \in Roles |-> "running"]
    /\ status = [r \in Roles |-> "start"]
    /\ row = [r \in Roles |-> "none"]
    /\ sent = {}
    /\ receipt = NoReceipt
    /\ dep \in [value : {0, MaxDeposit}, stat : {0}, unDepositAt : {0}]
    /\ rec = "none"
    /\ genuine \in BOOLEAN
    /\ polls = [r \in Roles |-> 0]
    /\ now = 0
    /\ faults = 0

Advance(r) ==
    LET ok == Head(todo[r]).ok
    IN  /\ todo' = [todo EXCEPT ![r] = Tail(@)]
        /\ status' = IF ok = "" THEN status ELSE [status EXCEPT ![r] = ok]
        /\ UNCHANGED live

\* The call fails: the program returns with the status of the failure.  Alice's
\* row is only updated from inside her program, which starts after NewSess.
FailStep(r) ==
    LET s == Head(todo[r])
    IN  IF s.op = "InsertTx" \/ (r = "Alice" /\ s.op = "NewSess")
        THEN /\ live' = [live EXCEPT ![r] = "ended"]
             /\ UNCHANGED <<todo, status>>
        ELSE /\ todo' = [todo EXCEPT ![r] = << >>]
             /\ status' = IF s.fail = "" THEN status ELSE [status EXCEPT ![r] = s.fail]
             /\ UNCHANGED live

-----------------------------------------------------------------------------
\* insertAliceTxToDB, insertBobTxToDB
InsertTx(r) ==
    /\ At(r, "InsertTx")
    /\ row' = [row EXCEPT ![r] = "start"]
    /\ Advance(r)
    /\ UNCHANGED <<prog, sent, receipt, chainVars, genuine, polls, now, faults>>

LocalStep(r) ==
    /\ \E op \in LocalOps : At(r, op)
    /\ Advance(r)
    /\ UNCHANGED <<prog, row, sent, receipt, chainVars, genuine, polls, now, faults>>

SendStep(r) ==
    \E op \in SendOps :
        /\ At(r, op)
        /\ sent' = sent \cup {<<r, op>>}
        /\ Advance(r)
        /\ UNCHANGED <<prog, row, receipt, chainVars, genuine, polls, now, faults>>

RecvStep(r) ==
    \E op \in RecvOps :
        /\ At(r, op)
        /\ <<Peer(r), SenderOf[op]>> \in sent
        /\ Advance(r)
        /\ UNCHANGED <<prog, row, sent, receipt, chainVars, genuine, polls, now, faults>>

\* Mutant of PeerGone: a peer that crashed is waited for.
PeerGoneEnded(r) ==
    /\ \E op \in RecvOps \cup SendOps : At(r, op)
    /\ live[Peer(r)] = "ended"
    /\ FailStep(r)
    /\ UNCHANGED <<prog, row, sent, receipt, chainVars, genuine, polls, now, faults>>

\* The peer's program is over: the connection is closed, and what it sent last
\* may be lost with it.
PeerGone(r) ==
    /\ \E op \in RecvOps \cup SendOps : At(r, op)
    /\ live[Peer(r)] # "running"
    /\ FailStep(r)
    /\ UNCHANGED <<prog, row, sent, receipt, chainVars, genuine, polls, now, faults>>

\* Price and ExpireAt, then signRecptFor..
SignRecpt ==
    /\ At("Bob", "SignRecpt")
    /\ \E p \in SignedPrices : receipt' = [price |-> p, expireAt |-> now + Life]
    /\ Advance("Bob")
    /\ UNCHANGED <<prog, row, sent, chainVars, genuine, polls, now, faults>>

\* calcuDeposit, with no other trade of this buyer holding a lock (module
\* DepositLock has several).
DepositSuffices ==
    /\ Price <= dep.value
    /\ dep.stat # 1
    /\ ~(dep.stat = 2 /\ now + Margin > dep.unDepositAt + Period)

CalcuDeposit ==
    /\ At("Alice", "CalcuDeposit")
    /\ IF DepositSuffices THEN Advance("Alice") ELSE FailStep("Alice")
    /\ UNCHANGED <<prog, row, sent, receipt, chainVars, genuine, polls, now, faults>>

\* Mutant of CheckPrice: the price in the receipt is not compared.
CheckPriceNever ==
    /\ At("Alice", "CheckPrice")
    /\ Advance("Alice")
    /\ UNCHANGED <<prog, row, sent, receipt, chainVars, genuine, polls, now, faults>>

CheckPrice ==
    /\ At("Alice", "CheckPrice")
    /\ IF receipt.price = Price THEN Advance("Alice") ELSE FailStep("Alice")
    /\ UNCHANGED <<prog, row, sent, receipt, chainVars, genuine, polls, now, faults>>

CheckExpire ==
    /\ At("Alice", "CheckExpire")
    /\ IF now + Margin > receipt.expireAt THEN FailStep("Alice") ELSE Advance("Alice")
    /\ UNCHANGED <<prog, row, sent, receipt, chainVars, genuine, polls, now, faults>>

\* What checkDeposit answers.
checkDeposit ==
    /\ Price <= dep.value
    /\ ~(dep.unDepositAt # 0 /\ dep.unDepositAt + Period < now + Margin /\ dep.stat = 1)

\* The programs test the error of checkDeposit and not its answer.
CheckDeposit ==
    /\ At("Alice", "CheckDeposit")
    /\ Advance("Alice")
    /\ UNCHANGED <<prog, row, sent, receipt, chainVars, genuine, polls, now, faults>>

\* submitScrtFor..: the key leaves in a transaction that has yet to be mined.
Submit ==
    /\ At("Alice", "Submit")
    /\ rec' = "pending"
    /\ Advance("Alice")
    /\ UNCHANGED <<prog, row, sent, receipt, dep, genuine, polls, now, faults>>

\* Mutant of ReadScrt: a key that is not mined yet is taken for the record.
ReadScrtPending(r) ==
    /\ At(r, "ReadScrt")
    /\ IF polls[r] = Rounds THEN FailStep(r) /\ UNCHANGED polls
       ELSE IF rec # "none" THEN Advance(r) /\ UNCHANGED polls
       ELSE polls' = [polls EXCEPT ![r] = @ + 1] /\ UNCHANGED progVars
    /\ UNCHANGED <<prog, row, sent, receipt, chainVars, genuine, now, faults>>

\* readScrtFor..: Rounds looks at the record, 30 s apart.
ReadScrt(r) ==
    /\ At(r, "ReadScrt")
    /\ IF polls[r] = Rounds THEN FailStep(r) /\ UNCHANGED polls
       ELSE IF rec = "mined" THEN Advance(r) /\ UNCHANGED polls
       ELSE polls' = [polls EXCEPT ![r] = @ + 1] /\ UNCHANGED progVars
    /\ UNCHANGED <<prog, row, sent, receipt, chainVars, genuine, now, faults>>

VerifySecret ==
    /\ At("Bob", "VerifySecret")
    /\ IF genuine THEN Advance("Bob")
       ELSE IF prog \in ComplaintPrograms
       THEN /\ todo' = [todo EXCEPT !["Bob"] = BobClaim]
            /\ status' = [status EXCEPT !["Bob"] = "verifyFailed"]
            /\ UNCHANGED live
       ELSE FailStep("Bob")
    /\ UNCHANGED <<prog, row, sent, receipt, chainVars, genuine, polls, now, faults>>

\* claimToContractForComplaint
Claim ==
    /\ At("Bob", "Claim")
    /\ sent' = sent \cup {<<"Bob", "Claim">>}
    /\ Advance("Bob")
    /\ UNCHANGED <<prog, row, receipt, chainVars, genuine, polls, now, faults>>

\* The deferred updateAliceTxToDB / updateBobTxToDB.
Return(r) ==
    /\ live[r] = "running" /\ todo[r] = << >>
    /\ row' = [row EXCEPT ![r] = status[r]]
    /\ live' = [live EXCEPT ![r] = "ended"]
    /\ UNCHANGED <<prog, todo, status, sent, receipt, chainVars, genuine, polls, now, faults>>

\* Any other error of the call r is at: file, library, database or RPC.
Fail(r) ==
    /\ faults < MaxFaults
    /\ live[r] = "running" /\ todo[r] # << >>
    /\ Head(todo[r]).op \notin {"CheckPrice", "CheckExpire", "VerifySecret"}
    /\ FailStep(r)
    /\ faults' = faults + 1
    /\ UNCHANGED <<prog, row, sent, receipt, chainVars, genuine, polls, now>>

\* Mutant of Crash: the process is started again and makes the trade's calls anew.
CrashResumes(r) ==
    /\ faults < MaxFaults
    /\ live[r] = "running"
    /\ todo' = [todo EXCEPT ![r] = IF r = "Alice" THEN AliceProgram(prog) ELSE BobProgram(prog)]
    /\ faults' = faults + 1
    /\ UNCHANGED <<prog, live, status, row, sent, receipt, chainVars, genuine, polls, now>>

\* The process stops; nothing resumes its trades when it is started again.
Crash(r) ==
    /\ faults < MaxFaults
    /\ live[r] = "running"
    /\ live' = [live EXCEPT ![r] = "crashed"]
    /\ faults' = faults + 1
    /\ UNCHANGED <<prog, todo, status, row, sent, receipt, chainVars, genuine, polls, now>>

-----------------------------------------------------------------------------
(***************************************************************************)
(* The contract (external) and the deposit calls of the buyer's API.       *)
(***************************************************************************)
\* submitProof..: the price is taken from the deposit, or the call reverts.
Mine ==
    /\ rec = "pending"
    /\ IF Price <= dep.value /\ now <= receipt.expireAt
       THEN rec' = "mined" /\ dep' = [dep EXCEPT !.value = @ - Price]
       ELSE rec' = "reverted" /\ UNCHANGED dep
    /\ UNCHANGED <<prog, progVars, row, sent, receipt, genuine, polls, now, faults>>

BobDeposit ==
    /\ dep.stat # 1
    /\ \E v \in 1..(MaxDeposit - dep.value) :
            dep' = [dep EXCEPT !.value = @ + v, !.stat = 0]
    /\ UNCHANGED <<prog, progVars, row, sent, receipt, rec, genuine, polls, now, faults>>

BobUnDeposit ==
    /\ dep.stat = 0
    /\ dep' = [dep EXCEPT !.stat = 1, !.unDepositAt = now]
    /\ UNCHANGED <<prog, progVars, row, sent, receipt, rec, genuine, polls, now, faults>>

BobWithdraw ==
    /\ dep.stat = 1
    /\ now >= dep.unDepositAt + Period
    /\ dep' = [dep EXCEPT !.stat = 2, !.value = 0]
    /\ UNCHANGED <<prog, progVars, row, sent, receipt, rec, genuine, polls, now, faults>>

Tick ==
    /\ now < MaxTime
    /\ now' = now + 1
    /\ UNCHANGED <<prog, progVars, row, sent, receipt, chainVars, genuine, polls, faults>>

-----------------------------------------------------------------------------
AliceStep ==
    \/ InsertTx("Alice") \/ LocalStep("Alice") \/ SendStep("Alice") \/ RecvStep("Alice")
    \/ PeerGone("Alice") \/ CalcuDeposit \/ CheckPrice \/ CheckExpire \/ CheckDeposit
    \/ Submit \/ ReadScrt("Alice") \/ Return("Alice")

BobStep ==
    \/ InsertTx("Bob") \/ LocalStep("Bob") \/ SendStep("Bob") \/ RecvStep("Bob")
    \/ PeerGone("Bob") \/ SignRecpt \/ ReadScrt("Bob") \/ VerifySecret \/ Claim
    \/ Return("Bob")

Next ==
    \/ AliceStep
    \/ BobStep
    \/ \E r \in Roles : Fail(r) \/ Crash(r)
    \/ Mine \/ BobDeposit \/ BobUnDeposit \/ BobWithdraw \/ Tick

\* Each program keeps running; nothing is assumed of the chain or of the user.
Fairness == WF_vars(AliceStep) /\ WF_vars(BobStep)

Spec == Init /\ [][Next]_vars /\ Fairness

-----------------------------------------------------------------------------
Statuses ==
    {"start", "startFailed", "nego", "NegoFailed", "requested", "invalidRequest", "requestFailed",
     "depositNotEnough", "responsed", "generateResponse", "responseFailed", "receiptFailed",
     "receipted", "generateSecret", "generateSecretFailed", "GotSecret", "secretFailed",
     "secretGotFailed", "secretterminated", "claimed", "claimFailed", "verifyFailed",
     "decryptFailed", "closed"}

\* Types of the variables.
TypeOK ==
    /\ prog \in Progs
    /\ live \in [Roles -> {"running", "ended", "crashed"}]
    /\ status \in [Roles -> Statuses]
    /\ row \in [Roles -> Statuses \cup {"none"}]
    /\ sent \subseteq Roles \X (SendOps \cup {"Claim"})
    /\ receipt \in [price : Nat, expireAt : 0..(MaxTime + Life)]
    /\ dep \in [value : 0..MaxDeposit, stat : 0..2, unDepositAt : 0..MaxTime]
    /\ rec \in {"none", "pending", "mined", "reverted"}
    /\ genuine \in BOOLEAN
    /\ polls \in [Roles -> 0..Rounds]
    /\ now \in 0..MaxTime /\ faults \in 0..MaxFaults

\* README.md, requirement {2}: "Bob must submit a correct receipt to get the real
\* key".  Alice sends the key to the contract only for a receipt Bob has signed
\* and sent, over the price she computed herself, whatever program they run.
KeyNeedsReceipt ==
    rec # "none" => <<"Bob", "SendRecpt">> \in sent /\ receipt.price = Price

\* The statuses a side can only be left in after the key was on the chain.
AliceAfter == {"closed"}
BobAfter == {"GotSecret", "verifyFailed", "claimed", "claimFailed", "decryptFailed", "closed"}

\* What a row says of a delivery is so: a trade recorded as closed, or as one
\* whose key was read, verified, decrypted with or complained about, has its key
\* in the contract and is paid.  Bob's verdict is that of the library: closed
\* means the key was accepted, claimed that it was not (complaint modes only).
RecordedAsDelivered ==
    /\ row["Alice"] \in AliceAfter => rec = "mined"
    /\ row["Bob"] \in BobAfter => rec = "mined"
    /\ row["Bob"] = "closed" => genuine
    /\ row["Bob"] = "claimed" => ~genuine /\ prog \in ComplaintPrograms

\* The statuses with which the programs return before the key, or the receipt
\* that entitles Alice to reveal it, has left.
AliceBefore == Statuses \ {"start", "secretFailed", "closed"}
BobBefore == {"startFailed", "nego", "NegoFailed", "requested", "invalidRequest", "requestFailed",
              "responsed", "responseFailed", "receiptFailed"}

\* What a row says of a failure is so: a trade that either side has recorded as
\* failed before the key was due is not paid for, then or later.
RecordedAsFailed ==
    /\ row["Alice"] \in AliceBefore => rec = "none"
    /\ row["Bob"] \in BobBefore => rec = "none"

\* What a row of each side says of the trade, in the words of module FairExchange.
Sale(x) == CASE x \in AliceAfter -> "delivered"
             [] x \in AliceBefore -> "withdrawn"
             [] OTHER -> "open"
Purchase(x) == CASE x = "closed" -> "delivered"
                 [] x = "claimed" -> "claimed"
                 [] x \in BobAfter \ {"closed", "claimed"} -> "paid"
                 [] x \in BobBefore -> "refused"
                 [] OTHER -> "open"

Exchange == INSTANCE FairExchange WITH
    promised <- <<"Bob", "SendRecpt">> \in sent /\ receipt.price = Price,
    key <- rec, good <- genuine, sale <- Sale(row["Alice"]), purchase <- Purchase(row["Bob"])

\* Whatever the programs call, in whatever order the two sides, the chain, the
\* faults and the crashes come, a trade is a fair exchange: one key, for one
\* promise, and records that are true when they are written and final.
IsExchange == Exchange!Spec

\* Alice's withdrawal from a trade looks its row up: a key on the chain always
\* has one, even when the process stopped right after it was sent.
KeyHasRow == rec # "none" => row["Alice"] # "none"

\* Both programs end, whatever fails: receives give up with the peer, and the
\* wait for the key is bounded.
TradeEnds == <>(\A r \in Roles : live[r] # "running")

\* README.md:24: "The data must be delivered when the buyer pays".
PaidIsDelivered ==
    (rec = "mined" /\ live["Bob"] = "ended") => row["Bob"] \in BobAfter

\* The programs return the error "deposit is not enough or expired" at this point
\* (seller_tx.go): a program that goes on to submit has a deposit that checkDeposit
\* accepts.
CheckDepositEnforced ==
    [][(At("Alice", "CheckDeposit") /\ At("Alice", "Submit")') => checkDeposit]_vars
=============================================================================
