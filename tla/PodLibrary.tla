----------------------------- MODULE PodLibrary -----------------------------
(***************************************************************************)
(* The wrappers of the pod library (plain_*.go, table_*.go): for each of   *)
(* the ten transaction programs and each side, the library call behind a   *)
(* step of the program, the files of the trade's directory it reads and    *)
(* the ones it writes; what the buyer's session is made from; and the      *)
(* receipts and their signatures, one family of each per contract call     *)
(* (file.go, contract.go).  The library itself is external: a call is      *)
(* known by its name, its inputs and its outputs.                          *)
(***************************************************************************)
EXTENDS PodPrograms, Integers, SequencesExt

\* The values of f, and those of g where f has none.
Over(f, g) == [x \in DOMAIN f \cup DOMAIN g |-> IF x \in DOMAIN f THEN f[x] ELSE g[x]]

\* A library call: its name, the files it reads and those it writes.
Lib(call, in, out) == [call |-> call, in |-> in, out |-> out]

-----------------------------------------------------------------------------
(***************************************************************************)
(* Alice's sessions.                                                       *)
(***************************************************************************)
AliceCalls == [VerifyReq     |-> Lib("OnRequest", {"request"}, {"response"}),
               VerifyReceipt |-> Lib("OnReceipt", {"receipt"}, {"secret"})]

AliceNegoCalls ==
    [GeneNegoResp |-> Lib("OnNegoRequest", {"Bob_nego_request"}, {"Alice_nego_response"}),
     GeneNegoReq  |-> Lib("GetNegoRequest", {}, {"Alice_nego_request"}),
     DealNegoResp |-> Lib("OnNegoResponse", {"Bob_nego_response"}, {})]

PoDAlicePC    == AliceCalls
PoDAlicePAS   == AliceCalls
PoDAlicePASVC == AliceCalls
PoDAliceTC    == AliceCalls
PoDAliceTAS   == AliceCalls
PoDAliceTASVC == AliceCalls
PoDAliceTQ    == AliceCalls
PoDAlicePOC   == Over(AliceCalls, AliceNegoCalls)
PoDAliceTOC   == Over(AliceCalls, AliceNegoCalls)
PoDAliceTOQ   == Over(AliceCalls, AliceNegoCalls)

-----------------------------------------------------------------------------
(***************************************************************************)
(* Bob's sessions.                                                         *)
(***************************************************************************)
BobCalls == [NewReq     |-> Lib("GetRequest", {}, {"request"}),
             VerifyResp |-> Lib("OnResponse", {"response"}, {"receipt"})]

BobDataCalls == [VerifySecret |-> Lib("OnSecret", {"secret"}, {}),
                 Decrypt      |-> Lib("Decrypt", {}, {"output"})]

BobClaimCall == [GeneClaim |-> Lib("GenerateClaim", {}, {"claim"})]

\* A query has no data to decrypt: the positions come with the secret.
BobQueryCall == [VerifySecret |-> Lib("OnSecret", {"secret"}, {"positions"})]

BobNegoCalls ==
    [GeneNegoReq  |-> Lib("GetNegoRequest", {}, {"Bob_nego_request"}),
     GeneNegoResp |-> Lib("OnNegoRequest", {"Alice_nego_request"}, {"Bob_nego_response"}),
     DealNegoResp |-> Lib("OnNegoResponse", {"Alice_nego_response"}, {})]

PoDBobPC    == Over(BobCalls, Over(BobDataCalls, BobClaimCall))
PoDBobTC    == Over(BobCalls, Over(BobDataCalls, BobClaimCall))
PoDBobPAS   == Over(BobCalls, BobDataCalls)
PoDBobPASVC == Over(BobCalls, BobDataCalls)
PoDBobTAS   == Over(BobCalls, BobDataCalls)
PoDBobTASVC == Over(BobCalls, BobDataCalls)
PoDBobTQ    == Over(BobCalls, BobQueryCall)

PoDBobNegoPOC == BobNegoCalls
PoDBobPOC     == Over(PoDBobNegoPOC, Over(BobCalls, Over(BobDataCalls, BobClaimCall)))
PoDBobNegoTOC == BobNegoCalls
PoDBobTOC     == Over(PoDBobNegoTOC, Over(BobCalls, Over(BobDataCalls, BobClaimCall)))
PoDBobTOQ     == Over(BobNegoCalls, Over(BobCalls, BobQueryCall))

PoDAlice(p) ==
    CASE p = "PC"  -> PoDAlicePC  [] p = "POC"   -> PoDAlicePOC
      [] p = "PAS" -> PoDAlicePAS [] p = "PASVC" -> PoDAlicePASVC
      [] p = "TC"  -> PoDAliceTC  [] p = "TOC"   -> PoDAliceTOC
      [] p = "TAS" -> PoDAliceTAS [] p = "TASVC" -> PoDAliceTASVC
      [] p = "TQ"  -> PoDAliceTQ  [] p = "TOQ"   -> PoDAliceTOQ

PoDBob(p) ==
    CASE p = "PC"  -> PoDBobPC  [] p = "POC"   -> PoDBobPOC
      [] p = "PAS" -> PoDBobPAS [] p = "PASVC" -> PoDBobPASVC
      [] p = "TC"  -> PoDBobTC  [] p = "TOC"   -> PoDBobTOC
      [] p = "TAS" -> PoDBobTAS [] p = "TASVC" -> PoDBobTASVC
      [] p = "TQ"  -> PoDBobTQ  [] p = "TOQ"   -> PoDBobTOQ

\* The peer's call whose output a call expects to find in the file it reads.
Answers == [OnRequest |-> "GetRequest", OnResponse |-> "OnRequest", OnReceipt |-> "OnResponse",
            OnSecret |-> "OnReceipt", OnNegoRequest |-> "GetNegoRequest",
            OnNegoResponse |-> "OnNegoRequest"]

-----------------------------------------------------------------------------
(***************************************************************************)
(* What is bought: the demands and, in the OT programs, the phantoms that  *)
(* hide them, each a list of ranges <<start, count>>.  The request file    *)
(* lists the ranges Alice has to serve: "d" for a complaint, "p" for the   *)
(* others.                                                                 *)
(***************************************************************************)
QueryPrograms == {"TQ", "TOQ"}

\* calcuDCnt, calcuPCnt: the number of units in a list of ranges.
RangeCnt(ranges) == FoldLeft(LAMBDA n, r : n + r[2], 0, ranges)

\* Mutant of BobCnt: the OT programs price the demands and not the phantoms.
BobCntDemands(p, demands, phantoms) ==
    IF p \in QueryPrograms THEN 1 ELSE RangeCnt(demands)

\* tx.Count in BobPurchaseDataAPIHandler
BobCnt(p, demands, phantoms) ==
    CASE p \in QueryPrograms   -> 1
      [] p \in {"POC", "TOC"} -> RangeCnt(phantoms)
      [] OTHER                 -> RangeCnt(demands)

\* The request GetRequest writes (external).
RequestD(p, demands, phantoms) == IF p \in {"PC", "TC"} THEN demands ELSE << >>
RequestP(p, demands, phantoms) ==
    CASE p \in {"POC", "TOC"}                     -> phantoms
      [] p \in {"PAS", "PASVC", "TAS", "TASVC"} -> demands
      [] OTHER                                     -> << >>

calcuCntforComplaint(req)   == RangeCnt(req.d)
calcuCntforOtComplaint(req) == RangeCnt(req.p)
calcuCntforAS(req)          == RangeCnt(req.p)
calcuCntforASVC(req)        == RangeCnt(req.p)

AliceCnt(p, req) ==
    CASE p \in {"PC", "TC"}       -> calcuCntforComplaint(req)
      [] p \in {"POC", "TOC"}     -> calcuCntforOtComplaint(req)
      [] p \in {"PAS", "TAS"}     -> calcuCntforAS(req)
      [] p \in {"PASVC", "TASVC"} -> calcuCntforASVC(req)

-----------------------------------------------------------------------------
(***************************************************************************)
(* The receipt as it is read, signed and verified.  blt is the key of the  *)
(* bulletin; a signature is the tuple that is hashed.                      *)
(***************************************************************************)
Family(p) ==
    CASE p \in {"PC", "POC", "TC", "TOC"} -> "complaint"
      [] p \in {"PAS", "TAS"}             -> "atomic_swap"
      [] p \in {"PASVC", "TASVC"}         -> "atomic_swap_vc"
      [] p \in QueryPrograms              -> "vrf"

\* The content of a file: the call that made it, the trade it belongs to, the
\* fields it has, and for a request the ranges it asks for.
Content(call, t, fields, d, p) ==
    [by |-> call, trade |-> t, fields |-> fields, d |-> d, p |-> p]
Nothing == Content("none", 0, {}, << >>, << >>)

Pick(content, fields) == [content EXCEPT !.fields = @ \cap fields]

\* The receipt OnResponse writes (external).
ReceiptFields(p) == CASE Family(p) = "complaint"      -> {"s", "k", "c"}
                      [] Family(p) = "atomic_swap"    -> {"s", "vw", "c"}
                      [] Family(p) = "atomic_swap_vc" -> {"d"}
                      [] Family(p) = "vrf"            -> {"g"}

\* readReceiptFor..: the fields the node takes out of the file.
readReceiptForComplaint(receipt)    == Pick(receipt, {"s", "k", "c"})
readReceiptForAtomicSwap(receipt)   == Pick(receipt, {"s", "vw", "c"})
readReceiptForAtomicSwapVc(receipt) == Pick(receipt, {"d"})
readVRFReceipt(receipt)             == Pick(receipt, {"g"})

readReceipt(p, receipt) ==
    CASE Family(p) = "complaint"      -> readReceiptForComplaint(receipt)
      [] Family(p) = "atomic_swap"    -> readReceiptForAtomicSwap(receipt)
      [] Family(p) = "atomic_swap_vc" -> readReceiptForAtomicSwapVc(receipt)
      [] Family(p) = "vrf"            -> readVRFReceipt(receipt)

signRecptForComplaint(key, alice, sid, receipt, price, expireAt, blt) ==
    <<sid, key, alice, blt, receipt, price, expireAt>>
signRecptForAtomicSwap(key, alice, sid, receipt, price, expireAt) ==
    <<sid, key, alice, receipt, price, expireAt>>
signRecptForAtomicSwapVc(key, alice, sid, receipt, price, expireAt) ==
    <<sid, key, alice, receipt, price, expireAt>>
signRecptForVRFQ(key, alice, sid, receipt, price, expireAt) ==
    <<sid, key, alice, receipt, price, expireAt>>

signRecpt(p, key, alice, sid, receipt, price, expireAt, blt) ==
    CASE Family(p) = "complaint" ->
            signRecptForComplaint(key, alice, sid, receipt, price, expireAt, blt)
      [] Family(p) = "atomic_swap" ->
            signRecptForAtomicSwap(key, alice, sid, receipt, price, expireAt)
      [] Family(p) = "atomic_swap_vc" ->
            signRecptForAtomicSwapVc(key, alice, sid, receipt, price, expireAt)
      [] Family(p) = "vrf" ->
            signRecptForVRFQ(key, alice, sid, receipt, price, expireAt)

\* verifySigntureFor..: tx holds Alice's view of the trade; the price is
\* computed again from the unit price and the count.
verifySigntureForComplaint(tx, sig, receipt, blt) ==
    sig = <<tx.sid, tx.bob, tx.alice, blt, receipt, tx.unitPrice * tx.count, tx.expireAt>>
verifySigntureForAtomicSwap(tx, sig, receipt) ==
    sig = <<tx.sid, tx.bob, tx.alice, receipt, tx.unitPrice * tx.count, tx.expireAt>>
verifySigntureForAtomicSwapVc(tx, sig, receipt) ==
    sig = <<tx.sid, tx.bob, tx.alice, receipt, tx.unitPrice * tx.count, tx.expireAt>>
verifySigntureForVRFQ(tx, sig, receipt) ==
    sig = <<tx.sid, tx.bob, tx.alice, receipt, tx.unitPrice * tx.count, tx.expireAt>>

-----------------------------------------------------------------------------
(***************************************************************************)
(* The secret on its way from Alice's file through the contract to Bob's   *)
(* file.  Each family has its own record in the contract and moves its own *)
(* fields of the secret: the seed "s", the randomness "r".                 *)
(***************************************************************************)
\* The secret OnReceipt writes (external).
SecretFields(p) == CASE Family(p) = "vrf"            -> {"r"}
                     [] Family(p) = "atomic_swap_vc" -> {"s", "r"}
                     [] OTHER                        -> {"s"}

\* What the contract call carries of the secret file; Nothing when the signature
\* is not the buyer's over this trade.
submitScrtForComplaint(tx, sig, receipt, secret, blt) ==
    IF verifySigntureForComplaint(tx, sig, receipt, blt) THEN Pick(secret, {"s"}) ELSE Nothing
submitScrtForAtomicSwap(tx, sig, receipt, secret) ==
    IF verifySigntureForAtomicSwap(tx, sig, receipt) THEN Pick(secret, {"s"}) ELSE Nothing
submitScrtForAtomicSwapVc(tx, sig, receipt, secret) ==
    IF verifySigntureForAtomicSwapVc(tx, sig, receipt) THEN Pick(secret, {"s", "r"}) ELSE Nothing
submitScrtForVRFQ(tx, sig, receipt, secret) ==
    IF verifySigntureForVRFQ(tx, sig, receipt) THEN Pick(secret, {"r"}) ELSE Nothing

submitScrt(p, tx, sig, receipt, secret, blt) ==
    CASE Family(p) = "complaint"      -> submitScrtForComplaint(tx, sig, receipt, secret, blt)
      [] Family(p) = "atomic_swap"    -> submitScrtForAtomicSwap(tx, sig, receipt, secret)
      [] Family(p) = "atomic_swap_vc" -> submitScrtForAtomicSwapVc(tx, sig, receipt, secret)
      [] Family(p) = "vrf"            -> submitScrtForVRFQ(tx, sig, receipt, secret)

\* One round of readScrtFor.. on a record that is there.
readScrtForComplaint(record)    == Pick(record, {"s"})
readScrtForAtomicSwap(record)   == Pick(record, {"s"})
readScrtForAtomicSwapVc(record) == Pick(record, {"s", "r"})
readScrtForVRFQ(record)         == Pick(record, {"r"})

readScrt(p, record) ==
    CASE Family(p) = "complaint"      -> readScrtForComplaint(record)
      [] Family(p) = "atomic_swap"    -> readScrtForAtomicSwap(record)
      [] Family(p) = "atomic_swap_vc" -> readScrtForAtomicSwapVc(record)
      [] Family(p) = "vrf"            -> readScrtForVRFQ(record)

BobSaveSecretForComplaint(secret)    == Pick(secret, {"s"})
BobSaveSecretForAtomicSwap(secret)   == Pick(secret, {"s"})
BobSaveSecretForAtomicSwapVc(secret) == Pick(secret, {"s", "r"})
BobSaveSecretForVRFQ(secret)         == Pick(secret, {"r"})

BobSaveSecret(p, secret) ==
    CASE Family(p) = "complaint"      -> BobSaveSecretForComplaint(secret)
      [] Family(p) = "atomic_swap"    -> BobSaveSecretForAtomicSwap(secret)
      [] Family(p) = "atomic_swap_vc" -> BobSaveSecretForAtomicSwapVc(secret)
      [] Family(p) = "vrf"            -> BobSaveSecretForVRFQ(secret)
=============================================================================
