---------------------------- MODULE PodPrograms -----------------------------
(***************************************************************************)
(* The transaction programs of seller_tx.go and buyer_tx.go.  A program is *)
(* the list of calls that can fail, each with the status the transaction   *)
(* is left in when the call fails (the program then returns) and the one   *)
(* it gets when the call succeeds; "" leaves the status as it is.  Module  *)
(* PodTrade runs the programs of both sides.                               *)
(***************************************************************************)
EXTENDS PodModes, Sequences

St(op, fail, ok) == [op |-> op, fail |-> fail, ok |-> ok]

ComplaintPrograms == {"PC", "POC", "TC", "TOC"}

-----------------------------------------------------------------------------
(***************************************************************************)
(* Alice.  Every program runs after AliceAcceptTx has inserted the row of  *)
(* the transaction and made the library session; a failure in these two    *)
(* calls leaves the row as it is.                                          *)
(***************************************************************************)
\* Mutant of AliceBegin: the row is not inserted.
AliceBeginNoRow == <<St("NewSess", "", "")>>

AliceBegin == <<St("InsertTx", "", "start"), St("NewSess", "", "")>>

AliceNego == <<St("RcvNegoReq",   "NegoFailed", ""),
               St("GeneNegoResp", "NegoFailed", ""),
               St("GeneNegoReq",  "NegoFailed", ""),
               St("SendNegoResp", "NegoFailed", ""),
               St("RcvNegoResp",  "NegoFailed", ""),
               St("DealNegoResp", "NegoFailed", "nego")>>

AliceRequest == <<St("RcvReq", "requestFailed", "requested"),
                  St("CalcuCnt", "", ""),
                  St("CalcuDeposit", "depositNotEnough", "")>>

AliceRespond(verified, receipted) ==
    <<St("VerifyReq",  "invalidRequest", verified),
      St("SendResp",   "responseFailed", "responsed"),
      St("RcvRecpt",   "receiptFailed",  receipted),
      St("CheckPrice", "receiptFailed",  "")>>

\* Mutant of AliceReveal: the expiry is looked at after the key has left.
AliceRevealLateExpire ==
    <<St("CheckDeposit", "secretterminated", ""), St("Submit", "secretFailed", ""),
      St("CheckExpire", "secretterminated", ""), St("ReadScrt", "secretFailed", "closed")>>

AliceReveal == <<St("CheckExpire",  "secretterminated", ""),
                 St("CheckDeposit", "secretterminated", ""),
                 St("Submit",       "secretFailed", ""),
                 St("ReadScrt",     "secretFailed", "closed")>>

\* plain_complaint: the only program that does not call checkDeposit.
AliceTxForPC ==
    AliceBegin \o AliceRequest \o AliceRespond("requested", "receipted")
        \o <<St("VerifyReceipt", "generateSecretFailed", "requested"),
             St("CheckExpire",   "secretterminated", ""),
             St("Submit",        "secretFailed", ""),
             St("ReadScrt",      "secretFailed", "closed")>>

AliceTxForPOC ==
    AliceBegin \o AliceNego \o AliceRequest \o AliceRespond("requested", "receipted")
        \o <<St("VerifyReceipt", "generateSecretFailed", "generateSecret")>> \o AliceReveal

AliceTxForPAS ==
    AliceBegin \o AliceRequest \o AliceRespond("generateResponse", "receipted")
        \o <<St("VerifyReceipt", "generateSecretFailed", "generateSecret")>> \o AliceReveal

AliceTxForPASVC ==
    AliceBegin \o AliceRequest \o AliceRespond("generateResponse", "receipted")
        \o <<St("VerifyReceipt", "generateSecretFailed", "generateSecret")>> \o AliceReveal

AliceTxForTC ==
    AliceBegin \o AliceRequest \o AliceRespond("generateResponse", "receipted")
        \o <<St("VerifyReceipt", "generateSecretFailed", "generateSecret")>> \o AliceReveal

AliceTxForTOC ==
    AliceBegin \o AliceNego \o AliceRequest \o AliceRespond("responsed", "receipted")
        \o <<St("VerifyReceipt", "generateSecretFailed", "generateSecret")>> \o AliceReveal

AliceTxForTAS ==
    AliceBegin \o AliceRequest \o AliceRespond("generateResponse", "receipted")
        \o <<St("VerifyReceipt", "generateSecretFailed", "generateSecret")>> \o AliceReveal

AliceTxForTASVC ==
    AliceBegin \o AliceRequest \o AliceRespond("generateResponse", "receipted")
        \o <<St("VerifyReceipt", "generateSecretFailed", "generateSecret")>> \o AliceReveal

\* The queries cost one unit: the deposit is checked before anything is received.
AliceTxForTQ ==
    AliceBegin \o <<St("CalcuDeposit", "depositNotEnough", ""),
                    St("RcvReq", "requestFailed", "requested")>>
        \o AliceRespond("generateResponse", "receipted")
        \o <<St("VerifyReceipt", "generateSecretFailed", "generateSecret")>> \o AliceReveal

AliceTxForTOQ ==
    AliceBegin \o <<St("CalcuDeposit", "depositNotEnough", "")>> \o AliceNego
        \o <<St("RcvReq", "requestFailed", "requested")>>
        \o AliceRespond("generateResponse", "responsed")
        \o <<St("VerifyReceipt", "receiptFailed", "generateSecret")>> \o AliceReveal

AliceProgram(p) ==
    CASE p = "PC"  -> AliceTxForPC  [] p = "POC"   -> AliceTxForPOC
      [] p = "PAS" -> AliceTxForPAS [] p = "PASVC" -> AliceTxForPASVC
      [] p = "TC"  -> AliceTxForTC  [] p = "TOC"   -> AliceTxForTOC
      [] p = "TAS" -> AliceTxForTAS [] p = "TASVC" -> AliceTxForTASVC
      [] p = "TQ"  -> AliceTxForTQ  [] p = "TOQ"   -> AliceTxForTOQ

-----------------------------------------------------------------------------
(***************************************************************************)
(* Bob.  BobPurchaseDataAPIHandler inserts the row; everything else runs   *)
(* inside the program, which updates the row when it returns.  A secret    *)
(* that does not verify ends the atomic-swap and query programs, and sends *)
(* the complaint programs from VerifySecret to GeneClaim.                  *)
(***************************************************************************)
BobBegin == <<St("InsertTx", "", "start"), St("NewSess", "startFailed", "")>>

BobNego == <<St("GeneNegoReq",  "NegoFailed", ""),
             St("SendNegoReq",  "NegoFailed", ""),
             St("RcvNegoResp",  "NegoFailed", ""),
             St("DealNegoResp", "NegoFailed", ""),
             St("GeneNegoResp", "NegoFailed", ""),
             St("SendNegoResp", "NegoFailed", "nego")>>

BobRequest(newFailed, sendFailed, sent) ==
    <<St("NewReq", newFailed, ""), St("SendReq", sendFailed, sent)>>

BobReceipt == <<St("RcvResp",     "responseFailed", ""),
                St("VerifyResp",  "responseFailed", "responsed"),
                St("ReadReceipt", "receiptFailed",  ""),
                St("SignRecpt",   "receiptFailed",  ""),
                St("SendRecpt",   "receiptFailed",  "receipted")>>

BobSecret(readFailed, saveFailed, saved, verified) ==
    <<St("ReadScrt",     readFailed, ""),
      St("SaveScrt",     saveFailed, saved),
      St("VerifySecret", "verifyFailed", verified)>>

BobDecrypt == <<St("Decrypt", "decryptFailed", "closed")>>

\* The branch of a secret that does not verify, after VerifySecret's "verifyFailed".
BobClaim == <<St("GeneClaim", "claimFailed", ""), St("Claim", "claimFailed", "claimed")>>

BobTxForPC ==
    BobBegin \o BobRequest("invalidRequest", "requestFailed", "requested") \o BobReceipt
        \o BobSecret("secretGotFailed", "secretGotFailed", "GotSecret", "") \o BobDecrypt

BobTxForPOC ==
    BobBegin \o BobNego \o BobRequest("invalidRequest", "requestFailed", "requested") \o BobReceipt
        \o BobSecret("secretGotFailed", "secretGotFailed", "", "GotSecret") \o BobDecrypt

BobTxForPAS ==
    BobBegin \o BobRequest("invalidRequest", "requestFailed", "requested") \o BobReceipt
        \o BobSecret("secretFailed", "secretFailed", "", "GotSecret") \o BobDecrypt

BobTxForPASVC ==
    BobBegin \o BobRequest("invalidRequest", "requestFailed", "requested") \o BobReceipt
        \o BobSecret("secretFailed", "secretFailed", "", "GotSecret") \o BobDecrypt

BobTxForTC ==
    BobBegin \o BobRequest("invalidRequest", "requestFailed", "") \o BobReceipt
        \o BobSecret("secretGotFailed", "secretGotFailed", "GotSecret", "") \o BobDecrypt

BobTxForTOC ==
    BobBegin \o BobNego \o BobRequest("invalidRequest", "requestFailed", "requested") \o BobReceipt
        \o BobSecret("secretFailed", "secretFailed", "GotSecret", "") \o BobDecrypt

BobTxForTAS ==
    BobBegin \o BobRequest("invalidRequest", "requestFailed", "requested") \o BobReceipt
        \o BobSecret("secretGotFailed", "secretFailed", "GotSecret", "") \o BobDecrypt

BobTxForTASVC ==
    BobBegin \o BobRequest("invalidRequest", "requestFailed", "requested") \o BobReceipt
        \o BobSecret("secretGotFailed", "secretFailed", "GotSecret", "") \o BobDecrypt

\* A query has nothing to decrypt: a verified secret closes it.
BobTxForTQ ==
    BobBegin \o BobRequest("invalidRequest", "invalidRequest", "requested") \o BobReceipt
        \o BobSecret("secretGotFailed", "secretGotFailed", "GotSecret", "closed")

BobTxForTOQ ==
    BobBegin \o BobNego \o BobRequest("requestFailed", "requestFailed", "requested") \o BobReceipt
        \o BobSecret("secretGotFailed", "secretGotFailed", "GotSecret", "closed")

BobProgram(p) ==
    CASE p = "PC"  -> BobTxForPC  [] p = "POC"   -> BobTxForPOC
      [] p = "PAS" -> BobTxForPAS [] p = "PASVC" -> BobTxForPASVC
      [] p = "TC"  -> BobTxForTC  [] p = "TOC"   -> BobTxForTOC
      [] p = "TAS" -> BobTxForTAS [] p = "TASVC" -> BobTxForTASVC
      [] p = "TQ"  -> BobTxForTQ  [] p = "TOQ"   -> BobTxForTOQ
=============================================================================
