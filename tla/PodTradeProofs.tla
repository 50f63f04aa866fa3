--------------------------- MODULE PodTradeProofs ---------------------------
(***************************************************************************)
(* PodTrade for any prices, deposits, periods, rounds and faults, and all  *)
(* ten programs.  The properties speak of rows, statuses and the key; what *)
(* makes them true is the order of the calls in the programs.  A call is   *)
(* guarded when another one comes before it in what is left of a program:  *)
(* the guard is either still to be passed or its effect is there.  Each    *)
(* program is shown to have the guards once, from its parts; the steps     *)
(* then only consume them.                                                 *)
(***************************************************************************)
EXTENDS PodTrade, SequenceTheorems, TLAPS

\* The calls the programs make, each with its status on failure and on success.
Ops == {"InsertTx", "NewSess", "RcvNegoReq", "GeneNegoResp", "GeneNegoReq", "SendNegoReq",
        "SendNegoResp", "RcvNegoResp", "DealNegoResp", "RcvReq", "CalcuCnt", "CalcuDeposit",
        "VerifyReq", "SendResp", "RcvRecpt", "CheckPrice", "VerifyReceipt", "CheckExpire",
        "CheckDeposit", "Submit", "ReadScrt", "NewReq", "SendReq", "RcvResp", "VerifyResp",
        "ReadReceipt", "SignRecpt", "SendRecpt", "SaveScrt", "VerifySecret", "Decrypt",
        "GeneClaim", "Claim"}
Calls == [op : Ops, fail : Statuses \cup {""}, ok : Statuses \cup {""}]

\* Before every call of G in s there is a call of a.
Guarded(s, a, G) == \A i \in 1..Len(s) : s[i] \in G => \E j \in 1..(i - 1) : s[j].op = a

-----------------------------------------------------------------------------
(***************************************************************************)
(* Sequences written out, and their concatenation.                         *)
(***************************************************************************)
\* Calls written out one after the other are a sequence of calls: one to six of them.
LEMMA Tuple1 == \A S : \A a \in S : <<a>> \in Seq(S)
OBVIOUS
LEMMA Tuple2 == \A S : \A a, b \in S : <<a, b>> \in Seq(S)
OBVIOUS
LEMMA Tuple3 == \A S : \A a, b, c \in S : <<a, b, c>> \in Seq(S)
OBVIOUS
LEMMA Tuple4 == \A S : \A a, b, c, d \in S : <<a, b, c, d>> \in Seq(S)
OBVIOUS
LEMMA Tuple5 == \A S : \A a, b, c, d, e \in S : <<a, b, c, d, e>> \in Seq(S)
OBVIOUS
LEMMA Tuple6 == \A S : \A a, b, c, d, e, f \in S : <<a, b, c, d, e, f>> \in Seq(S)
OBVIOUS

\* The length and the elements of a sequence that is written out: two to five of them.
LEMMA Items2 == \A a, b : LET u == <<a, b>> IN Len(u) = 2 /\ u[1] = a /\ u[2] = b
OBVIOUS
LEMMA Items3 ==
    \A a, b, c : LET u == <<a, b, c>> IN Len(u) = 3 /\ u[1] = a /\ u[2] = b /\ u[3] = c
OBVIOUS
LEMMA Items4 ==
    \A a, b, c, d : LET u == <<a, b, c, d>>
                    IN  Len(u) = 4 /\ u[1] = a /\ u[2] = b /\ u[3] = c /\ u[4] = d
OBVIOUS
LEMMA Items5 ==
    \A a, b, c, d, e :
        LET u == <<a, b, c, d, e>>
        IN  Len(u) = 5 /\ u[1] = a /\ u[2] = b /\ u[3] = c /\ u[4] = d /\ u[5] = e
OBVIOUS

\* The elements of a concatenation.
LEMMA Concat ==
    ASSUME NEW S, NEW s \in Seq(S), NEW t \in Seq(S)
    PROVE  /\ s \o t \in Seq(S)
           /\ Len(s) \in Nat /\ Len(t) \in Nat /\ Len(s \o t) = Len(s) + Len(t)
           /\ \A i \in 1..Len(s) : (s \o t)[i] = s[i]
           /\ \A i \in 1..Len(t) : (s \o t)[i + Len(s)] = t[i]
           /\ \A i \in 1..Len(s \o t) : i \in 1..Len(s) \/ i - Len(s) \in 1..Len(t)
<1>1. s \o t \in Seq(S) /\ Len(s) \in Nat /\ Len(t) \in Nat /\ Len(s \o t) = Len(s) + Len(t)
  BY ConcatProperties, LenProperties
<1>2. ASSUME NEW i \in 1..Len(t) PROVE (s \o t)[i + Len(s)] = t[i]
  BY <1>1, ConcatProperties
<1> QED BY <1>1, <1>2, ConcatProperties

-----------------------------------------------------------------------------
(***************************************************************************)
(* Guards in sequences.                                                    *)
(***************************************************************************)
\* A guarded call is not the next one.
LEMMA GuardedHead ==
    ASSUME NEW s \in Seq(Calls), s # << >>, NEW a, NEW G, Guarded(s, a, G)
    PROVE  Head(s) \notin G
<1>1. 1 \in 1..Len(s) /\ Head(s) = s[1]
  OBVIOUS
<1>2. \A j \in 1..(1 - 1) : FALSE
  OBVIOUS
<1> QED BY <1>1, <1>2 DEF Guarded

\* A call that is not the guard leaves the guards in place.
LEMMA GuardedTail ==
    ASSUME NEW s \in Seq(Calls), s # << >>, NEW a, NEW G, Guarded(s, a, G), Head(s).op # a
    PROVE  Guarded(Tail(s), a, G)
<1> SUFFICES ASSUME NEW i \in 1..Len(Tail(s)), Tail(s)[i] \in G
             PROVE  \E j \in 1..(i - 1) : Tail(s)[j].op = a
  BY DEF Guarded
<1>1. i + 1 \in 1..Len(s) /\ s[i + 1] = Tail(s)[i] /\ Len(s) \in Nat /\ i \in Nat
  BY HeadTailProperties
<1>2. PICK k \in 1..((i + 1) - 1) : s[k].op = a
  BY <1>1 DEF Guarded
<1>3. k # 1
  BY <1>2
<1>4. k - 1 \in 1..(i - 1) /\ k - 1 \in 1..Len(Tail(s)) /\ Tail(s)[k - 1] = s[k]
  BY <1>1, <1>2, <1>3, HeadTailProperties
<1> QED BY <1>2, <1>4

\* The end of a program needs no guards.
LEMMA GuardedEmpty == \A a, G : Guarded(<< >>, a, G)
BY DEF Guarded

\* What is guarded in both parts, or in the first part with the guard there, is
\* guarded in the whole.
LEMMA GuardedConcat ==
    ASSUME NEW s \in Seq(Calls), NEW t \in Seq(Calls), NEW a, NEW G, Guarded(s, a, G),
           Guarded(t, a, G) \/ \E i \in 1..Len(s) : s[i].op = a
    PROVE  Guarded(s \o t, a, G)
<1> SUFFICES ASSUME NEW i \in 1..Len(s \o t), (s \o t)[i] \in G
             PROVE  \E j \in 1..(i - 1) : (s \o t)[j].op = a
  BY DEF Guarded
<1>1. Len(s) \in Nat /\ Len(t) \in Nat /\ Len(s \o t) = Len(s) + Len(t) /\ i \in Nat
  BY ConcatProperties
<1>2. \A j \in 1..Len(s) : (s \o t)[j] = s[j]
  BY <1>1, ConcatProperties
<1>3. CASE i <= Len(s)
  <2>1. PICK j \in 1..(i - 1) : s[j].op = a
    BY <1>1, <1>2, <1>3 DEF Guarded
  <2> QED BY <2>1, <1>1, <1>2, <1>3
<1>4. CASE i > Len(s) /\ \E j \in 1..Len(s) : s[j].op = a
  BY <1>1, <1>2, <1>4
<1>5. CASE i > Len(s) /\ Guarded(t, a, G)
  <2>1. i - Len(s) \in 1..Len(t) /\ t[i - Len(s)] \in G
    BY <1>1, <1>5, ConcatProperties
  <2>2. PICK j \in 1..((i - Len(s)) - 1) : t[j].op = a
    BY <2>1, <1>5 DEF Guarded
  <2>3. j + Len(s) \in 1..(i - 1) /\ j + Len(s) \in 1..Len(s \o t) /\ j + Len(s) > Len(s)
    BY <1>1, <2>2
  <2>4. (s \o t)[j + Len(s)] = t[(j + Len(s)) - Len(s)]
    BY <2>3, <1>1, ConcatProperties
  <2>5. (j + Len(s)) - Len(s) = j
    BY <1>1
  <2> QED BY <2>2, <2>3, <2>4, <2>5
<1> QED BY <1>1, <1>3, <1>4, <1>5

\* A part without calls of G.
LEMMA Unguarded ==
    ASSUME NEW s \in Seq(Calls), NEW a, NEW G, \A i \in 1..Len(s) : s[i] \notin G
    PROVE  Guarded(s, a, G)
BY DEF Guarded

-----------------------------------------------------------------------------
(***************************************************************************)
(* The seller's programs.                                                  *)
(***************************************************************************)
\* Only the last poll closes a trade.
AliceCalls == {c \in Calls : c.fail # "closed" /\ (c.ok = "closed" => c.op = "ReadScrt")}
CheckingPrice == {c \in Calls : c.op = "CheckPrice"}
Submitting == {c \in Calls : c.op = "Submit"}
Unpaid == AliceCalls \ Submitting
Early == Unpaid \ CheckingPrice

\* After the key was submitted the program polls and ends.
LastPoll == St("ReadScrt", "secretFailed", "closed")
SubmitLast(s) == \A i \in 1..Len(s) : s[i].op = "Submit" => Len(s) = i + 1 /\ s[i + 1] = LastPoll

\* What is left of a seller's program, at any time.
AliceOrder(s) == s \in Seq(AliceCalls) /\ SubmitLast(s)

\* A program up to the receipt and the check of its price.
Priced(s) ==
    /\ s \in Seq(Unpaid) /\ s # << >> /\ Head(s).op = "InsertTx"
    /\ Guarded(s, "RcvRecpt", CheckingPrice)
    /\ \E i \in 1..Len(s) : s[i].op = "CheckPrice"

\* A whole program.
AliceWhole(s) ==
    /\ AliceOrder(s) /\ s # << >> /\ Head(s).op = "InsertTx"
    /\ Guarded(s, "RcvRecpt", CheckingPrice)
    /\ Guarded(s, "CheckPrice", Submitting)

\* A sequence that begins with another one begins with its head.
LEMMA HeadOfConcat ==
    ASSUME NEW S, NEW s \in Seq(S), NEW t \in Seq(S), s # << >>
    PROVE  s \o t \in Seq(S) /\ s \o t # << >> /\ Head(s \o t) = Head(s)
<1>1. s \o t \in Seq(S) /\ Len(s \o t) = Len(s) + Len(t) /\ Len(s) > 0 /\ Len(t) \in Nat
  BY ConcatProperties, LenProperties, EmptySeq
<1>2. (s \o t)[1] = s[1]
  BY <1>1, ConcatProperties
<1> QED BY <1>1, <1>2

\* The parts of the seller's programs before the response.
LEMMA EarlyParts ==
    /\ AliceBegin \in Seq(Early) /\ AliceBegin # << >> /\ Head(AliceBegin).op = "InsertTx"
    /\ AliceNego \in Seq(Early) /\ AliceRequest \in Seq(Early)
    /\ <<St("CalcuDeposit", "depositNotEnough", "")>> \in Seq(Early)
    /\ <<St("RcvReq", "requestFailed", "requested")>> \in Seq(Early)
    /\ <<St("CalcuDeposit", "depositNotEnough", ""),
         St("RcvReq", "requestFailed", "requested")>> \in Seq(Early)
<1>1. /\ St("InsertTx", "", "start") \in Early /\ St("NewSess", "", "") \in Early
      /\ St("InsertTx", "", "start").op = "InsertTx"
  BY DEF St, Early, Unpaid, AliceCalls, CheckingPrice, Submitting, Calls, Ops, Statuses
<1>2. /\ St("RcvNegoReq", "NegoFailed", "") \in Early
      /\ St("GeneNegoResp", "NegoFailed", "") \in Early
      /\ St("GeneNegoReq", "NegoFailed", "") \in Early
      /\ St("SendNegoResp", "NegoFailed", "") \in Early
      /\ St("RcvNegoResp", "NegoFailed", "") \in Early
      /\ St("DealNegoResp", "NegoFailed", "nego") \in Early
  BY ZenonT(60) DEF St, Early, Unpaid, AliceCalls, CheckingPrice, Submitting, Calls, Ops, Statuses
<1>3. /\ St("RcvReq", "requestFailed", "requested") \in Early
      /\ St("CalcuCnt", "", "") \in Early
      /\ St("CalcuDeposit", "depositNotEnough", "") \in Early
  BY ZenonT(60) DEF St, Early, Unpaid, AliceCalls, CheckingPrice, Submitting, Calls, Ops, Statuses
<1>4. AliceBegin \in Seq(Early) /\ AliceBegin # << >> /\ Head(AliceBegin).op = "InsertTx"
  <2>1. AliceBegin \in Seq(Early)
    BY <1>1, Tuple2 DEF AliceBegin
  <2>2. \A a, b : <<a, b>> # << >> /\ Head(<<a, b>>) = a
    OBVIOUS
  <2> QED BY <1>1, <2>1, <2>2 DEF AliceBegin
<1>5. AliceNego \in Seq(Early)
  BY <1>2, Tuple6 DEF AliceNego
<1>6. AliceRequest \in Seq(Early)
  BY <1>3, Tuple3 DEF AliceRequest
<1> QED BY <1>3, <1>4, <1>5, <1>6, Tuple1, Tuple2

\* The response up to the check of the price: the receipt is received before.
LEMMA PricedPart ==
    ASSUME NEW s \in Seq(Early), s # << >>, Head(s).op = "InsertTx",
           NEW verified \in Statuses \ {"closed"}, NEW receipted \in Statuses \ {"closed"}
    PROVE  Priced(s \o AliceRespond(verified, receipted))
<1> DEFINE t == AliceRespond(verified, receipted)
<1>1. /\ t \in Seq(Unpaid) /\ Len(t) = 4
      /\ t[1].op = "VerifyReq" /\ t[2].op = "SendResp"
      /\ t[3].op = "RcvRecpt" /\ t[4].op = "CheckPrice"
  <2>1. /\ St("VerifyReq", "invalidRequest", verified) \in Unpaid
        /\ St("SendResp", "responseFailed", "responsed") \in Unpaid
        /\ St("RcvRecpt", "receiptFailed", receipted) \in Unpaid
        /\ St("CheckPrice", "receiptFailed", "") \in Unpaid
    <3>1. {"invalidRequest", "responseFailed", "responsed", "receiptFailed"} \subseteq Statuses
      BY DEF Statuses
    <3> QED BY <3>1 DEF St, Unpaid, AliceCalls, Submitting, Calls, Ops
  <2>2. t \in Seq(Unpaid)
    BY <2>1, Tuple4 DEF AliceRespond
  <2>3. /\ Len(t) = 4 /\ t[1] = St("VerifyReq", "invalidRequest", verified)
        /\ t[2] = St("SendResp", "responseFailed", "responsed")
        /\ t[3] = St("RcvRecpt", "receiptFailed", receipted)
        /\ t[4] = St("CheckPrice", "receiptFailed", "")
    BY Items4, Zenon DEF AliceRespond
  <2>4. /\ St("VerifyReq", "invalidRequest", verified).op = "VerifyReq"
        /\ St("SendResp", "responseFailed", "responsed").op = "SendResp"
        /\ St("RcvRecpt", "receiptFailed", receipted).op = "RcvRecpt"
        /\ St("CheckPrice", "receiptFailed", "").op = "CheckPrice"
    BY DEF St
  <2>5. /\ t[1].op = "VerifyReq" /\ t[2].op = "SendResp"
        /\ t[3].op = "RcvRecpt" /\ t[4].op = "CheckPrice"
    BY <2>3, <2>4, Zenon
  <2> QED BY <2>2, <2>3, <2>4, <2>5, Zenon
<1> HIDE DEF t
<1>2. Guarded(t, "RcvRecpt", CheckingPrice)
  <2> SUFFICES ASSUME NEW i \in 1..Len(t), t[i] \in CheckingPrice
               PROVE  \E j \in 1..(i - 1) : t[j].op = "RcvRecpt"
    BY DEF Guarded
  <2>1. i = 4
    BY <1>1 DEF CheckingPrice
  <2> QED BY <2>1, <1>1
<1>3. s \in Seq(Calls) /\ t \in Seq(Calls) /\ s \in Seq(Unpaid)
  BY <1>1, SeqMonotonic DEF Early, Unpaid, AliceCalls
<1>4. Guarded(s, "RcvRecpt", CheckingPrice)
  <2>1. \A i \in 1..Len(s) : s[i] \notin CheckingPrice
    BY ElementOfSeq DEF Early
  <2> QED BY <2>1, <1>3, Unguarded
<1>5. Guarded(s \o t, "RcvRecpt", CheckingPrice)
  BY <1>2, <1>3, <1>4, GuardedConcat
<1>6. s \o t \in Seq(Unpaid) /\ s \o t # << >> /\ Head(s \o t) = Head(s)
  BY <1>1, <1>3, HeadOfConcat
<1>7. Len(s) + 4 \in 1..Len(s \o t) /\ (s \o t)[Len(s) + 4].op = "CheckPrice"
  <2>1. Len(s) \in Nat /\ Len(s \o t) = Len(s) + Len(t)
    BY <1>3, Concat, Zenon
  <2>3. 4 \in 1..Len(t)
    BY <1>1
  <2>2. \A i \in 1..Len(t) : (s \o t)[i + Len(s)] = t[i]
    BY <1>3, Concat
  <2> QED BY <2>1, <2>2, <2>3, <1>1
<1> QED BY <1>5, <1>6, <1>7 DEF Priced, t

\* A call that is neither the check nor the submission may follow.
LEMMA PricedOn ==
    ASSUME NEW s, Priced(s), NEW t \in Seq(Early)
    PROVE  Priced(s \o t)
<1>1. s \in Seq(Unpaid) /\ s \in Seq(Calls) /\ t \in Seq(Calls) /\ t \in Seq(Unpaid)
  BY SeqMonotonic DEF Priced, Early, Unpaid, AliceCalls
<1>2. Guarded(t, "RcvRecpt", CheckingPrice)
  <2>1. \A i \in 1..Len(t) : t[i] \notin CheckingPrice
    BY ElementOfSeq DEF Early
  <2> QED BY <2>1, <1>1, Unguarded
<1>3. Guarded(s \o t, "RcvRecpt", CheckingPrice)
  BY <1>1, <1>2, GuardedConcat DEF Priced
<1>4. s \o t \in Seq(Unpaid) /\ s \o t # << >> /\ Head(s \o t) = Head(s)
  BY <1>1, HeadOfConcat DEF Priced
<1>5. \E i \in 1..Len(s \o t) : (s \o t)[i].op = "CheckPrice"
  <2>1. PICK i \in 1..Len(s) : s[i].op = "CheckPrice"
    BY DEF Priced
  <2>2. Len(s) \in Nat /\ Len(t) \in Nat /\ Len(s \o t) = Len(s) + Len(t) /\ (s \o t)[i] = s[i]
    BY <1>1, ConcatProperties, LenProperties
  <2> QED BY <2>1, <2>2
<1> QED BY <1>3, <1>4, <1>5 DEF Priced

\* The key is submitted next to last.
LEMMA RevealPart ==
    ASSUME NEW s, Priced(s), NEW t \in Seq(AliceCalls), SubmitLast(t),
           \A i \in 1..Len(t) : t[i] \notin CheckingPrice
    PROVE  AliceWhole(s \o t)
<1>1. s \in Seq(Unpaid) /\ s \in Seq(AliceCalls) /\ s \in Seq(Calls) /\ t \in Seq(Calls)
  BY SeqMonotonic DEF Priced, Unpaid, AliceCalls
<1>2. /\ Len(s) \in Nat /\ Len(t) \in Nat /\ Len(s \o t) = Len(s) + Len(t)
      /\ \A i \in 1..Len(s) : (s \o t)[i] = s[i]
      /\ \A i \in 1..Len(t) : (s \o t)[i + Len(s)] = t[i]
  <2>1. Len(s) \in Nat /\ Len(t) \in Nat /\ Len(s \o t) = Len(s) + Len(t)
    BY <1>1, ConcatProperties, LenProperties
  <2>2. ASSUME NEW i \in 1..Len(t) PROVE (s \o t)[i + Len(s)] = t[i]
    BY <2>1, <1>1, ConcatProperties
  <2> QED BY <2>1, <2>2, <1>1, ConcatProperties
<1>3. \A i \in 1..Len(s) : s[i].op # "Submit" /\ s[i] \notin Submitting
  BY <1>1, ElementOfSeq DEF Unpaid, Submitting, AliceCalls
<1>4. SubmitLast(s \o t)
  <2> SUFFICES ASSUME NEW i \in 1..Len(s \o t), (s \o t)[i].op = "Submit"
               PROVE  Len(s \o t) = i + 1 /\ (s \o t)[i + 1] = LastPoll
    BY DEF SubmitLast
  <2>1. i > Len(s)
    BY <1>2, <1>3
  <2> DEFINE k == i - Len(s)
  <2>2. k \in 1..Len(t) /\ i = k + Len(s) /\ t[k].op = "Submit"
    BY <2>1, <1>2
  <2>3. Len(t) = k + 1 /\ t[k + 1] = LastPoll
    BY <2>2 DEF SubmitLast
  <2>4. (s \o t)[(k + 1) + Len(s)] = t[k + 1] /\ (k + 1) + Len(s) = i + 1
    BY <2>2, <2>3, <1>2
  <2> QED BY <2>2, <2>3, <2>4, <1>2
<1>5. Guarded(s \o t, "RcvRecpt", CheckingPrice)
  BY <1>1, GuardedConcat, Unguarded DEF Priced
<1>6. Guarded(s \o t, "CheckPrice", Submitting)
  <2>1. Guarded(s, "CheckPrice", Submitting)
    BY <1>1, <1>3, Unguarded
  <2> QED BY <2>1, <1>1, GuardedConcat DEF Priced
<1>7. s \o t \in Seq(AliceCalls) /\ s \o t # << >> /\ Head(s \o t) = Head(s)
  BY <1>1, HeadOfConcat DEF Priced
<1> QED BY <1>4, <1>5, <1>6, <1>7 DEF AliceWhole, AliceOrder, Priced

PlainReveal == <<St("VerifyReceipt", "generateSecretFailed", "requested"),
                 St("CheckExpire",   "secretterminated", ""),
                 St("Submit",        "secretFailed", ""),
                 St("ReadScrt",      "secretFailed", "closed")>>

\* The two ways the seller's programs end.
LEMMA Reveals ==
    \A t \in {AliceReveal, PlainReveal} :
        /\ t \in Seq(AliceCalls) /\ SubmitLast(t)
        /\ \A i \in 1..Len(t) : t[i] \notin CheckingPrice
<1>1. /\ St("CheckExpire", "secretterminated", "") \in AliceCalls
      /\ St("CheckDeposit", "secretterminated", "") \in AliceCalls
      /\ St("VerifyReceipt", "generateSecretFailed", "requested") \in AliceCalls
      /\ St("Submit", "secretFailed", "") \in AliceCalls
      /\ LastPoll \in AliceCalls
  BY DEF St, AliceCalls, Calls, Ops, Statuses, LastPoll
<1>2. ASSUME NEW t \in Seq(AliceCalls), Len(t) = 4,
             t[1].op \notin {"Submit", "CheckPrice"}, t[2].op \notin {"Submit", "CheckPrice"},
             t[3].op = "Submit", t[4] = LastPoll
      PROVE  SubmitLast(t) /\ \A i \in 1..Len(t) : t[i] \notin CheckingPrice
  <2>1. LastPoll.op = "ReadScrt"
    BY DEF LastPoll, St
  <2>2. \A i \in 1..Len(t) : i \in {1, 2, 3, 4}
    BY <1>2
  <2>3. \A i \in 1..Len(t) : t[i].op = "Submit" => i = 3
    BY <1>2, <2>1, <2>2
  <2>4. \A i \in 1..Len(t) : t[i].op # "CheckPrice"
    BY <1>2, <2>1, <2>2
  <2> QED BY <1>2, <2>3, <2>4 DEF SubmitLast, CheckingPrice
<1>3. AliceReveal \in Seq(AliceCalls) /\ PlainReveal \in Seq(AliceCalls)
  BY <1>1, Tuple4 DEF AliceReveal, PlainReveal, LastPoll
<1>4. /\ Len(AliceReveal) = 4 /\ AliceReveal[1] = St("CheckExpire", "secretterminated", "")
      /\ AliceReveal[2] = St("CheckDeposit", "secretterminated", "")
      /\ AliceReveal[3] = St("Submit", "secretFailed", "") /\ AliceReveal[4] = LastPoll
  BY Items4, Zenon DEF AliceReveal, LastPoll
<1>5. /\ Len(PlainReveal) = 4
      /\ PlainReveal[1] = St("VerifyReceipt", "generateSecretFailed", "requested")
      /\ PlainReveal[2] = St("CheckExpire", "secretterminated", "")
      /\ PlainReveal[3] = St("Submit", "secretFailed", "") /\ PlainReveal[4] = LastPoll
  BY Items4, Zenon DEF PlainReveal, LastPoll
<1>10. /\ St("CheckExpire", "secretterminated", "").op = "CheckExpire"
       /\ St("CheckDeposit", "secretterminated", "").op = "CheckDeposit"
       /\ St("Submit", "secretFailed", "").op = "Submit"
       /\ St("VerifyReceipt", "generateSecretFailed", "requested").op = "VerifyReceipt"
  BY DEF St
<1>6. /\ AliceReveal[1].op = "CheckExpire" /\ AliceReveal[2].op = "CheckDeposit"
      /\ AliceReveal[3].op = "Submit"
  BY <1>4, <1>10, Zenon
<1>7. /\ PlainReveal[1].op = "VerifyReceipt" /\ PlainReveal[2].op = "CheckExpire"
      /\ PlainReveal[3].op = "Submit"
  BY <1>5, <1>10, Zenon
<1>8. SubmitLast(AliceReveal) /\ \A i \in 1..Len(AliceReveal) : AliceReveal[i] \notin CheckingPrice
  BY <1>2, <1>3, <1>4, <1>6
<1>9. SubmitLast(PlainReveal) /\ \A i \in 1..Len(PlainReveal) : PlainReveal[i] \notin CheckingPrice
  BY <1>2, <1>3, <1>5, <1>7
<1> QED BY <1>3, <1>8, <1>9

\* The check of the receipt between the price and the submission.
LEMMA VerifyParts ==
    /\ <<St("VerifyReceipt", "generateSecretFailed", "generateSecret")>> \in Seq(Early)
    /\ <<St("VerifyReceipt", "receiptFailed", "generateSecret")>> \in Seq(Early)
<1>1. /\ St("VerifyReceipt", "generateSecretFailed", "generateSecret") \in Early
      /\ St("VerifyReceipt", "receiptFailed", "generateSecret") \in Early
  BY DEF St, Early, Unpaid, AliceCalls, CheckingPrice, Submitting, Calls, Ops, Statuses
<1> QED BY <1>1, Tuple1

\* Every program of the seller checks a received receipt's price before it submits.
LEMMA AlicePrograms == \A p \in Programs : AliceWhole(AliceProgram(p))
<1> DEFINE Begun(s) == s \in Seq(Early) /\ s # << >> /\ Head(s).op = "InsertTx"
<1> DEFINE v == <<St("VerifyReceipt", "generateSecretFailed", "generateSecret")>>
<1> DEFINE w == <<St("VerifyReceipt", "receiptFailed", "generateSecret")>>
<1> DEFINE d == <<St("CalcuDeposit", "depositNotEnough", "")>>
<1> DEFINE q == <<St("RcvReq", "requestFailed", "requested")>>
<1> DEFINE dq == <<St("CalcuDeposit", "depositNotEnough", ""), St("RcvReq", "requestFailed", "requested")>>
<1>1. ASSUME NEW s, Begun(s), NEW t \in Seq(Early) PROVE Begun(s \o t)
  BY <1>1, HeadOfConcat
<1>2. Begun(AliceBegin) /\ AliceNego \in Seq(Early) /\ AliceRequest \in Seq(Early)
  BY EarlyParts
<1>3. d \in Seq(Early) /\ q \in Seq(Early) /\ dq \in Seq(Early)
  BY EarlyParts
<1>4. v \in Seq(Early) /\ w \in Seq(Early)
  BY VerifyParts
<1>5. ASSUME NEW s, Begun(s),
             NEW x \in Statuses \ {"closed"}, NEW y \in Statuses \ {"closed"},
             NEW t \in Seq(Early)
      PROVE  AliceWhole(s \o AliceRespond(x, y) \o t \o AliceReveal)
  BY <1>5, PricedPart, PricedOn, RevealPart, Reveals
<1>6. ASSUME NEW s, Begun(s),
             NEW x \in Statuses \ {"closed"}, NEW y \in Statuses \ {"closed"}
      PROVE  AliceWhole(s \o AliceRespond(x, y) \o PlainReveal)
  BY <1>6, PricedPart, RevealPart, Reveals
<1>7. /\ "requested" \in Statuses \ {"closed"} /\ "receipted" \in Statuses \ {"closed"}
      /\ "generateResponse" \in Statuses \ {"closed"} /\ "responsed" \in Statuses \ {"closed"}
  BY DEF Statuses
<1> HIDE DEF Begun, v, w, d, q, dq
<1>8. /\ Begun(AliceBegin \o AliceRequest) /\ Begun(AliceBegin \o AliceNego \o AliceRequest)
      /\ Begun(AliceBegin \o dq) /\ Begun(AliceBegin \o d \o AliceNego \o q)
  BY <1>1, <1>2, <1>3
<1>9. AliceWhole(AliceTxForPC)
  BY <1>6, <1>7, <1>8 DEF AliceTxForPC, PlainReveal
<1>10. AliceWhole(AliceTxForPOC) /\ AliceWhole(AliceTxForTOC)
  BY <1>4, <1>5, <1>7, <1>8 DEF AliceTxForPOC, AliceTxForTOC, v
<1>11. /\ AliceWhole(AliceTxForPAS) /\ AliceWhole(AliceTxForPASVC) /\ AliceWhole(AliceTxForTC)
       /\ AliceWhole(AliceTxForTAS) /\ AliceWhole(AliceTxForTASVC)
  BY <1>4, <1>5, <1>7, <1>8
     DEF AliceTxForPAS, AliceTxForPASVC, AliceTxForTC, AliceTxForTAS, AliceTxForTASVC, v
<1>12. AliceWhole(AliceTxForTQ)
  BY <1>4, <1>5, <1>7, <1>8 DEF AliceTxForTQ, v, dq
<1>13. AliceWhole(AliceTxForTOQ)
  BY <1>4, <1>5, <1>7, <1>8 DEF AliceTxForTOQ, w, d, q
<1> QED BY <1>9, <1>10, <1>11, <1>12, <1>13 DEF AliceProgram, Programs
-----------------------------------------------------------------------------
(***************************************************************************)
(* The buyer's programs.                                                   *)
(***************************************************************************)
BobCalls == {c \in Calls : c.fail \notin {"closed", "claimed"}}

\* Calls after the receipt has left: the trade is no longer recorded as failed
\* before it, and the receipt is not signed again.
Late == {c \in BobCalls : c.op # "SignRecpt" /\ c.ok \notin BobBefore /\ c.fail \notin BobBefore}

\* Calls that say the key was on the chain, that it was accepted, and that it was not.
Delivering == {c \in Calls : c.op = "VerifySecret" \/ c.ok \in BobAfter \/ c.fail \in BobAfter}
Closing == {c \in Calls : c.op # "VerifySecret" /\ c.ok = "closed"}
Claiming == {c \in Calls : c.ok = "claimed"}

\* What is left of a buyer's program, at any time.
ReceiptOnce(s) ==
    \A i \in 1..Len(s) :
        s[i].op = "SendRecpt" => s[i].ok = "receipted" /\ \A j \in (i + 1)..Len(s) : s[j] \in Late
BobOrder(s) == s \in Seq(BobCalls) /\ ReceiptOnce(s)

\* A whole program.
BobWhole(s) ==
    /\ BobOrder(s)
    /\ Guarded(s, "ReadScrt", Delivering)
    /\ Guarded(s, "VerifySecret", Closing)
    /\ \A i \in 1..Len(s) : s[i] \notin Claiming

\* Up to the receipt nothing is said of the key; the receipt leaves last.
Opening == BobCalls \ Delivering
Plain == {c \in Opening : c.op # "SendRecpt"}
ReceiptAtEnd(s) ==
    /\ s \in Seq(Opening)
    /\ \A i \in 1..Len(s) : s[i].op = "SendRecpt" => i = Len(s) /\ s[i].ok = "receipted"

\* From there on the key is read, then verified, then used.
Quiet == {c \in Late : c.op # "SendRecpt" /\ c \notin Claiming}
Ending(s) ==
    /\ s \in Seq(Quiet)
    /\ Guarded(s, "ReadScrt", Delivering)
    /\ Guarded(s, "VerifySecret", Closing)

\* The parts of the buyer's programs before the response.
LEMMA PlainParts ==
    /\ BobBegin \in Seq(Plain) /\ BobNego \in Seq(Plain)
    /\ \A x \in {"invalidRequest", "requestFailed"}, y \in {"invalidRequest", "requestFailed"},
          z \in {"", "requested"} : BobRequest(x, y, z) \in Seq(Plain)
<1>1. St("InsertTx", "", "start") \in Plain /\ St("NewSess", "startFailed", "") \in Plain
  BY DEF St, Plain, Opening, BobCalls, Delivering, BobAfter, Calls, Ops, Statuses
<1>2. /\ St("GeneNegoReq", "NegoFailed", "") \in Plain
      /\ St("SendNegoReq", "NegoFailed", "") \in Plain
      /\ St("RcvNegoResp", "NegoFailed", "") \in Plain
      /\ St("DealNegoResp", "NegoFailed", "") \in Plain
      /\ St("GeneNegoResp", "NegoFailed", "") \in Plain
      /\ St("SendNegoResp", "NegoFailed", "nego") \in Plain
  BY ZenonT(60) DEF St, Plain, Opening, BobCalls, Delivering, BobAfter, Calls, Ops, Statuses
<1>3. ASSUME NEW x \in {"invalidRequest", "requestFailed"}, NEW y \in {"invalidRequest", "requestFailed"},
             NEW z \in {"", "requested"}
      PROVE  BobRequest(x, y, z) \in Seq(Plain)
  <2>1. St("NewReq", x, "") \in Plain /\ St("SendReq", y, z) \in Plain
    BY ZenonT(60) DEF St, Plain, Opening, BobCalls, Delivering, BobAfter, Calls, Ops, Statuses
  <2> QED BY <2>1, Tuple2 DEF BobRequest
<1> QED BY <1>1, <1>2, <1>3, Tuple2, Tuple6 DEF BobBegin, BobNego

\* The receipt is sent by the last call of its part.
LEMMA ReceiptPart ==
    ASSUME NEW s \in Seq(Plain)
    PROVE  ReceiptAtEnd(s \o BobReceipt)
<1> DEFINE t == BobReceipt
<1>1. /\ St("RcvResp", "responseFailed", "") \in Opening
      /\ St("VerifyResp", "responseFailed", "responsed") \in Opening
      /\ St("ReadReceipt", "receiptFailed", "") \in Opening
      /\ St("SignRecpt", "receiptFailed", "") \in Opening
      /\ St("SendRecpt", "receiptFailed", "receipted") \in Opening
  BY DEF St, Opening, BobCalls, Delivering, BobAfter, Calls, Ops, Statuses
<1>2. t \in Seq(Opening)
  BY <1>1, Tuple5 DEF BobReceipt
<1>3. /\ Len(t) = 5 /\ t[1] = St("RcvResp", "responseFailed", "")
      /\ t[2] = St("VerifyResp", "responseFailed", "responsed")
      /\ t[3] = St("ReadReceipt", "receiptFailed", "")
      /\ t[4] = St("SignRecpt", "receiptFailed", "")
      /\ t[5] = St("SendRecpt", "receiptFailed", "receipted")
  BY Items5, Zenon DEF BobReceipt
<1>4. /\ St("RcvResp", "responseFailed", "").op = "RcvResp"
      /\ St("VerifyResp", "responseFailed", "responsed").op = "VerifyResp"
      /\ St("ReadReceipt", "receiptFailed", "").op = "ReadReceipt"
      /\ St("SignRecpt", "receiptFailed", "").op = "SignRecpt"
      /\ St("SendRecpt", "receiptFailed", "receipted").ok = "receipted"
  BY DEF St
<1>5. /\ Len(t) = 5 /\ t[1].op = "RcvResp" /\ t[2].op = "VerifyResp"
      /\ t[3].op = "ReadReceipt" /\ t[4].op = "SignRecpt" /\ t[5].ok = "receipted"
  BY <1>3, <1>4, Zenon
<1> HIDE DEF t
<1>6. \A i \in 1..Len(t) : t[i].op = "SendRecpt" => i = 5
  <2>1. \A i \in 1..Len(t) : i \in {1, 2, 3, 4, 5}
    BY <1>5
  <2> QED BY <2>1, <1>5
<1>7. s \in Seq(Opening) /\ \A i \in 1..Len(s) : s[i].op # "SendRecpt"
  BY SeqMonotonic, ElementOfSeq DEF Plain
<1>8. /\ s \o t \in Seq(Opening) /\ Len(s) \in Nat /\ Len(s \o t) = Len(s) + 5
      /\ \A i \in 1..Len(s) : (s \o t)[i] = s[i]
      /\ \A i \in 1..Len(t) : (s \o t)[i + Len(s)] = t[i]
  <2>1. /\ s \o t \in Seq(Opening) /\ Len(s) \in Nat /\ Len(s \o t) = Len(s) + Len(t)
        /\ \A i \in 1..Len(s) : (s \o t)[i] = s[i]
        /\ \A i \in 1..Len(t) : (s \o t)[i + Len(s)] = t[i]
    <3>1. s \in Seq(Opening) /\ t \in Seq(Opening)
      BY <1>2, <1>7
    <3> QED BY <3>1, Concat
  <2> QED BY <1>5, <2>1
<1> SUFFICES ASSUME NEW i \in 1..Len(s \o t), (s \o t)[i].op = "SendRecpt"
             PROVE  i = Len(s \o t) /\ (s \o t)[i].ok = "receipted"
  BY <1>8 DEF ReceiptAtEnd, t
<1>9. i > Len(s)
  BY <1>7, <1>8
<1>10. i - Len(s) \in 1..Len(t) /\ (i - Len(s)) + Len(s) = i
  BY <1>5, <1>8, <1>9, SMTT(40)
<1>11. i - Len(s) = 5
  BY <1>6, <1>8, <1>10
<1> QED BY <1>5, <1>8, <1>10, <1>11

\* The key is read, saved and verified, and then used.
LEMMA SecretOrder ==
    ASSUME NEW t \in Seq(Quiet), Len(t) = 3, t[1].op = "ReadScrt", t[3].op = "VerifySecret",
           t[1] \notin Delivering, \A i \in 1..Len(t) : t[i] \notin Closing, NEW u \in Seq(Quiet)
    PROVE  Ending(t) /\ Ending(t \o u)
<1>1. t \in Seq(Calls) /\ u \in Seq(Calls)
  BY SeqMonotonic DEF Quiet, Late, BobCalls
<1>2. Guarded(t, "ReadScrt", Delivering)
  <2> SUFFICES ASSUME NEW i \in 1..Len(t), t[i] \in Delivering
               PROVE  1 \in 1..(i - 1)
    BY DEF Guarded
  <2> QED OBVIOUS
<1>3. Guarded(t, "VerifySecret", Closing)
  BY <1>1, Unguarded
<1>4. 1 \in 1..Len(t) /\ 3 \in 1..Len(t)
  OBVIOUS
<1>5. Guarded(t \o u, "ReadScrt", Delivering) /\ Guarded(t \o u, "VerifySecret", Closing)
  BY <1>1, <1>2, <1>3, <1>4, GuardedConcat
<1>6. t \o u \in Seq(Quiet)
  BY Concat
<1> QED BY <1>2, <1>3, <1>5, <1>6 DEF Ending

\* What none of three elements is.
LEMMA ThreeItems ==
    ASSUME NEW t, NEW G, Len(t) = 3, t[1] \notin G, t[2] \notin G, t[3] \notin G
    PROVE  \A i \in 1..Len(t) : t[i] \notin G
OBVIOUS

\* The part of a program after the receipt, with the statuses the programs use.
LEMMA SecretPart ==
    ASSUME NEW x \in {"secretFailed", "secretGotFailed"}, NEW y \in {"secretFailed", "secretGotFailed"},
           NEW saved \in {"", "GotSecret"}, NEW verified \in {"", "GotSecret", "closed"}
    PROVE  LET t == BobSecret(x, y, saved, verified)
           IN  Ending(t) /\ Ending(t \o BobDecrypt) /\ t \in Seq(Calls) /\ BobDecrypt \in Seq(Calls)
<1> DEFINE t == BobSecret(x, y, saved, verified)
<1>1. /\ St("ReadScrt", x, "") \in Quiet
      /\ St("VerifySecret", "verifyFailed", verified) \in Quiet
      /\ St("Decrypt", "decryptFailed", "closed") \in Quiet
  BY ZenonT(60) DEF St, Quiet, Late, BobCalls, BobBefore, Claiming, Calls, Ops, Statuses
<1>2. St("SaveScrt", y, saved) \in Quiet
  BY DEF St, Quiet, Late, BobCalls, BobBefore, Claiming, Calls, Ops, Statuses
<1>3. t \in Seq(Quiet) /\ BobDecrypt \in Seq(Quiet)
  BY <1>1, <1>2, Tuple3, Tuple1 DEF BobSecret, BobDecrypt
<1>4. /\ Len(t) = 3 /\ t[1] = St("ReadScrt", x, "") /\ t[2] = St("SaveScrt", y, saved)
      /\ t[3] = St("VerifySecret", "verifyFailed", verified)
  BY Items3, Zenon DEF BobSecret
<1>5. /\ St("ReadScrt", x, "").op = "ReadScrt" /\ St("ReadScrt", x, "") \notin Delivering
      /\ St("ReadScrt", x, "") \notin Closing /\ St("SaveScrt", y, saved) \notin Closing
      /\ St("VerifySecret", "verifyFailed", verified).op = "VerifySecret"
      /\ St("VerifySecret", "verifyFailed", verified) \notin Closing
  BY DEF St, Delivering, Closing, BobAfter
<1>6. /\ Len(t) = 3 /\ t[1].op = "ReadScrt" /\ t[1] \notin Delivering /\ t[1] \notin Closing
      /\ t[2] \notin Closing /\ t[3].op = "VerifySecret" /\ t[3] \notin Closing
  BY <1>4, <1>5, Zenon
<1>7. \A i \in 1..Len(t) : t[i] \notin Closing
  BY <1>6, ThreeItems, Zenon
<1> HIDE DEF t
<1>8. Ending(t) /\ Ending(t \o BobDecrypt)
  BY <1>3, <1>6, <1>7, SecretOrder, Zenon
<1>9. t \in Seq(Calls) /\ BobDecrypt \in Seq(Calls)
  BY <1>3, SeqMonotonic DEF Quiet, Late, BobCalls
<1> QED BY <1>8, <1>9 DEF t

\* A whole program from its two halves.
LEMMA BobHalves ==
    ASSUME NEW s, ReceiptAtEnd(s), NEW t, Ending(t)
    PROVE  BobWhole(s \o t)
<1>1. /\ s \in Seq(Opening) /\ s \in Seq(BobCalls) /\ s \in Seq(Calls)
      /\ t \in Seq(Quiet) /\ t \in Seq(BobCalls) /\ t \in Seq(Calls)
  BY SeqMonotonic DEF ReceiptAtEnd, Ending, Opening, Quiet, Late, BobCalls
<1>2. /\ s \o t \in Seq(BobCalls)
      /\ Len(s) \in Nat /\ Len(t) \in Nat /\ Len(s \o t) = Len(s) + Len(t)
      /\ \A i \in 1..Len(s) : (s \o t)[i] = s[i]
      /\ \A i \in 1..Len(t) : (s \o t)[i + Len(s)] = t[i]
  BY <1>1, Concat
<1>3. \A i \in 1..Len(s) : s[i] \in Opening
  BY <1>1, ElementOfSeq
<1>4. \A i \in 1..Len(t) : t[i] \in Quiet
  BY <1>1, ElementOfSeq
<1>5. \A i \in (Len(s) + 1)..Len(s \o t) : (s \o t)[i] \in Quiet
  <2> SUFFICES ASSUME NEW i \in (Len(s) + 1)..Len(s \o t)
               PROVE  (s \o t)[i] \in Quiet
    OBVIOUS
  <2>1. i - Len(s) \in 1..Len(t) /\ (i - Len(s)) + Len(s) = i
    BY <1>2
  <2> QED BY <2>1, <1>2, <1>4
<1>6. ReceiptOnce(s \o t)
  <2> SUFFICES ASSUME NEW i \in 1..Len(s \o t), (s \o t)[i].op = "SendRecpt"
               PROVE  /\ (s \o t)[i].ok = "receipted"
                      /\ \A j \in (i + 1)..Len(s \o t) : (s \o t)[j] \in Late
    BY DEF ReceiptOnce
  <2>1. i \in 1..Len(s)
    BY <1>2, <1>5 DEF Quiet
  <2>2. i = Len(s) /\ (s \o t)[i].ok = "receipted"
    BY <2>1, <1>2 DEF ReceiptAtEnd
  <2> QED BY <2>2, <1>5 DEF Quiet
<1>7. \A i \in 1..Len(s) : s[i] \notin Delivering /\ s[i] \notin Closing /\ s[i] \notin Claiming
  BY <1>3 DEF Opening, Delivering, Closing, Claiming, BobAfter
<1>8. Guarded(s \o t, "ReadScrt", Delivering) /\ Guarded(s \o t, "VerifySecret", Closing)
  <2>1. Guarded(s, "ReadScrt", Delivering) /\ Guarded(s, "VerifySecret", Closing)
    BY <1>1, <1>7, Unguarded
  <2> QED BY <2>1, <1>1, GuardedConcat DEF Ending
<1>9. \A i \in 1..Len(s \o t) : (s \o t)[i] \notin Claiming
  BY <1>2, <1>5, <1>7 DEF Quiet
<1> QED BY <1>2, <1>6, <1>8, <1>9 DEF BobWhole, BobOrder

\* The same for the second half in two parts.
LEMMA BobThirds ==
    ASSUME NEW s, ReceiptAtEnd(s), NEW t \in Seq(Calls), NEW u \in Seq(Calls), Ending(t \o u)
    PROVE  BobWhole((s \o t) \o u)
<1>1. s \in Seq(Calls)
  BY SeqMonotonic DEF ReceiptAtEnd, Opening, BobCalls
<1>2. (s \o t) \o u = s \o (t \o u)
  BY <1>1, ConcatAssociative, SMTT(40)
<1> QED BY <1>2, BobHalves

\* Every program of the buyer sends one receipt, reads the key after it and
\* verifies the key before it closes the trade.
LEMMA BobPrograms == \A p \in Programs : BobWhole(BobProgram(p))
<1>1. ASSUME NEW x \in {"invalidRequest", "requestFailed"}, NEW y \in {"invalidRequest", "requestFailed"},
             NEW z \in {"", "requested"}
      PROVE  /\ ReceiptAtEnd(BobBegin \o BobRequest(x, y, z) \o BobReceipt)
             /\ ReceiptAtEnd(BobBegin \o BobNego \o BobRequest(x, y, z) \o BobReceipt)
  BY <1>1, PlainParts, Concat, ReceiptPart
<1>2. ASSUME NEW s, ReceiptAtEnd(s), NEW x \in {"secretFailed", "secretGotFailed"},
             NEW y \in {"secretFailed", "secretGotFailed"}, NEW saved \in {"", "GotSecret"},
             NEW verified \in {"", "GotSecret", "closed"}
      PROVE  /\ BobWhole(s \o BobSecret(x, y, saved, verified))
             /\ BobWhole(s \o BobSecret(x, y, saved, verified) \o BobDecrypt)
  <2> DEFINE t == BobSecret(x, y, saved, verified)
  <2>1. Ending(t) /\ Ending(t \o BobDecrypt) /\ t \in Seq(Calls) /\ BobDecrypt \in Seq(Calls)
    BY SecretPart
  <2> HIDE DEF t
  <2> QED BY <1>2, <2>1, BobHalves, BobThirds DEF t
<1>3. BobWhole(BobTxForPC) /\ BobWhole(BobTxForTC)
  BY <1>1, <1>2 DEF BobTxForPC, BobTxForTC
<1>4. BobWhole(BobTxForPOC) /\ BobWhole(BobTxForTOC)
  BY <1>1, <1>2 DEF BobTxForPOC, BobTxForTOC
<1>5. /\ BobWhole(BobTxForPAS) /\ BobWhole(BobTxForPASVC)
      /\ BobWhole(BobTxForTAS) /\ BobWhole(BobTxForTASVC)
  BY <1>1, <1>2 DEF BobTxForPAS, BobTxForPASVC, BobTxForTAS, BobTxForTASVC
<1>6. BobWhole(BobTxForTQ) /\ BobWhole(BobTxForTOQ)
  BY <1>1, <1>2 DEF BobTxForTQ, BobTxForTOQ
<1> QED BY <1>3, <1>4, <1>5, <1>6 DEF BobProgram, Programs

-----------------------------------------------------------------------------
(***************************************************************************)
(* The inductive invariant.                                                *)
(***************************************************************************)
ProgType == todo \in [Roles -> Seq(Calls)]

Receipted == <<"Bob", "SendRecpt">> \in sent

AliceInv ==
    /\ AliceOrder(todo["Alice"])
    /\ Guarded(todo["Alice"], "RcvRecpt", CheckingPrice) \/ Receipted
    /\ Guarded(todo["Alice"], "CheckPrice", Submitting) \/ (Receipted /\ receipt.price = Price)
    /\ live["Alice"] = "running" =>
           row["Alice"] # "none" \/ (todo["Alice"] # << >> /\ Head(todo["Alice"]).op = "InsertTx")
    /\ rec # "none" =>
           /\ Receipted /\ receipt.price = Price /\ row["Alice"] # "none"
           /\ \A i \in 1..Len(todo["Alice"]) : todo["Alice"][i] = LastPoll
           /\ todo["Alice"] = << >> => status["Alice"] \in {"secretFailed", "closed"}
    /\ row["Alice"] \in AliceBefore => live["Alice"] # "running" /\ rec = "none"
    /\ "closed" \in {status["Alice"], row["Alice"]} => rec = "mined"

\* What Bob's status and row say of the key.
Verdict(x) ==
    /\ x \in BobAfter => rec = "mined"
    /\ x = "closed" => genuine
    /\ x = "claimed" => ~genuine /\ prog \in ComplaintPrograms

BobInv ==
    /\ BobOrder(todo["Bob"])
    /\ Receipted => todo["Bob"] \in Seq(Late) /\ status["Bob"] \notin BobBefore
    /\ row["Bob"] \in BobBefore => live["Bob"] # "running" /\ ~Receipted
    /\ Guarded(todo["Bob"], "ReadScrt", Delivering) \/ rec = "mined"
    /\ Guarded(todo["Bob"], "VerifySecret", Closing) \/ genuine
    /\ (\E i \in 1..Len(todo["Bob"]) : todo["Bob"][i] \in Claiming)
           => ~genuine /\ prog \in ComplaintPrograms
    /\ Verdict(status["Bob"]) /\ Verdict(row["Bob"])

TradeInv == TypeOK /\ ProgType /\ AliceInv /\ BobInv
-----------------------------------------------------------------------------
(***************************************************************************)
(* One call less.                                                          *)
(***************************************************************************)
\* The elements of a head and a tail.
LEMMA HeadAndTail ==
    ASSUME NEW S, NEW s \in Seq(S), s # << >>
    PROVE  /\ Head(s) = s[1] /\ Head(s) \in S /\ 1 \in 1..Len(s)
           /\ Tail(s) \in Seq(S) /\ Len(Tail(s)) = Len(s) - 1 /\ Len(s) \in Nat
           /\ \A i \in 1..Len(Tail(s)) : i + 1 \in 1..Len(s) /\ Tail(s)[i] = s[i + 1]
OBVIOUS

\* A sequence of one element.
LEMMA OneItem ==
    ASSUME NEW S, NEW t \in Seq(S), Len(t) = 1
    PROVE  t # << >> /\ \A i \in 1..Len(t) : i = 1
<1>1. Len(<< >>) = 0 /\ 0 # 1
  OBVIOUS
<1>2. t # << >>
  BY <1>1, Zenon
<1>3. \A i \in 1..1 : i = 1
  OBVIOUS
<1> QED BY <1>2, <1>3

\* A sequence belongs where its elements do.
LEMMA SeqOf ==
    ASSUME NEW S, NEW T, NEW t \in Seq(S), \A i \in 1..Len(t) : t[i] \in T
    PROVE  t \in Seq(T)
OBVIOUS

\* Alice's next call is one of hers, and after the submission only the poll is left.
LEMMA AliceTail ==
    ASSUME NEW s, AliceOrder(s), s # << >>
    PROVE  /\ AliceOrder(Tail(s)) /\ Head(s) \in AliceCalls
           /\ Head(s).op = "Submit" =>
                 Tail(s) # << >> /\ \A i \in 1..Len(Tail(s)) : Tail(s)[i] = LastPoll
<1> USE DEF AliceOrder
<1>1. /\ Head(s) = s[1] /\ Head(s) \in AliceCalls /\ 1 \in 1..Len(s)
      /\ Tail(s) \in Seq(AliceCalls) /\ Len(Tail(s)) = Len(s) - 1 /\ Len(s) \in Nat
      /\ \A i \in 1..Len(Tail(s)) : i + 1 \in 1..Len(s) /\ Tail(s)[i] = s[i + 1]
  BY HeadAndTail
<1>2. SubmitLast(Tail(s))
  <2> SUFFICES ASSUME NEW i \in 1..Len(Tail(s)), Tail(s)[i].op = "Submit"
               PROVE  Len(Tail(s)) = i + 1 /\ Tail(s)[i + 1] = LastPoll
    BY Zenon DEF SubmitLast
  <2>1. Len(s) = (i + 1) + 1 /\ s[(i + 1) + 1] = LastPoll
    BY <1>1 DEF SubmitLast
  <2>2. i + 1 \in 1..Len(Tail(s))
    BY <1>1, <2>1
  <2> QED BY <1>1, <2>1, <2>2
<1>3. ASSUME Head(s).op = "Submit"
      PROVE  Tail(s) # << >> /\ \A i \in 1..Len(Tail(s)) : Tail(s)[i] = LastPoll
  <2>1. Len(s) = 1 + 1 /\ s[1 + 1] = LastPoll
    BY <1>1, <1>3 DEF SubmitLast
  <2>2. Len(Tail(s)) = 1
    BY <1>1, <2>1
  <2>3. Tail(s) # << >> /\ \A i \in 1..Len(Tail(s)) : i = 1
    BY <1>1, <2>2, OneItem
  <2> QED BY <1>1, <2>1, <2>3, SMTT(40)
<1> QED BY <1>1, <1>2, <1>3

\* Bob's next call is one of his, and after the receipt only late calls are left.
LEMMA BobTail ==
    ASSUME NEW s, BobOrder(s), s # << >>
    PROVE  /\ BobOrder(Tail(s)) /\ Head(s) \in BobCalls
           /\ Head(s).op = "SendRecpt" => Head(s).ok = "receipted" /\ Tail(s) \in Seq(Late)
<1> USE DEF BobOrder
<1>1. /\ Head(s) = s[1] /\ Head(s) \in BobCalls /\ 1 \in 1..Len(s)
      /\ Tail(s) \in Seq(BobCalls) /\ Len(Tail(s)) = Len(s) - 1 /\ Len(s) \in Nat
      /\ \A i \in 1..Len(Tail(s)) : i + 1 \in 1..Len(s) /\ Tail(s)[i] = s[i + 1]
  BY HeadAndTail
<1>2. ReceiptOnce(Tail(s))
  <2> SUFFICES ASSUME NEW i \in 1..Len(Tail(s)), Tail(s)[i].op = "SendRecpt"
               PROVE  /\ Tail(s)[i].ok = "receipted"
                      /\ \A j \in (i + 1)..Len(Tail(s)) : Tail(s)[j] \in Late
    BY DEF ReceiptOnce
  <2>1. s[i + 1].ok = "receipted" /\ \A j \in ((i + 1) + 1)..Len(s) : s[j] \in Late
    BY <1>1 DEF ReceiptOnce
  <2>2. \A j \in (i + 1)..Len(Tail(s)) : j \in 1..Len(Tail(s)) /\ j + 1 \in ((i + 1) + 1)..Len(s)
    BY <1>1
  <2> QED BY <1>1, <2>1, <2>2
<1>3. ASSUME Head(s).op = "SendRecpt"
      PROVE  Head(s).ok = "receipted" /\ Tail(s) \in Seq(Late)
  <2>1. s[1].ok = "receipted" /\ \A j \in (1 + 1)..Len(s) : s[j] \in Late
    BY <1>1, <1>3 DEF ReceiptOnce
  <2>2. \A i \in 1..Len(Tail(s)) : Tail(s)[i] \in Late
    BY <1>1, <2>1
  <2>3. Tail(s) \in Seq(Late)
    BY <1>1, <2>2, SeqOf
  <2> QED BY <1>1, <2>1, <2>3
<1> QED BY <1>1, <1>2, <1>3

\* A program that is over.
LEMMA NothingLeft ==
    /\ AliceOrder(<< >>) /\ BobOrder(<< >>) /\ << >> \in Seq(Late)
    /\ Len(<< >>) = 0 /\ \A i : i \notin 1..Len(<< >>)
BY DEF AliceOrder, SubmitLast, BobOrder, ReceiptOnce
-----------------------------------------------------------------------------
(***************************************************************************)
(* The types of the variables.                                             *)
(***************************************************************************)
\* A call that succeeds leaves a status and a rest of a program.
LEMMA AdvanceType ==
    ASSUME TypeOK, ProgType, NEW r \in Roles, todo[r] # << >>, Advance(r)
    PROVE  /\ todo' \in [Roles -> Seq(Calls)]
           /\ status' \in [Roles -> Statuses]
           /\ live' = live
<1>1. todo[r] \in Seq(Calls)
  BY DEF ProgType
<1>2. Head(todo[r]) \in Calls /\ Tail(todo[r]) \in Seq(Calls)
  BY <1>1, HeadAndTail
<1>3. Head(todo[r]).ok \in Statuses \cup {""}
  BY <1>2 DEF Calls
<1> QED BY <1>2, <1>3 DEF Advance, TypeOK, ProgType

\* A call that fails does too.
LEMMA FailType ==
    ASSUME TypeOK, ProgType, NEW r \in Roles, todo[r] # << >>, FailStep(r)
    PROVE  /\ todo' \in [Roles -> Seq(Calls)]
           /\ status' \in [Roles -> Statuses]
           /\ live' \in [Roles -> {"running", "ended", "crashed"}]
<1>1. todo[r] \in Seq(Calls)
  BY DEF ProgType
<1>2. Head(todo[r]) \in Calls /\ << >> \in Seq(Calls)
  BY <1>1, HeadAndTail
<1>3. Head(todo[r]).fail \in Statuses \cup {""}
  BY <1>2 DEF Calls
<1>4. CASE Head(todo[r]).op = "InsertTx" \/ (r = "Alice" /\ Head(todo[r]).op = "NewSess")
  BY <1>4 DEF FailStep, TypeOK, ProgType
<1>5. CASE ~(Head(todo[r]).op = "InsertTx" \/ (r = "Alice" /\ Head(todo[r]).op = "NewSess"))
  BY <1>2, <1>3, <1>5 DEF FailStep, TypeOK, ProgType
<1> QED BY <1>4, <1>5

\* Updates of two fields of the deposit.
LEMMA DepType ==
    ASSUME NEW V, NEW S, NEW A, NEW d \in [value : V, stat : S, unDepositAt : A]
    PROVE  /\ \A v \in V, x \in S : [d EXCEPT !.value = v, !.stat = x] \in [value : V, stat : S, unDepositAt : A]
           /\ \A v \in V, x \in S : [d EXCEPT !.stat = x, !.value = v] \in [value : V, stat : S, unDepositAt : A]
           /\ \A a \in A, x \in S : [d EXCEPT !.stat = x, !.unDepositAt = a] \in [value : V, stat : S, unDepositAt : A]
OBVIOUS

\* Every step keeps the types.
LEMMA TypeStep ==
    ASSUME TypeOK, ProgType, [Next]_vars
    PROVE  TypeOK' /\ ProgType'
<1> USE PriceAssumption, TimeAssumption, BoundsAssumption
<1> DEFINE Typed == /\ todo' \in [Roles -> Seq(Calls)] /\ status' \in [Roles -> Statuses]
                    /\ live' \in [Roles -> {"running", "ended", "crashed"}]
<1>a. \A r \in Roles : \A op : At(r, op) => todo[r] # << >> /\ live[r] = "running"
  BY DEF At
<1>b. ASSUME NEW r \in Roles, todo[r] # << >>, Advance(r) \/ FailStep(r)
      PROVE  Typed
  <2>1. live \in [Roles -> {"running", "ended", "crashed"}]
    BY DEF TypeOK
  <2> QED BY <1>b, <2>1, AdvanceType, FailType
<1>c. "Alice" \in Roles /\ "Bob" \in Roles /\ "start" \in Statuses /\ "verifyFailed" \in Statuses
  BY DEF Roles, Statuses
<1>1. ASSUME NEW r \in Roles, InsertTx(r) PROVE TypeOK' /\ ProgType'
  <2>1. Typed
    BY <1>1, <1>a, <1>b DEF InsertTx
  <2>2. row' \in [Roles -> Statuses \cup {"none"}]
    BY <1>1, <1>c DEF InsertTx, TypeOK
  <2> QED BY <1>1, <2>1, <2>2 DEF InsertTx, TypeOK, ProgType, chainVars
<1>2. ASSUME NEW r \in Roles, LocalStep(r) PROVE TypeOK' /\ ProgType'
  <2>1. Typed
    BY <1>2, <1>a, <1>b DEF LocalStep
  <2> QED BY <1>2, <2>1 DEF LocalStep, TypeOK, ProgType, chainVars
<1>3. ASSUME NEW r \in Roles, SendStep(r) PROVE TypeOK' /\ ProgType'
  <2>1. Typed
    BY <1>3, <1>a, <1>b DEF SendStep
  <2>2. PICK op \in SendOps : sent' = sent \cup {<<r, op>>}
    BY <1>3 DEF SendStep
  <2>3. sent' \subseteq Roles \X (SendOps \cup {"Claim"})
    BY <2>2 DEF TypeOK
  <2> QED BY <1>3, <2>1, <2>3 DEF SendStep, TypeOK, ProgType, chainVars
<1>4. ASSUME NEW r \in Roles, RecvStep(r) PROVE TypeOK' /\ ProgType'
  <2>1. Typed
    BY <1>4, <1>a, <1>b DEF RecvStep
  <2> QED BY <1>4, <2>1 DEF RecvStep, TypeOK, ProgType, chainVars
<1>5. ASSUME NEW r \in Roles, PeerGone(r) PROVE TypeOK' /\ ProgType'
  <2>1. Typed
    BY <1>5, <1>a, <1>b DEF PeerGone
  <2> QED BY <1>5, <2>1 DEF PeerGone, TypeOK, ProgType, chainVars
<1>6. CASE SignRecpt
  <2>1. Typed
    BY <1>6, <1>a, <1>b, <1>c DEF SignRecpt
  <2>2. PICK p \in SignedPrices : receipt' = [price |-> p, expireAt |-> now + Life]
    BY <1>6 DEF SignRecpt
  <2>3. p \in Nat /\ now + Life \in 0..(MaxTime + Life)
    BY DEF TypeOK
  <2>4. receipt' \in [price : Nat, expireAt : 0..(MaxTime + Life)]
    BY <2>2, <2>3
  <2> QED BY <1>6, <2>1, <2>4 DEF SignRecpt, TypeOK, ProgType, chainVars
<1>7. CASE CalcuDeposit \/ CheckPrice \/ CheckExpire \/ CheckDeposit
  <2>1. Typed
    BY <1>7, <1>a, <1>b, <1>c DEF CalcuDeposit, CheckPrice, CheckExpire, CheckDeposit
  <2>2. UNCHANGED <<prog, row, sent, receipt, chainVars, genuine, polls, now, faults>>
    BY <1>7 DEF CalcuDeposit, CheckPrice, CheckExpire, CheckDeposit
  <2> QED BY <2>1, <2>2 DEF TypeOK, ProgType, chainVars
<1>8. CASE Submit
  <2>1. Typed
    BY <1>8, <1>a, <1>b, <1>c DEF Submit
  <2> QED BY <1>8, <2>1 DEF Submit, TypeOK, ProgType
<1>9. ASSUME NEW r \in Roles, ReadScrt(r) PROVE TypeOK' /\ ProgType'
  <2>1. todo[r] # << >>
    BY <1>9, <1>a DEF ReadScrt
  <2>2. \/ (Advance(r) \/ FailStep(r)) /\ UNCHANGED polls
        \/ UNCHANGED progVars /\ polls[r] # Rounds /\ polls' = [polls EXCEPT ![r] = @ + 1]
    BY <1>9 DEF ReadScrt
  <2>3. Typed /\ polls' \in [Roles -> 0..Rounds]
    <3>1. CASE (Advance(r) \/ FailStep(r)) /\ UNCHANGED polls
      BY <3>1, <2>1, <1>b DEF TypeOK
    <3>2. CASE UNCHANGED progVars /\ polls[r] # Rounds /\ polls' = [polls EXCEPT ![r] = @ + 1]
      <4>1. polls[r] + 1 \in 0..Rounds
        BY <3>2 DEF TypeOK
      <4> QED BY <3>2, <4>1 DEF TypeOK, ProgType, progVars
    <3> QED BY <2>2, <3>1, <3>2
  <2> QED BY <1>9, <2>3 DEF ReadScrt, TypeOK, ProgType, chainVars
<1>10. CASE VerifySecret
  <2>1. Advance("Bob") \/ FailStep("Bob") \/
           (/\ todo' = [todo EXCEPT !["Bob"] = BobClaim]
            /\ status' = [status EXCEPT !["Bob"] = "verifyFailed"]
            /\ UNCHANGED live)
    BY <1>10 DEF VerifySecret
  <2>2. todo["Bob"] # << >>
    BY <1>10, <1>a, <1>c DEF VerifySecret
  <2>3. BobClaim \in Seq(Calls)
    <3>1. St("GeneClaim", "claimFailed", "") \in Calls /\ St("Claim", "claimFailed", "claimed") \in Calls
      BY DEF St, Calls, Ops, Statuses
    <3> QED BY <3>1, Tuple2 DEF BobClaim
  <2>4. Typed
    <3>1. CASE Advance("Bob") \/ FailStep("Bob")
      BY <3>1, <2>2, <1>b, <1>c
    <3>2. CASE /\ todo' = [todo EXCEPT !["Bob"] = BobClaim]
               /\ status' = [status EXCEPT !["Bob"] = "verifyFailed"]
               /\ UNCHANGED live
      BY <3>2, <2>3, <1>c DEF TypeOK, ProgType
    <3> QED BY <2>1, <3>1, <3>2
  <2> QED BY <1>10, <2>4 DEF VerifySecret, TypeOK, ProgType, chainVars
<1>11. CASE Claim
  <2>1. Typed
    BY <1>11, <1>a, <1>b, <1>c DEF Claim
  <2>2. sent' \subseteq Roles \X (SendOps \cup {"Claim"})
    BY <1>11, <1>c DEF Claim, TypeOK
  <2> QED BY <1>11, <2>1, <2>2 DEF Claim, TypeOK, ProgType, chainVars
<1>12. ASSUME NEW r \in Roles, Return(r) PROVE TypeOK' /\ ProgType'
  BY <1>12 DEF Return, TypeOK, ProgType, chainVars
<1>13. ASSUME NEW r \in Roles, Fail(r) PROVE TypeOK' /\ ProgType'
  <2>1. Typed
    BY <1>13, <1>b DEF Fail
  <2>2. faults' \in 0..MaxFaults
    BY <1>13 DEF Fail, TypeOK
  <2> QED BY <1>13, <2>1, <2>2 DEF Fail, TypeOK, ProgType, chainVars
<1>14. ASSUME NEW r \in Roles, Crash(r) PROVE TypeOK' /\ ProgType'
  BY <1>14 DEF Crash, TypeOK, ProgType, chainVars
<1>15. CASE Mine
  <2>1. Price \in Nat /\ dep.value \in 0..MaxDeposit
    BY DEF TypeOK
  <2>2. dep' \in [value : 0..MaxDeposit, stat : 0..2, unDepositAt : 0..MaxTime] /\ rec' \in {"mined", "reverted"}
    BY <1>15, <2>1 DEF Mine, TypeOK
  <2> QED BY <1>15, <2>2 DEF Mine, TypeOK, ProgType, progVars
<1>16. CASE BobDeposit \/ BobUnDeposit \/ BobWithdraw
  <2>1. dep' \in [value : 0..MaxDeposit, stat : 0..2, unDepositAt : 0..MaxTime]
    <3>0. /\ dep \in [value : 0..MaxDeposit, stat : 0..2, unDepositAt : 0..MaxTime]
          /\ now \in 0..MaxTime /\ 0 \in 0..MaxDeposit /\ 0 \in 0..2 /\ 1 \in 0..2 /\ 2 \in 0..2
      BY DEF TypeOK
    <3>1. CASE BobDeposit
      <4>1. PICK v \in 1..(MaxDeposit - dep.value) : dep' = [dep EXCEPT !.value = @ + v, !.stat = 0]
        BY <3>1 DEF BobDeposit
      <4>2. dep.value + v \in 0..MaxDeposit
        BY DEF TypeOK
      <4>3. dep' = [dep EXCEPT !.value = dep.value + v, !.stat = 0]
        BY <3>0, <4>1
      <4> QED BY <3>0, <4>2, <4>3, DepType
    <3>2. CASE BobUnDeposit
      BY <3>0, <3>2, DepType DEF BobUnDeposit
    <3>3. CASE BobWithdraw
      BY <3>0, <3>3, DepType DEF BobWithdraw
    <3> QED BY <1>16, <3>1, <3>2, <3>3
  <2>2. UNCHANGED <<prog, progVars, row, sent, receipt, rec, genuine, polls, now, faults>>
    BY <1>16 DEF BobDeposit, BobUnDeposit, BobWithdraw
  <2> QED BY <2>1, <2>2 DEF TypeOK, ProgType, progVars
<1>17. CASE Tick
  BY <1>17 DEF Tick, TypeOK, ProgType, progVars, chainVars
<1>18. CASE UNCHANGED vars
  BY <1>18 DEF vars, TypeOK, ProgType
<1> QED BY <1>1, <1>2, <1>3, <1>4, <1>5, <1>6, <1>7, <1>8, <1>9, <1>10, <1>11, <1>12, <1>13, <1>14,
           <1>15, <1>16, <1>17, <1>18, <1>c DEF Next, AliceStep, BobStep
-----------------------------------------------------------------------------
(***************************************************************************)
(* What the steps do to Alice's part of the invariant.                     *)
(***************************************************************************)
\* Steps of Bob and of the chain.
LEMMA AliceFrame ==
    ASSUME AliceInv,
           todo'["Alice"] = todo["Alice"], live'["Alice"] = live["Alice"],
           status'["Alice"] = status["Alice"], row'["Alice"] = row["Alice"],
           Receipted => Receipted' /\ receipt' = receipt,
           rec' = rec \/ (rec = "pending" /\ rec' # "none")
    PROVE  AliceInv'
<1>1. rec = "none" <=> rec' = "none"
  OBVIOUS
<1>2. rec = "mined" => rec' = "mined"
  OBVIOUS
<1> QED BY <1>1, <1>2 DEF AliceInv

\* A call of Alice's that succeeds.
LEMMA AliceAdvance ==
    ASSUME TypeOK, ProgType, AliceInv, live["Alice"] = "running", todo["Alice"] # << >>,
           Advance("Alice"), receipt' = receipt, Receipted' = Receipted,
           Head(todo["Alice"]).op = "InsertTx" => row' = [row EXCEPT !["Alice"] = "start"],
           Head(todo["Alice"]).op # "InsertTx" => row' = row,
           Head(todo["Alice"]).op = "RcvRecpt" => Receipted,
           Head(todo["Alice"]).op = "CheckPrice" => receipt.price = Price,
           Head(todo["Alice"]).op = "ReadScrt" => rec = "mined",
           Head(todo["Alice"]).op = "Submit" => rec' = "pending",
           Head(todo["Alice"]).op # "Submit" => rec' = rec
    PROVE  AliceInv'
<1> DEFINE A == todo["Alice"]
<1> DEFINE c == Head(todo["Alice"])
<1> DEFINE T == Tail(todo["Alice"])
<1>0. "Alice" \in Roles /\ A # << >>
  BY DEF Roles
<1>1. AliceOrder(A) /\ A \in Seq(Calls)
  BY <1>0 DEF AliceInv, ProgType
<1>2. /\ AliceOrder(T) /\ c \in AliceCalls
      /\ c.op = "Submit" => T # << >> /\ \A i \in 1..Len(T) : T[i] = LastPoll
  BY <1>0, <1>1, AliceTail
<1>3. /\ c = A[1] /\ 1 \in 1..Len(A) /\ c \in Calls
      /\ \A i \in 1..Len(T) : i + 1 \in 1..Len(A) /\ T[i] = A[i + 1]
  BY <1>0, <1>1, HeadAndTail
<1>4. /\ todo'["Alice"] = T /\ live' = live
      /\ status'["Alice"] = IF c.ok = "" THEN status["Alice"] ELSE c.ok
  BY <1>0 DEF Advance, TypeOK, ProgType
<1>5. /\ row'["Alice"] # "none"
      /\ row["Alice"] # "none" => row'["Alice"] \in {"start", row["Alice"]}
  <2>1. CASE c.op = "InsertTx"
    BY <2>1, <1>0 DEF TypeOK
  <2>2. CASE c.op # "InsertTx"
    BY <2>2 DEF AliceInv
  <2> QED BY <2>1, <2>2
<1>6. Guarded(A, "RcvRecpt", CheckingPrice) /\ c.op # "RcvRecpt" => Guarded(T, "RcvRecpt", CheckingPrice)
  BY <1>0, <1>1, GuardedTail
<1>7. Guarded(A, "CheckPrice", Submitting) /\ c.op # "CheckPrice" => Guarded(T, "CheckPrice", Submitting)
  BY <1>0, <1>1, GuardedTail
<1>8. c.op = "CheckPrice" => Receipted
  <2>1. c.op = "CheckPrice" => c \in CheckingPrice
    BY <1>3 DEF CheckingPrice
  <2>2. Guarded(A, "RcvRecpt", CheckingPrice) => c \notin CheckingPrice
    BY <1>0, <1>1, GuardedHead
  <2> QED BY <2>1, <2>2 DEF AliceInv
<1>9. c.op = "Submit" => Receipted /\ receipt.price = Price
  <2>1. c.op = "Submit" => c \in Submitting
    BY <1>3 DEF Submitting
  <2>2. Guarded(A, "CheckPrice", Submitting) => c \notin Submitting
    BY <1>0, <1>1, GuardedHead
  <2> QED BY <2>1, <2>2 DEF AliceInv
<1>10. rec # "none" => c = LastPoll
  BY <1>3 DEF AliceInv
<1>11. LastPoll.op = "ReadScrt" /\ LastPoll.ok = "closed"
  BY DEF LastPoll, St
<1>12. c.ok = "closed" => c.op = "ReadScrt"
  BY <1>2 DEF AliceCalls
<1> HIDE DEF A, c, T
<1>13. Guarded(T, "RcvRecpt", CheckingPrice) \/ Receipted
  BY <1>6 DEF AliceInv, A, c
<1>14. Guarded(T, "CheckPrice", Submitting) \/ (Receipted /\ receipt.price = Price)
  BY <1>7, <1>8 DEF AliceInv, A, c
<1>15. rec' # "none" =>
          /\ Receipted /\ receipt.price = Price
          /\ \A i \in 1..Len(T) : T[i] = LastPoll
          /\ T = << >> => status'["Alice"] = "closed"
  <2>1. CASE c.op = "Submit"
    BY <2>1, <1>2, <1>9
  <2>2. CASE c.op # "Submit" /\ rec # "none"
    BY <2>2, <1>3, <1>4, <1>10, <1>11 DEF AliceInv, A, c
  <2> QED BY <2>1, <2>2 DEF c
<1>16. status'["Alice"] = "closed" \/ row'["Alice"] = "closed" => rec' = "mined"
  <2>1. CASE c.op = "Submit"
    <3>1. rec = "none"
      BY <2>1, <1>10, <1>11
    <3>2. c.ok # "closed"
      BY <2>1, <1>12
    <3> QED BY <3>1, <3>2, <2>1, <1>4, <1>5 DEF AliceInv, c
  <2>2. CASE c.op # "Submit"
    <3>1. c.ok = "closed" => rec = "mined"
      BY <1>12 DEF c
    <3>2. row'["Alice"] = "closed" => row["Alice"] = "closed"
      BY <1>0, <2>2 DEF c, TypeOK
    <3> QED BY <3>1, <3>2, <2>2, <1>4 DEF AliceInv, c
  <2> QED BY <2>1, <2>2
<1>17. row'["Alice"] \notin AliceBefore
  <2>1. CASE c.op = "InsertTx"
    BY <2>1, <1>0 DEF c, TypeOK, AliceBefore
  <2>2. CASE c.op # "InsertTx"
    BY <2>2 DEF AliceInv, c
  <2> QED BY <2>1, <2>2
<1> QED BY <1>2, <1>4, <1>5, <1>13, <1>14, <1>15, <1>16, <1>17 DEF AliceInv

\* A call of Alice's that fails.
LEMMA AliceFail ==
    ASSUME TypeOK, ProgType, AliceInv, live["Alice"] = "running", todo["Alice"] # << >>,
           FailStep("Alice"), UNCHANGED <<row, sent, receipt, rec>>
    PROVE  AliceInv'
<1> DEFINE c == Head(todo["Alice"])
<1>0. "Alice" \in Roles
  BY DEF Roles
<1>1. c \in AliceCalls /\ c = todo["Alice"][1] /\ 1 \in 1..Len(todo["Alice"])
  BY HeadAndTail DEF AliceInv, AliceOrder
<1>2. CASE c.op = "InsertTx" \/ c.op = "NewSess"
  <2>1. live'["Alice"] # "running" /\ todo' = todo /\ status' = status
    BY <1>0, <1>2 DEF FailStep, TypeOK
  <2> QED BY <2>1 DEF AliceInv, Receipted
<1>3. CASE c.op # "InsertTx" /\ c.op # "NewSess"
  <2>1. /\ todo'["Alice"] = << >> /\ live' = live
        /\ status'["Alice"] = IF c.fail = "" THEN status["Alice"] ELSE c.fail
    BY <1>0, <1>3 DEF FailStep, TypeOK, ProgType
  <2>2. rec # "none" => c = LastPoll
    BY <1>1 DEF AliceInv
  <2>3. LastPoll.fail = "secretFailed"
    BY DEF LastPoll, St
  <2>4. c.fail # "closed"
    BY <1>1 DEF AliceCalls
  <2>5. rec # "none" => status'["Alice"] = "secretFailed"
    BY <2>1, <2>2, <2>3
  <2>6. status'["Alice"] = "closed" => status["Alice"] = "closed"
    BY <2>1, <2>4
  <2>7. row["Alice"] # "none"
    BY <1>3 DEF AliceInv
  <2>8. Guarded(<< >>, "RcvRecpt", CheckingPrice) /\ Guarded(<< >>, "CheckPrice", Submitting)
    BY GuardedEmpty
  <2> QED BY <2>1, <2>5, <2>6, <2>7, <2>8, NothingLeft DEF AliceInv, Receipted
<1> QED BY <1>2, <1>3

\* The deferred update of Alice's row, and the end of her process.
LEMMA AliceReturn ==
    ASSUME TypeOK, ProgType, AliceInv, Return("Alice")
    PROVE  AliceInv'
<1>1. /\ row'["Alice"] = status["Alice"] /\ live'["Alice"] = "ended" /\ todo["Alice"] = << >>
      /\ UNCHANGED <<todo, status, sent, receipt, rec>>
  BY DEF Return, TypeOK, Roles, chainVars
<1>2. status["Alice"] # "none"
  BY DEF TypeOK, Statuses, Roles
<1>3. rec # "none" => status["Alice"] \notin AliceBefore
  BY <1>1 DEF AliceInv, AliceBefore
<1> QED BY <1>1, <1>2, <1>3 DEF AliceInv, Receipted

\* Alice's process stops: her row and her key stay as they are.
LEMMA AliceCrash ==
    ASSUME TypeOK, AliceInv, Crash("Alice")
    PROVE  AliceInv'
<1>1. live'["Alice"] = "crashed" /\ UNCHANGED <<todo, status, row, sent, receipt, rec>>
  BY DEF Crash, TypeOK, Roles, chainVars
<1> QED BY <1>1 DEF AliceInv, Receipted
-----------------------------------------------------------------------------
(***************************************************************************)
(* What the steps do to Bob's part of the invariant.                       *)
(***************************************************************************)
\* Steps of Alice and of the chain.
LEMMA BobFrame ==
    ASSUME BobInv,
           todo'["Bob"] = todo["Bob"], live'["Bob"] = live["Bob"],
           status'["Bob"] = status["Bob"], row'["Bob"] = row["Bob"],
           prog' = prog, genuine' = genuine, Receipted' = Receipted, rec = "mined" => rec' = "mined"
    PROVE  BobInv'
BY DEF BobInv, Verdict

\* A call of Bob's that succeeds.
LEMMA BobAdvance ==
    ASSUME TypeOK, ProgType, BobInv, live["Bob"] = "running", todo["Bob"] # << >>,
           Advance("Bob"), UNCHANGED <<prog, genuine, rec>>,
           Head(todo["Bob"]).op = "InsertTx" => row' = [row EXCEPT !["Bob"] = "start"],
           Head(todo["Bob"]).op # "InsertTx" => row' = row,
           Head(todo["Bob"]).op # "SendRecpt" => Receipted' = Receipted,
           Head(todo["Bob"]).op = "ReadScrt" => rec = "mined",
           Head(todo["Bob"]).op = "VerifySecret" => genuine
    PROVE  BobInv'
<1> DEFINE B == todo["Bob"]
<1> DEFINE c == Head(todo["Bob"])
<1> DEFINE T == Tail(todo["Bob"])
<1>0. "Bob" \in Roles /\ B # << >>
  BY DEF Roles
<1>1. BobOrder(B) /\ B \in Seq(Calls)
  BY <1>0 DEF BobInv, ProgType
<1>2. /\ BobOrder(T) /\ c \in BobCalls
      /\ c.op = "SendRecpt" => c.ok = "receipted" /\ T \in Seq(Late)
  BY <1>0, <1>1, BobTail
<1>3. /\ c = B[1] /\ 1 \in 1..Len(B) /\ c \in Calls
      /\ \A i \in 1..Len(T) : i + 1 \in 1..Len(B) /\ T[i] = B[i + 1]
  BY <1>0, <1>1, HeadAndTail
<1>4. /\ todo'["Bob"] = T /\ live' = live
      /\ status'["Bob"] = IF c.ok = "" THEN status["Bob"] ELSE c.ok
  BY <1>0 DEF Advance, TypeOK, ProgType
<1>5. row'["Bob"] = row["Bob"] \/ row'["Bob"] = "start"
  BY <1>0 DEF TypeOK
<1>6. Guarded(B, "ReadScrt", Delivering) /\ c.op # "ReadScrt" => Guarded(T, "ReadScrt", Delivering)
  BY <1>0, <1>1, GuardedTail
<1>7. Guarded(B, "VerifySecret", Closing) /\ c.op # "VerifySecret" => Guarded(T, "VerifySecret", Closing)
  BY <1>0, <1>1, GuardedTail
<1>8. c \in Delivering => rec = "mined"
  BY <1>0, <1>1, GuardedHead DEF BobInv
<1>9. c \in Closing => genuine
  BY <1>0, <1>1, GuardedHead DEF BobInv
<1>10. Receipted => B \in Seq(Late)
  BY DEF BobInv
<1>11. Receipted => T \in Seq(Late) /\ c \in Late
  BY <1>0, <1>10, HeadAndTail
<1>12. c \in Claiming => ~genuine /\ prog \in ComplaintPrograms
  BY <1>3 DEF BobInv
<1>13. (\E i \in 1..Len(T) : T[i] \in Claiming) => ~genuine /\ prog \in ComplaintPrograms
  BY <1>3 DEF BobInv
<1>14. row["Bob"] \notin BobBefore
  BY DEF BobInv
<1> HIDE DEF B, c, T
<1>15. Receipted' => T \in Seq(Late) /\ status'["Bob"] \notin BobBefore
  <2>1. CASE c.op = "SendRecpt"
    BY <2>1, <1>2, <1>4 DEF BobBefore
  <2>2. CASE c.op # "SendRecpt"
    BY <2>2, <1>4, <1>11 DEF BobInv, Late, c
  <2> QED BY <2>1, <2>2
<1>16. Guarded(T, "ReadScrt", Delivering) \/ rec = "mined"
  BY <1>6 DEF BobInv, B, c
<1>17. Guarded(T, "VerifySecret", Closing) \/ genuine
  BY <1>7 DEF BobInv, B, c
<1>18. Verdict(status["Bob"]) /\ Verdict(row["Bob"])
  BY DEF BobInv
<1>19. Verdict(c.ok)
  <2>1. c.ok \in BobAfter => rec = "mined"
    BY <1>3, <1>8 DEF Delivering
  <2>2. c.ok = "closed" => genuine
    BY <1>3, <1>9 DEF Closing, c
  <2>3. c.ok = "claimed" => ~genuine /\ prog \in ComplaintPrograms
    BY <1>3, <1>12 DEF Claiming
  <2> QED BY <2>1, <2>2, <2>3 DEF Verdict
<1>20. Verdict(status["Bob"])' /\ Verdict(row["Bob"])'
  <2>1. Verdict("start")
    BY DEF Verdict, BobAfter
  <2> QED BY <2>1, <1>4, <1>5, <1>18, <1>19 DEF Verdict
<1>21. row'["Bob"] \notin BobBefore
  BY <1>5, <1>14 DEF BobBefore
<1> QED BY <1>2, <1>4, <1>13, <1>15, <1>16, <1>17, <1>20, <1>21 DEF BobInv

\* A call of Bob's that fails.
LEMMA BobFail ==
    ASSUME TypeOK, ProgType, BobInv, live["Bob"] = "running", todo["Bob"] # << >>,
           FailStep("Bob"), UNCHANGED <<prog, row, sent, genuine, rec>>
    PROVE  BobInv'
<1> DEFINE c == Head(todo["Bob"])
<1>0. "Bob" \in Roles /\ "Bob" # "Alice"
  BY DEF Roles
<1>1. /\ c \in BobCalls /\ c \in Calls
      /\ Receipted => c \in Late
  <2>1. c \in BobCalls
    BY HeadAndTail DEF BobInv, BobOrder
  <2>2. Receipted => c \in Late
    BY HeadAndTail DEF BobInv
  <2> QED BY <2>1, <2>2 DEF BobCalls
<1>2. CASE c.op = "InsertTx"
  <2>1. live'["Bob"] # "running" /\ todo' = todo /\ status' = status
    BY <1>0, <1>2 DEF FailStep, TypeOK
  <2> QED BY <2>1 DEF BobInv, Receipted, Verdict
<1>3. CASE c.op # "InsertTx"
  <2>1. /\ todo'["Bob"] = << >> /\ live' = live
        /\ status'["Bob"] = IF c.fail = "" THEN status["Bob"] ELSE c.fail
    BY <1>0, <1>3 DEF FailStep, TypeOK, ProgType
  <2>2. c.fail \in BobAfter => rec = "mined"
    <3>1. c.fail \in BobAfter => c \in Delivering
      BY <1>1 DEF Delivering
    <3>2. todo["Bob"] \in Seq(Calls)
      BY <1>0 DEF ProgType
    <3> QED BY <3>1, <3>2, GuardedHead DEF BobInv
  <2>3. c.fail # "closed" /\ c.fail # "claimed"
    BY <1>1 DEF BobCalls
  <2>4. Verdict(c.fail) /\ Verdict(status["Bob"]) /\ Verdict(row["Bob"])
    BY <2>2, <2>3 DEF Verdict, BobInv
  <2>5. Verdict(status["Bob"])' /\ Verdict(row["Bob"])'
    BY <2>1, <2>4 DEF Verdict
  <2>6. Receipted => status'["Bob"] \notin BobBefore
    BY <2>1, <1>1 DEF BobInv, Late
  <2>7. Guarded(<< >>, "ReadScrt", Delivering) /\ Guarded(<< >>, "VerifySecret", Closing)
    BY GuardedEmpty
  <2> QED BY <2>1, <2>5, <2>6, <2>7, NothingLeft DEF BobInv, Receipted
<1> QED BY <1>2, <1>3

\* A key that does not verify, in the complaint programs.
LEMMA BobComplains ==
    ASSUME TypeOK, ProgType, BobInv, live["Bob"] = "running", todo["Bob"] # << >>,
           Head(todo["Bob"]).op = "VerifySecret", ~genuine, prog \in ComplaintPrograms,
           todo' = [todo EXCEPT !["Bob"] = BobClaim],
           status' = [status EXCEPT !["Bob"] = "verifyFailed"],
           UNCHANGED <<live, prog, row, sent, genuine, rec>>
    PROVE  BobInv'
<1> DEFINE t == BobClaim
<1>0. "Bob" \in Roles /\ todo["Bob"] \in Seq(Calls)
  BY DEF Roles, ProgType
<1>1. rec = "mined"
  <2>1. Head(todo["Bob"]) \in Delivering
    BY <1>0, HeadAndTail DEF Delivering
  <2> QED BY <2>1, <1>0, GuardedHead DEF BobInv
<1>2. /\ St("GeneClaim", "claimFailed", "") \in Late /\ St("Claim", "claimFailed", "claimed") \in Late
      /\ St("GeneClaim", "claimFailed", "").op = "GeneClaim"
      /\ St("Claim", "claimFailed", "claimed").op = "Claim"
      /\ St("GeneClaim", "claimFailed", "") \notin Closing
      /\ St("Claim", "claimFailed", "claimed") \notin Closing
  BY DEF St, Late, BobCalls, BobBefore, Closing, Calls, Ops, Statuses
<1>3. t \in Seq(Late)
  BY <1>2, Tuple2 DEF BobClaim
<1>4. Len(t) = 2 /\ t[1] = St("GeneClaim", "claimFailed", "") /\ t[2] = St("Claim", "claimFailed", "claimed")
  BY Items2, Zenon DEF BobClaim
<1>5. /\ Len(t) = 2 /\ t[1].op = "GeneClaim" /\ t[2].op = "Claim"
      /\ t[1] \notin Closing /\ t[2] \notin Closing
  BY <1>2, <1>4, Zenon
<1>6. todo'["Bob"] = t /\ status'["Bob"] = "verifyFailed"
  BY <1>0 DEF TypeOK, ProgType
<1> HIDE DEF t
<1>7. \A i \in 1..Len(t) : t[i].op # "SendRecpt" /\ t[i] \notin Closing
  <2>1. \A i \in 1..Len(t) : i \in {1, 2}
    BY <1>5
  <2> QED BY <2>1, <1>5
<1>8. BobOrder(t)
  <2>1. t \in Seq(BobCalls)
    BY <1>3, SeqMonotonic DEF Late
  <2> QED BY <2>1, <1>7 DEF BobOrder, ReceiptOnce
<1>9. Guarded(t, "VerifySecret", Closing)
  BY <1>7 DEF Guarded
<1>10. Verdict("verifyFailed")
  BY <1>1 DEF Verdict
<1>11. Verdict(status["Bob"])' /\ Verdict(row["Bob"])'
  BY <1>6, <1>10 DEF Verdict, BobInv
<1>12. "verifyFailed" \notin BobBefore
  BY DEF BobBefore
<1> QED BY <1>1, <1>3, <1>6, <1>8, <1>9, <1>11, <1>12 DEF BobInv, Receipted

\* The deferred update of Bob's row, and the end of his process.
LEMMA BobReturn ==
    ASSUME TypeOK, ProgType, BobInv, Return("Bob")
    PROVE  BobInv'
<1>1. /\ row'["Bob"] = status["Bob"] /\ live'["Bob"] = "ended"
      /\ UNCHANGED <<prog, todo, status, sent, genuine, rec>>
  BY DEF Return, TypeOK, Roles, chainVars
<1> QED BY <1>1 DEF BobInv, Receipted, Verdict

\* Bob's process stops.
LEMMA BobCrash ==
    ASSUME TypeOK, BobInv, Crash("Bob")
    PROVE  BobInv'
<1>1. live'["Bob"] = "crashed" /\ UNCHANGED <<prog, todo, status, row, sent, genuine, rec>>
  BY DEF Crash, TypeOK, Roles, chainVars
<1> QED BY <1>1 DEF BobInv, Receipted, Verdict
-----------------------------------------------------------------------------
(***************************************************************************)
(* The theorems.                                                           *)
(***************************************************************************)
\* The invariant holds when a session has been accepted.
LEMMA TradeInit == ASSUME Init PROVE TradeInv
<1> USE PriceAssumption, TimeAssumption, BoundsAssumption
<1>1. prog \in Programs
  BY ProgsAssumption DEF Init
<1>2. AliceWhole(AliceProgram(prog)) /\ BobWhole(BobProgram(prog))
  BY <1>1, AlicePrograms, BobPrograms
<1>3. todo["Alice"] = AliceProgram(prog) /\ todo["Bob"] = BobProgram(prog)
  BY DEF Init, Roles
<1>4. ProgType
  <2>1. AliceProgram(prog) \in Seq(Calls) /\ BobProgram(prog) \in Seq(Calls)
    BY <1>2, SeqMonotonic DEF AliceWhole, AliceOrder, AliceCalls, BobWhole, BobOrder, BobCalls
  <2> QED BY <2>1 DEF Init, ProgType
<1>5. dep \in [value : 0..MaxDeposit, stat : 0..2, unDepositAt : 0..MaxTime]
  <2>1. {0, MaxDeposit} \subseteq 0..MaxDeposit /\ {0} \subseteq 0..2 /\ {0} \subseteq 0..MaxTime
    OBVIOUS
  <2>2. dep \in [value : {0, MaxDeposit}, stat : {0}, unDepositAt : {0}]
    BY DEF Init
  <2> QED BY <2>1, <2>2
<1>6. TypeOK
  <2>1. receipt \in [price : Nat, expireAt : 0..(MaxTime + Life)]
    BY DEF Init, NoReceipt
  <2> QED BY <1>5, <2>1 DEF Init, TypeOK, Statuses
<1>7. /\ live["Alice"] = "running" /\ live["Bob"] = "running" /\ sent = {} /\ rec = "none"
      /\ status["Alice"] = "start" /\ status["Bob"] = "start"
      /\ row["Alice"] = "none" /\ row["Bob"] = "none"
  BY DEF Init, Roles
<1>8. AliceInv
  BY <1>2, <1>3, <1>7 DEF AliceInv, AliceWhole, AliceBefore, Statuses
<1>9. BobInv
  <2>1. ~Receipted
    BY <1>7 DEF Receipted
  <2>2. Verdict("start") /\ Verdict("none")
    BY DEF Verdict, BobAfter
  <2>3. "none" \notin BobBefore
    BY DEF BobBefore
  <2> QED BY <2>1, <2>2, <2>3, <1>2, <1>3, <1>7 DEF BobInv, BobWhole
<1> QED BY <1>4, <1>6, <1>8, <1>9 DEF TradeInv

\* A step of Alice's does not touch Bob.
LEMMA AliceSteps == ASSUME TradeInv, AliceStep PROVE AliceInv' /\ BobInv'
<1> USE DEF TradeInv
<1>0. "Alice" \in Roles /\ "Bob" \in Roles /\ "Alice" # "Bob"
  BY DEF Roles
<1>1. \A op : At("Alice", op) =>
          live["Alice"] = "running" /\ todo["Alice"] # << >> /\ Head(todo["Alice"]).op = op
  BY DEF At
<1>2. ASSUME Advance("Alice") \/ FailStep("Alice") \/ UNCHANGED progVars
      PROVE  todo'["Bob"] = todo["Bob"] /\ live'["Bob"] = live["Bob"] /\ status'["Bob"] = status["Bob"]
  <2>1. CASE Advance("Alice")
    BY <2>1, <1>0 DEF Advance, TypeOK, ProgType
  <2>2. CASE FailStep("Alice")
    BY <2>2, <1>0 DEF FailStep, TypeOK, ProgType
  <2>3. CASE UNCHANGED progVars
    BY <2>3 DEF progVars
  <2> QED BY <1>2, <2>1, <2>2, <2>3
<1>3. CASE InsertTx("Alice")
  <2>1. row'["Bob"] = row["Bob"]
    BY <1>3, <1>0 DEF InsertTx, TypeOK
  <2>2. AliceInv'
    BY <1>1, <1>3, AliceAdvance DEF InsertTx, Receipted, chainVars
  <2> QED BY <2>1, <2>2, <1>2, <1>3, BobFrame DEF InsertTx, Receipted, chainVars
<1>4. CASE LocalStep("Alice")
  <2>1. PICK op \in LocalOps : At("Alice", op)
    BY <1>4 DEF LocalStep
  <2>2. op \notin {"InsertTx", "RcvRecpt", "CheckPrice", "ReadScrt", "Submit"}
    BY DEF LocalOps
  <2>3. AliceInv'
    BY <1>1, <1>4, <2>1, <2>2, AliceAdvance DEF LocalStep, Receipted, chainVars
  <2> QED BY <2>3, <1>2, <1>4, BobFrame DEF LocalStep, Receipted, chainVars
<1>5. CASE SendStep("Alice")
  <2>1. PICK op \in SendOps :
            /\ At("Alice", op) /\ sent' = sent \cup {<<"Alice", op>>} /\ Advance("Alice")
            /\ UNCHANGED <<prog, row, receipt, chainVars, genuine, polls, now, faults>>
    BY <1>5 DEF SendStep
  <2>2. op \notin {"InsertTx", "RcvRecpt", "CheckPrice", "ReadScrt", "Submit"}
    BY DEF SendOps
  <2>3. Receipted' = Receipted
    BY <1>0, <2>1 DEF Receipted
  <2>4. AliceInv'
    BY <1>1, <2>1, <2>2, <2>3, AliceAdvance DEF chainVars
  <2> QED BY <2>1, <2>3, <2>4, <1>2, BobFrame DEF chainVars
<1>6. CASE RecvStep("Alice")
  <2>1. PICK op \in RecvOps :
            /\ At("Alice", op) /\ <<Peer("Alice"), SenderOf[op]>> \in sent /\ Advance("Alice")
            /\ UNCHANGED <<prog, row, sent, receipt, chainVars, genuine, polls, now, faults>>
    BY <1>6 DEF RecvStep
  <2>2. op \notin {"InsertTx", "CheckPrice", "ReadScrt", "Submit"}
    BY DEF RecvOps, SenderOf
  <2>3. op = "RcvRecpt" => Receipted
    BY <2>1 DEF Receipted, Peer, SenderOf
  <2>4. AliceInv'
    BY <1>1, <2>1, <2>2, <2>3, AliceAdvance DEF chainVars, Receipted
  <2> QED BY <2>1, <2>4, <1>2, BobFrame DEF chainVars, Receipted
<1>7. CASE PeerGone("Alice")
  <2>1. AliceInv'
    BY <1>1, <1>7, AliceFail DEF PeerGone, chainVars
  <2> QED BY <2>1, <1>2, <1>7, BobFrame DEF PeerGone, Receipted, chainVars
<1>8. CASE CalcuDeposit \/ CheckPrice \/ CheckExpire \/ CheckDeposit
  <2>1. UNCHANGED <<prog, row, sent, receipt, chainVars, genuine, polls, now, faults>>
    BY <1>8 DEF CalcuDeposit, CheckPrice, CheckExpire, CheckDeposit
  <2>2. Advance("Alice") \/ FailStep("Alice")
    BY <1>8 DEF CalcuDeposit, CheckPrice, CheckExpire, CheckDeposit
  <2>3. PICK op \in {"CalcuDeposit", "CheckPrice", "CheckExpire", "CheckDeposit"} :
            At("Alice", op) /\ (op = "CheckPrice" /\ Advance("Alice") => receipt.price = Price \/ FailStep("Alice"))
    BY <1>8 DEF CalcuDeposit, CheckPrice, CheckExpire, CheckDeposit
  <2>4. CASE FailStep("Alice")
    <3>1. AliceInv'
      BY <1>1, <2>1, <2>3, <2>4, AliceFail DEF chainVars
    <3> QED BY <3>1, <2>1, <2>4, <1>2, BobFrame DEF Receipted, chainVars
  <2>5. CASE Advance("Alice") /\ ~FailStep("Alice")
    <3>1. AliceInv'
      BY <1>1, <2>1, <2>3, <2>5, AliceAdvance DEF chainVars, Receipted
    <3> QED BY <3>1, <2>1, <2>5, <1>2, BobFrame DEF Receipted, chainVars
  <2> QED BY <2>2, <2>4, <2>5
<1>9. CASE Submit
  <2>1. rec # "mined"
    <3>1. Head(todo["Alice"]) = todo["Alice"][1] /\ 1 \in 1..Len(todo["Alice"])
      BY <1>1, <1>9, HeadAndTail DEF Submit, AliceInv, AliceOrder
    <3>2. LastPoll.op # "Submit"
      BY DEF LastPoll, St
    <3> QED BY <1>1, <1>9, <3>1, <3>2 DEF Submit, AliceInv
  <2>2. AliceInv'
    BY <1>1, <1>9, AliceAdvance DEF Submit, Receipted
  <2> QED BY <2>1, <2>2, <1>2, <1>9, BobFrame DEF Submit, Receipted
<1>10. CASE ReadScrt("Alice")
  <2>1. UNCHANGED <<prog, row, sent, receipt, chainVars, genuine, now, faults>> /\ At("Alice", "ReadScrt")
    BY <1>10 DEF ReadScrt
  <2>2. FailStep("Alice") \/ (rec = "mined" /\ Advance("Alice")) \/ UNCHANGED progVars
    BY <1>10 DEF ReadScrt
  <2>3. BobInv'
    BY <1>2, <2>1, <2>2, BobFrame DEF Receipted, chainVars
  <2>4. AliceInv'
    <3>1. CASE FailStep("Alice")
      BY <3>1, <1>1, <2>1, AliceFail DEF chainVars
    <3>2. CASE rec = "mined" /\ Advance("Alice")
      BY <3>2, <1>1, <2>1, AliceAdvance DEF chainVars, Receipted
    <3>3. CASE UNCHANGED progVars
      BY <3>3, <2>1, AliceFrame DEF progVars, chainVars, Receipted
    <3> QED BY <2>2, <3>1, <3>2, <3>3
  <2> QED BY <2>3, <2>4
<1>11. CASE Return("Alice")
  <2>1. AliceInv'
    BY <1>11, AliceReturn
  <2>2. live'["Bob"] = live["Bob"] /\ row'["Bob"] = row["Bob"]
    BY <1>0, <1>11 DEF Return, TypeOK
  <2> QED BY <2>1, <2>2, <1>11, BobFrame DEF Return, Receipted, chainVars
<1> QED BY <1>3, <1>4, <1>5, <1>6, <1>7, <1>8, <1>9, <1>10, <1>11 DEF AliceStep
\* A step of Bob's does not touch Alice, and leaves a receipt that was sent alone.
LEMMA BobSteps == ASSUME TradeInv, BobStep PROVE AliceInv' /\ BobInv'
<1> USE DEF TradeInv
<1>0. "Alice" \in Roles /\ "Bob" \in Roles /\ "Alice" # "Bob"
  BY DEF Roles
<1>1. \A op : At("Bob", op) =>
          live["Bob"] = "running" /\ todo["Bob"] # << >> /\ Head(todo["Bob"]).op = op
  BY DEF At
<1>2. ASSUME Advance("Bob") \/ FailStep("Bob") \/ UNCHANGED progVars
      PROVE  /\ todo'["Alice"] = todo["Alice"] /\ live'["Alice"] = live["Alice"]
             /\ status'["Alice"] = status["Alice"]
  <2>1. CASE Advance("Bob")
    BY <2>1, <1>0 DEF Advance, TypeOK, ProgType
  <2>2. CASE FailStep("Bob")
    BY <2>2, <1>0 DEF FailStep, TypeOK, ProgType
  <2>3. CASE UNCHANGED progVars
    BY <2>3 DEF progVars
  <2> QED BY <1>2, <2>1, <2>2, <2>3
<1>3. CASE InsertTx("Bob")
  <2>1. row'["Alice"] = row["Alice"]
    BY <1>3, <1>0 DEF InsertTx, TypeOK
  <2>2. BobInv'
    BY <1>1, <1>3, BobAdvance DEF InsertTx, Receipted, chainVars
  <2> QED BY <2>1, <2>2, <1>2, <1>3, AliceFrame DEF InsertTx, Receipted, chainVars
<1>4. CASE LocalStep("Bob")
  <2>1. PICK op \in LocalOps : At("Bob", op)
    BY <1>4 DEF LocalStep
  <2>2. op \notin {"InsertTx", "SendRecpt", "ReadScrt", "VerifySecret"}
    BY DEF LocalOps
  <2>3. BobInv'
    BY <1>1, <1>4, <2>1, <2>2, BobAdvance DEF LocalStep, Receipted, chainVars
  <2> QED BY <2>3, <1>2, <1>4, AliceFrame DEF LocalStep, Receipted, chainVars
<1>5. CASE SendStep("Bob")
  <2>1. PICK op \in SendOps :
            /\ At("Bob", op) /\ sent' = sent \cup {<<"Bob", op>>} /\ Advance("Bob")
            /\ UNCHANGED <<prog, row, receipt, chainVars, genuine, polls, now, faults>>
    BY <1>5 DEF SendStep
  <2>2. op \notin {"InsertTx", "ReadScrt", "VerifySecret"}
    BY DEF SendOps
  <2>3. op # "SendRecpt" => Receipted' = Receipted
    BY <2>1 DEF Receipted
  <2>4. Receipted => Receipted'
    BY <2>1 DEF Receipted
  <2>5. BobInv'
    BY <1>1, <2>1, <2>2, <2>3, BobAdvance DEF chainVars
  <2> QED BY <2>1, <2>4, <2>5, <1>2, AliceFrame DEF chainVars
<1>6. CASE RecvStep("Bob")
  <2>1. PICK op \in RecvOps : At("Bob", op)
    BY <1>6 DEF RecvStep
  <2>2. Advance("Bob") /\ UNCHANGED <<prog, row, sent, receipt, chainVars, genuine, polls, now, faults>>
    BY <1>6 DEF RecvStep
  <2>3. op \notin {"InsertTx", "SendRecpt", "ReadScrt", "VerifySecret"}
    BY DEF RecvOps, SenderOf
  <2>4. BobInv'
    BY <1>1, <2>1, <2>2, <2>3, BobAdvance DEF chainVars, Receipted
  <2> QED BY <2>2, <2>4, <1>2, AliceFrame DEF chainVars, Receipted
<1>7. CASE PeerGone("Bob")
  <2>1. BobInv'
    BY <1>1, <1>7, BobFail DEF PeerGone, chainVars
  <2> QED BY <2>1, <1>2, <1>7, AliceFrame DEF PeerGone, Receipted, chainVars
<1>8. CASE SignRecpt
  <2>1. ~Receipted
    <3>1. Receipted => Head(todo["Bob"]) \in Late
      BY <1>1, <1>8, HeadAndTail DEF SignRecpt, BobInv
    <3> QED BY <1>1, <1>8, <3>1 DEF SignRecpt, Late
  <2>2. BobInv'
    BY <1>1, <1>8, BobAdvance DEF SignRecpt, Receipted, chainVars
  <2> QED BY <2>1, <2>2, <1>2, <1>8, AliceFrame DEF SignRecpt, chainVars
<1>9. CASE ReadScrt("Bob")
  <2>1. UNCHANGED <<prog, row, sent, receipt, chainVars, genuine, now, faults>> /\ At("Bob", "ReadScrt")
    BY <1>9 DEF ReadScrt
  <2>2. FailStep("Bob") \/ (rec = "mined" /\ Advance("Bob")) \/ UNCHANGED progVars
    BY <1>9 DEF ReadScrt
  <2>3. AliceInv'
    BY <1>2, <2>1, <2>2, AliceFrame DEF Receipted, chainVars
  <2>4. BobInv'
    <3>1. CASE FailStep("Bob")
      BY <3>1, <1>1, <2>1, BobFail DEF chainVars
    <3>2. CASE rec = "mined" /\ Advance("Bob")
      BY <3>2, <1>1, <2>1, BobAdvance DEF chainVars, Receipted
    <3>3. CASE UNCHANGED progVars
      BY <3>3, <2>1, BobFrame DEF progVars, chainVars, Receipted
    <3> QED BY <2>2, <3>1, <3>2, <3>3
  <2> QED BY <2>3, <2>4
<1>10. CASE VerifySecret
  <2>1. /\ At("Bob", "VerifySecret")
        /\ UNCHANGED <<prog, row, sent, receipt, chainVars, genuine, polls, now, faults>>
    BY <1>10 DEF VerifySecret
  <2>2. CASE genuine /\ Advance("Bob")
    <3>1. BobInv'
      BY <1>1, <2>1, <2>2, BobAdvance DEF chainVars, Receipted
    <3> QED BY <3>1, <2>1, <2>2, <1>2, AliceFrame DEF chainVars, Receipted
  <2>3. CASE FailStep("Bob")
    <3>1. BobInv'
      BY <1>1, <2>1, <2>3, BobFail DEF chainVars
    <3> QED BY <3>1, <2>1, <2>3, <1>2, AliceFrame DEF chainVars, Receipted
  <2>4. CASE /\ ~genuine /\ prog \in ComplaintPrograms
             /\ todo' = [todo EXCEPT !["Bob"] = BobClaim]
             /\ status' = [status EXCEPT !["Bob"] = "verifyFailed"]
             /\ UNCHANGED live
    <3>1. BobInv'
      BY <1>1, <2>1, <2>4, BobComplains DEF chainVars
    <3>2. todo'["Alice"] = todo["Alice"] /\ status'["Alice"] = status["Alice"]
      BY <1>0, <2>4 DEF TypeOK, ProgType
    <3> QED BY <3>1, <3>2, <2>1, <2>4, AliceFrame DEF chainVars, Receipted
  <2> QED BY <1>10, <2>2, <2>3, <2>4 DEF VerifySecret
<1>11. CASE Claim
  <2>1. Receipted' = Receipted
    BY <1>11 DEF Claim, Receipted
  <2>2. BobInv'
    BY <1>1, <1>11, <2>1, BobAdvance DEF Claim, chainVars
  <2> QED BY <2>1, <2>2, <1>2, <1>11, AliceFrame DEF Claim, chainVars
<1>12. CASE Return("Bob")
  <2>1. BobInv'
    BY <1>12, BobReturn
  <2>2. live'["Alice"] = live["Alice"] /\ row'["Alice"] = row["Alice"]
    BY <1>0, <1>12 DEF Return, TypeOK
  <2> QED BY <2>1, <2>2, <1>12, AliceFrame DEF Return, Receipted, chainVars
<1> QED BY <1>3, <1>4, <1>5, <1>6, <1>7, <1>8, <1>9, <1>10, <1>11, <1>12 DEF BobStep

\* Faults and crashes of either side.
LEMMA FaultSteps ==
    ASSUME TradeInv, NEW r \in Roles, Fail(r) \/ Crash(r)
    PROVE  AliceInv' /\ BobInv'
<1> USE DEF TradeInv
<1>0. "Alice" \in Roles /\ "Bob" \in Roles /\ "Alice" # "Bob" /\ r \in {"Alice", "Bob"}
  BY DEF Roles
<1>1. \A x \in Roles : x # r => todo'[x] = todo[x] /\ live'[x] = live[x] /\ status'[x] = status[x]
  <2>1. CASE Fail(r)
    BY <2>1 DEF Fail, FailStep, TypeOK, ProgType
  <2>2. CASE Crash(r)
    BY <2>2 DEF Crash, TypeOK
  <2> QED BY <2>1, <2>2
<1>2. UNCHANGED <<prog, row, sent, receipt, chainVars, genuine>>
  BY DEF Fail, Crash
<1>3. CASE r = "Alice"
  <2>1. AliceInv'
    <3>1. CASE Fail("Alice")
      BY <3>1, <1>2, AliceFail DEF Fail, chainVars
    <3>2. CASE Crash("Alice")
      BY <3>2, AliceCrash
    <3> QED BY <1>3, <3>1, <3>2
  <2> QED BY <2>1, <1>0, <1>1, <1>2, <1>3, BobFrame DEF chainVars, Receipted
<1>4. CASE r = "Bob"
  <2>1. BobInv'
    <3>1. CASE Fail("Bob")
      BY <3>1, <1>2, BobFail DEF Fail, chainVars
    <3>2. CASE Crash("Bob")
      BY <3>2, BobCrash
    <3> QED BY <1>4, <3>1, <3>2
  <2> QED BY <2>1, <1>0, <1>1, <1>2, <1>4, AliceFrame DEF chainVars, Receipted
<1> QED BY <1>0, <1>3, <1>4

\* Every step keeps the invariant.
LEMMA TradeNext == ASSUME TradeInv, [Next]_vars PROVE TradeInv'
<1>1. TypeOK' /\ ProgType'
  BY TypeStep DEF TradeInv
<1>2. ASSUME Mine \/ BobDeposit \/ BobUnDeposit \/ BobWithdraw \/ Tick \/ UNCHANGED vars
      PROVE  AliceInv' /\ BobInv'
  <2>1. UNCHANGED <<prog, todo, live, status, row, sent, receipt, genuine>>
    BY <1>2 DEF Mine, BobDeposit, BobUnDeposit, BobWithdraw, Tick, vars, progVars
  <2>2. rec' = rec \/ (rec = "pending" /\ rec' \in {"mined", "reverted"})
    BY <1>2 DEF Mine, BobDeposit, BobUnDeposit, BobWithdraw, Tick, vars, chainVars
  <2>3. Receipted' = Receipted
    BY <2>1 DEF Receipted
  <2> QED BY <2>1, <2>2, <2>3, AliceFrame, BobFrame DEF TradeInv
<1>3. AliceInv' /\ BobInv'
  BY <1>2, AliceSteps, BobSteps, FaultSteps DEF Next
<1> QED BY <1>1, <1>3 DEF TradeInv

\* The invariant of every behaviour: what is left of both programs fits what the
\* rows, the messages and the contract already say.
THEOREM TradeInvariant == Spec => []TradeInv
<1>1. Init => TradeInv
  BY TradeInit
<1>2. TradeInv /\ [Next]_vars => TradeInv'
  BY TradeNext
<1> QED BY <1>1, <1>2, PTL DEF Spec

\* The variables of a trade keep their types: no program meets a status that is
\* not of model.go, and deposit, clock and rounds stay within their bounds.
THEOREM TypesKept == Spec => []TypeOK
<1>1. TradeInv => TypeOK
  BY DEF TradeInv
<1> QED BY <1>1, TradeInvariant, PTL

\* Requirement {2} of README.md: in all ten programs the key goes to the contract
\* only for a receipt that Bob sent, over the price Alice computed.
THEOREM KeyForReceipt == Spec => []KeyNeedsReceipt
<1>1. TradeInv => KeyNeedsReceipt
  BY DEF TradeInv, AliceInv, KeyNeedsReceipt, Receipted
<1> QED BY <1>1, TradeInvariant, PTL

\* A row that speaks of a delivery is backed by the contract and by the verdict of
\* the library (updateAliceTxToDB, updateBobTxToDB after any failure or crash).
THEOREM DeliveriesAreReal == Spec => []RecordedAsDelivered
<1>1. TradeInv => RecordedAsDelivered
  BY DEF TradeInv, AliceInv, BobInv, Verdict, RecordedAsDelivered, AliceAfter
<1> QED BY <1>1, TradeInvariant, PTL

\* A row that speaks of a failure before the key was due stays true: the trade is
\* never paid for.
THEOREM FailuresAreReal == Spec => []RecordedAsFailed
<1>1. TradeInv => RecordedAsFailed
  BY DEF TradeInv, AliceInv, BobInv, RecordedAsFailed
<1> QED BY <1>1, TradeInvariant, PTL

\* A key on the chain has a row in Alice's database, from which she withdraws.
THEOREM KeyIsRecorded == Spec => []KeyHasRow
<1>1. TradeInv => KeyHasRow
  BY DEF TradeInv, AliceInv, KeyHasRow
<1> QED BY <1>1, TradeInvariant, PTL
-----------------------------------------------------------------------------
(***************************************************************************)
(* A trade is a fair exchange.                                             *)
(***************************************************************************)
\* A program that runs has recorded no verdict yet.
RowsOpen == \A r \in Roles : live[r] = "running" => row[r] \in {"none", "start"}

Promised == Receipted /\ receipt.price = Price

\* No step revives a program, and only the insert and the return touch its row.
LEMMA RowSteps ==
    ASSUME TypeOK, [Next]_vars
    PROVE  /\ \A x \in Roles : live'[x] = "running" => live[x] = "running"
           /\ row' = row \/ \E r \in Roles : InsertTx(r) \/ Return(r)
<1>0. "Alice" \in Roles /\ "Bob" \in Roles /\ live \in [Roles -> {"running", "ended", "crashed"}]
  BY DEF Roles, TypeOK
<1>1. ASSUME NEW r \in Roles, Advance(r) \/ FailStep(r)
      PROVE  \A x \in Roles : live'[x] = "running" => live[x] = "running"
  BY <1>0, <1>1 DEF Advance, FailStep
<1>2. ASSUME NEW r \in Roles, InsertTx(r) \/ Return(r)
      PROVE  \A x \in Roles : live'[x] = "running" => live[x] = "running"
  BY <1>0, <1>1, <1>2 DEF InsertTx, Return
<1>3. ASSUME NEW r \in Roles,
             LocalStep(r) \/ SendStep(r) \/ RecvStep(r) \/ PeerGone(r) \/ ReadScrt(r) \/ Fail(r)
      PROVE  row' = row /\ \A x \in Roles : live'[x] = "running" => live[x] = "running"
  BY <1>1, <1>3 DEF LocalStep, SendStep, RecvStep, PeerGone, ReadScrt, Fail, progVars
<1>4. ASSUME NEW r \in Roles, Crash(r)
      PROVE  row' = row /\ \A x \in Roles : live'[x] = "running" => live[x] = "running"
  BY <1>0, <1>4 DEF Crash
<1>5. ASSUME CalcuDeposit \/ CheckPrice \/ CheckExpire \/ CheckDeposit \/ Submit
      PROVE  row' = row /\ \A x \in Roles : live'[x] = "running" => live[x] = "running"
  BY <1>0, <1>1, <1>5 DEF CalcuDeposit, CheckPrice, CheckExpire, CheckDeposit, Submit
<1>6. ASSUME SignRecpt \/ VerifySecret \/ Claim
      PROVE  row' = row /\ \A x \in Roles : live'[x] = "running" => live[x] = "running"
  BY <1>0, <1>1, <1>6 DEF SignRecpt, VerifySecret, Claim
<1>7. ASSUME Mine \/ BobDeposit \/ BobUnDeposit \/ BobWithdraw \/ Tick \/ UNCHANGED vars
      PROVE  row' = row /\ \A x \in Roles : live'[x] = "running" => live[x] = "running"
  BY <1>7 DEF Mine, BobDeposit, BobUnDeposit, BobWithdraw, Tick, vars, progVars
<1> QED BY <1>0, <1>2, <1>3, <1>4, <1>5, <1>6, <1>7 DEF Next, AliceStep, BobStep

\* What the two steps that touch a row leave in it.
LEMMA RowsStayOpen ==
    ASSUME TypeOK, RowsOpen, [Next]_vars
    PROVE  RowsOpen'
<1>1. CASE row' = row
  BY <1>1, RowSteps DEF RowsOpen
<1>2. ASSUME NEW r \in Roles, InsertTx(r) PROVE RowsOpen'
  <2>1. row' = [row EXCEPT ![r] = "start"]
    BY <1>2 DEF InsertTx
  <2> QED BY <2>1, RowSteps DEF RowsOpen, TypeOK
<1>3. ASSUME NEW r \in Roles, Return(r) PROVE RowsOpen'
  <2>1. row' = [row EXCEPT ![r] = status[r]] /\ live' = [live EXCEPT ![r] = "ended"]
    BY <1>3 DEF Return
  <2> QED BY <2>1 DEF RowsOpen, TypeOK
<1> QED BY <1>1, <1>2, <1>3, RowSteps

\* A row that the program may still write says nothing of the trade.
LEMMA OpenRows == \A x \in {"none", "start"} : Sale(x) = "open" /\ Purchase(x) = "open"
BY DEF Sale, Purchase, AliceAfter, AliceBefore, BobAfter, BobBefore, Statuses

\* Which steps touch what module FairExchange sees, the rows apart.
LEMMA ExchangeSteps ==
    ASSUME TradeInv, [Next]_vars
    PROVE  /\ genuine' = genuine
           /\ Promised' = Promised \/ (~Promised /\ Promised' /\ SendStep("Bob"))
           /\ rec' = rec \/ Submit \/ Mine
<1> USE DEF TradeInv
<1>1. ASSUME NEW r \in Roles,
             InsertTx(r) \/ LocalStep(r) \/ RecvStep(r) \/ PeerGone(r) \/ ReadScrt(r) \/ Return(r)
                \/ Fail(r) \/ Crash(r)
      PROVE  UNCHANGED <<genuine, sent, receipt, rec>>
  BY <1>1 DEF InsertTx, LocalStep, RecvStep, PeerGone, ReadScrt, Return, Fail, Crash, chainVars
<1>2. ASSUME CalcuDeposit \/ CheckPrice \/ CheckExpire \/ CheckDeposit \/ VerifySecret
      PROVE  UNCHANGED <<genuine, sent, receipt, rec>>
  BY <1>2 DEF CalcuDeposit, CheckPrice, CheckExpire, CheckDeposit, VerifySecret, chainVars
<1>3. ASSUME BobDeposit \/ BobUnDeposit \/ BobWithdraw \/ Tick \/ UNCHANGED vars
      PROVE  UNCHANGED <<genuine, sent, receipt, rec>>
  BY <1>3 DEF BobDeposit, BobUnDeposit, BobWithdraw, Tick, vars, chainVars
<1>4. ASSUME Submit \/ Mine PROVE UNCHANGED <<genuine, sent, receipt>>
  BY <1>4 DEF Submit, Mine
<1>5. ASSUME NEW r \in Roles, SendStep(r)
      PROVE  /\ UNCHANGED <<genuine, receipt, rec>> /\ (Receipted => Receipted')
             /\ r = "Alice" => Receipted' = Receipted
  BY <1>5 DEF SendStep, Receipted, chainVars
<1>6. ASSUME Claim PROVE UNCHANGED <<genuine, receipt, rec>> /\ Receipted' = Receipted
  BY <1>6 DEF Claim, Receipted, chainVars
<1>7. ASSUME SignRecpt PROVE UNCHANGED <<genuine, rec>> /\ ~Receipted /\ ~Receipted'
  <2>1. At("Bob", "SignRecpt") /\ UNCHANGED <<sent, genuine, rec>>
    BY <1>7 DEF SignRecpt, chainVars
  <2>2. Receipted => Head(todo["Bob"]) \in Late
    BY <2>1, HeadAndTail DEF At, BobInv
  <2> QED BY <2>1, <2>2 DEF At, Late, Receipted
<1>8. UNCHANGED <<sent, receipt>> => Promised' = Promised
  BY DEF Promised, Receipted
<1>9. ASSUME SendStep("Bob") PROVE Promised' = Promised \/ (~Promised /\ Promised')
  BY <1>5, <1>9 DEF Promised, Roles
<1>10. ASSUME SendStep("Alice") \/ Claim \/ SignRecpt PROVE Promised' = Promised
  BY <1>5, <1>6, <1>7, <1>10 DEF Promised, Roles
<1>11. CASE \E r \in Roles : InsertTx(r) \/ LocalStep(r) \/ RecvStep(r) \/ PeerGone(r)
                               \/ ReadScrt(r) \/ Return(r) \/ Fail(r) \/ Crash(r)
  BY <1>1, <1>8, <1>11
<1>12. CASE CalcuDeposit \/ CheckPrice \/ CheckExpire \/ CheckDeposit \/ VerifySecret
  BY <1>2, <1>8, <1>12
<1>13. CASE BobDeposit \/ BobUnDeposit \/ BobWithdraw \/ Tick \/ UNCHANGED vars
  BY <1>3, <1>8, <1>13
<1>14. CASE Submit \/ Mine
  BY <1>4, <1>8, <1>14
<1>15. CASE SendStep("Alice") \/ Claim \/ SignRecpt
  BY <1>5, <1>6, <1>7, <1>10, <1>15 DEF Roles
<1>16. CASE SendStep("Bob")
  BY <1>5, <1>9, <1>16 DEF Roles
<1> QED BY <1>11, <1>12, <1>13, <1>14, <1>15, <1>16 DEF Next, AliceStep, BobStep, Roles

\* A step of a trade is a step of the exchange, or none.
LEMMA ExchangeNext ==
    ASSUME TradeInv, TradeInv', RowsOpen, [Next]_vars
    PROVE  [Exchange!Next]_(Exchange!exchange)
<1> USE DEF TradeInv
<1> DEFINE Same == /\ Sale(row'["Alice"]) = Sale(row["Alice"])
                   /\ Purchase(row'["Bob"]) = Purchase(row["Bob"])
<1>0. "Alice" \in Roles /\ "Bob" \in Roles /\ "Alice" # "Bob"
  BY DEF Roles
<1>1. row' = row => Same
  OBVIOUS
<1>2. \A r \in Roles : InsertTx(r) \/ Return(r) => UNCHANGED <<sent, receipt, genuine, rec>>
  BY DEF InsertTx, Return, chainVars
<1>3. genuine' = genuine
  BY ExchangeSteps
<1>4. CASE Mine
  <2>1. rec = "pending" /\ rec' \in {"mined", "reverted"} /\ UNCHANGED <<row, sent, receipt>>
    BY <1>4 DEF Mine
  <2>2. Promised' = Promised
    BY <2>1 DEF Promised, Receipted
  <2>3. Exchange!Settle
    BY <2>1, <2>2, <1>1, <1>3 DEF Exchange!Settle, Promised, Receipted
  <2> QED BY <2>3 DEF Exchange!Next
<1>5. CASE Submit
  <2>1. rec' = "pending" /\ UNCHANGED <<row, sent, receipt>> /\ At("Alice", "Submit")
    BY <1>5 DEF Submit
  <2>2. Promised' = Promised
    BY <2>1 DEF Promised, Receipted
  <2>3. rec = "none"
    <3>1. Head(todo["Alice"]) = todo["Alice"][1] /\ 1 \in 1..Len(todo["Alice"])
      BY <2>1, HeadAndTail DEF At, AliceInv, AliceOrder
    <3>2. LastPoll.op # "Submit"
      BY DEF LastPoll, St
    <3> QED BY <2>1, <3>1, <3>2 DEF At, AliceInv
  <2>4. Promised'
    BY <2>1 DEF AliceInv, Promised
  <2>5. Sale(row["Alice"]) = "open"
    BY <2>1, <1>0, OpenRows DEF At, RowsOpen
  <2>6. Purchase(row["Bob"]) # "refused"
    <3>1. row["Bob"] \notin BobBefore
      BY <2>2, <2>4 DEF BobInv, Promised
    <3> QED BY <3>1 DEF Purchase
  <2>7. Exchange!Reveal
    BY <2>1, <2>2, <2>3, <2>4, <2>5, <2>6, <1>1, <1>3 DEF Exchange!Reveal, Promised, Receipted
  <2> QED BY <2>7 DEF Exchange!Next
<1>6. CASE Return("Alice")
  <2>1. /\ live["Alice"] = "running" /\ row' = [row EXCEPT !["Alice"] = status["Alice"]]
        /\ UNCHANGED <<sent, receipt, rec>>
    BY <1>6 DEF Return, chainVars
  <2>2. Promised' = Promised
    BY <2>1 DEF Promised, Receipted
  <2>3. row'["Bob"] = row["Bob"]
    BY <2>1, <1>0 DEF TypeOK
  <2>4. Purchase(row'["Bob"]) = Purchase(row["Bob"])
    BY <2>3
  <2>5. Sale(row["Alice"]) = "open"
    BY <2>1, <1>0, OpenRows DEF RowsOpen
  <2>6. \/ Sale(row'["Alice"]) = "open"
        \/ Sale(row'["Alice"]) = "delivered" /\ rec' = "mined"
        \/ Sale(row'["Alice"]) = "withdrawn" /\ rec' = "none"
    BY DEF AliceInv, Sale, AliceAfter
  <2>7. CASE Sale(row'["Alice"]) = "open"
    BY <2>1, <2>2, <2>4, <2>5, <2>7, <1>3 DEF Exchange!exchange, Promised, Receipted
  <2>8. CASE Sale(row'["Alice"]) # "open"
    <3>1. Exchange!SellerEnds
      BY <2>1, <2>2, <2>4, <2>5, <2>6, <2>8, <1>3 DEF Exchange!SellerEnds, Promised, Receipted
    <3> QED BY <3>1 DEF Exchange!Next
  <2> QED BY <2>7, <2>8
<1>7. CASE Return("Bob")
  <2>1. /\ live["Bob"] = "running" /\ row' = [row EXCEPT !["Bob"] = status["Bob"]]
        /\ UNCHANGED <<sent, receipt, rec>>
    BY <1>7 DEF Return, chainVars
  <2>2. Promised' = Promised /\ Receipted' = Receipted
    BY <2>1 DEF Promised, Receipted
  <2>3. row'["Alice"] = row["Alice"]
    BY <2>1, <1>0 DEF TypeOK
  <2>4. Sale(row'["Alice"]) = Sale(row["Alice"])
    BY <2>3
  <2>5. Purchase(row["Bob"]) = "open"
    BY <2>1, <1>0, OpenRows DEF RowsOpen
  <2>6. \/ Purchase(row'["Bob"]) = "open"
        \/ Purchase(row'["Bob"]) = "delivered" /\ rec' = "mined" /\ genuine'
        \/ Purchase(row'["Bob"]) = "claimed" /\ rec' = "mined" /\ ~genuine'
        \/ Purchase(row'["Bob"]) = "paid" /\ rec' = "mined"
        \/ Purchase(row'["Bob"]) = "refused" /\ ~Receipted'
    <3>1. CASE row'["Bob"] = "closed"
      BY <3>1 DEF BobInv, Verdict, Purchase, BobAfter
    <3>2. CASE row'["Bob"] = "claimed"
      BY <3>2 DEF BobInv, Verdict, Purchase, BobAfter
    <3>3. CASE row'["Bob"] \notin {"closed", "claimed"}
      BY <3>3 DEF BobInv, Verdict, Purchase
    <3> QED BY <3>1, <3>2, <3>3
  <2>7. CASE Purchase(row'["Bob"]) = "open"
    BY <2>1, <2>2, <2>4, <2>5, <2>7, <1>3 DEF Exchange!exchange, Promised, Receipted
  <2>8. CASE Purchase(row'["Bob"]) # "open"
    <3>1. Exchange!BuyerEnds
      BY <2>1, <2>2, <2>4, <2>5, <2>6, <2>8, <1>3 DEF Exchange!BuyerEnds, Promised, Receipted
    <3> QED BY <3>1 DEF Exchange!Next
  <2> QED BY <2>7, <2>8
<1>8. ASSUME NEW r \in Roles, InsertTx(r) PROVE Same
  <2>1. live[r] = "running" /\ row' = [row EXCEPT ![r] = "start"]
    BY <1>8 DEF InsertTx, At
  <2>2. row[r] \in {"none", "start"} /\ row'[r] = "start" /\ \A x \in Roles : x # r => row'[x] = row[x]
    BY <2>1 DEF RowsOpen, TypeOK
  <2>3. CASE r = "Alice"
    <3>1. Sale(row["Alice"]) = "open" /\ Sale(row'["Alice"]) = "open"
      BY <2>2, <2>3, OpenRows
    <3>2. row'["Bob"] = row["Bob"]
      BY <2>2, <2>3, <1>0
    <3> QED BY <3>1, <3>2
  <2>4. CASE r = "Bob"
    <3>1. Purchase(row["Bob"]) = "open" /\ Purchase(row'["Bob"]) = "open"
      BY <2>2, <2>4, OpenRows
    <3>2. row'["Alice"] = row["Alice"]
      BY <2>2, <2>4, <1>0
    <3> QED BY <3>1, <3>2
  <2> QED BY <2>3, <2>4 DEF Roles
<1>9. CASE Same /\ ~Mine /\ ~Submit
  <2>1. rec' = rec
    BY <1>9, ExchangeSteps
  <2>2. CASE Promised' = Promised
    BY <2>1, <2>2, <1>3, <1>9 DEF Exchange!exchange, Promised, Receipted
  <2>3. CASE ~Promised /\ Promised' /\ SendStep("Bob")
    <3>1. live["Bob"] = "running"
      BY <2>3 DEF SendStep, At
    <3>2. Purchase(row["Bob"]) = "open"
      BY <3>1, <1>0, OpenRows DEF RowsOpen
    <3>3. Exchange!Promise
      BY <2>1, <2>3, <3>2, <1>3, <1>9 DEF Exchange!Promise, Promised, Receipted
    <3> QED BY <3>3 DEF Exchange!Next
  <2> QED BY <2>2, <2>3, ExchangeSteps
<1> QED BY <1>1, <1>4, <1>5, <1>6, <1>7, <1>8, <1>9, RowSteps DEF Roles

\* A trade starts as an exchange that is open on both sides.
LEMMA ExchangeInit == ASSUME Init PROVE Exchange!Init /\ RowsOpen
<1>1. row["Alice"] = "none" /\ row["Bob"] = "none" /\ sent = {} /\ rec = "none" /\ genuine \in BOOLEAN
  BY DEF Init, Roles
<1>2. Sale(row["Alice"]) = "open" /\ Purchase(row["Bob"]) = "open"
  BY <1>1, OpenRows
<1>3. RowsOpen
  BY DEF Init, RowsOpen
<1> QED BY <1>1, <1>2, <1>3 DEF Exchange!Init

\* Requirements {1} and {2} of README.md for all ten programs: whatever the two
\* sides, the chain, the user of the deposit, faults and crashes do, a trade of
\* seller_tx.go and buyer_tx.go is a fair exchange.
THEOREM TradeIsExchange == Spec => IsExchange
<1>1. Init => Exchange!Init /\ RowsOpen
  BY ExchangeInit
<1>2. TradeInv /\ RowsOpen /\ [Next]_vars => RowsOpen'
  BY RowsStayOpen DEF TradeInv
<1>3. TradeInv /\ TradeInv' /\ RowsOpen /\ [Next]_vars => [Exchange!Next]_(Exchange!exchange)
  BY ExchangeNext
<1> QED BY <1>1, <1>2, <1>3, TradeInvariant, PTL DEF Spec, IsExchange, Exchange!Spec
=============================================================================
