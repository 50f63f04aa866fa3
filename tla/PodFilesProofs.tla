--------------------------- MODULE PodFilesProofs ---------------------------
(***************************************************************************)
(* PodFiles for any trades, sellers, buyers, ids, prices, demands and      *)
(* faults, and all ten programs.  A directory is of the side that made it  *)
(* (os.Mkdir), so what a running side finds there is what it has put there *)
(* itself: every file is the right one for its name.  That a call finds    *)
(* the file at all is a matter of the order of the program: a call needs   *)
(* others to come before it, and each program is shown to have its calls   *)
(* in such an order once, from its parts.                                  *)
(***************************************************************************)
EXTENDS PodFiles, SequenceTheorems, TLAPS

\* The calls of the programs, each with its statuses.
Ops == {"InsertTx", "NewSess", "RcvNegoReq", "GeneNegoResp", "GeneNegoReq", "SendNegoReq",
        "SendNegoResp", "RcvNegoResp", "DealNegoResp", "RcvReq", "CalcuCnt", "CalcuDeposit",
        "VerifyReq", "SendResp", "RcvRecpt", "CheckPrice", "VerifyReceipt", "CheckExpire",
        "CheckDeposit", "Submit", "ReadScrt", "NewReq", "SendReq", "RcvResp", "VerifyResp",
        "ReadReceipt", "SignRecpt", "SendRecpt", "SaveScrt", "VerifySecret", "Decrypt",
        "GeneClaim", "Claim"}
Marks == {"", "start", "startFailed", "nego", "NegoFailed", "requested", "requestFailed",
          "invalidRequest", "depositNotEnough", "generateResponse", "responsed", "responseFailed",
          "receipted", "receiptFailed", "generateSecret", "generateSecretFailed",
          "secretterminated", "secretFailed", "secretGotFailed", "GotSecret", "verifyFailed",
          "decryptFailed", "claimed", "claimFailed", "closed"}
Steps == [op : Ops, fail : Marks, ok : Marks]

\* The calls that must come before a call of a side.  "Sale" is no call: only a sale of
\* data, not a query, has units to count.
Needs(r, op) ==
    IF r = "Alice"
    THEN CASE op = "GeneNegoResp"                -> {"RcvNegoReq"}
           [] op = "DealNegoResp"                -> {"RcvNegoResp"}
           [] op = "CalcuCnt"                    -> {"RcvReq", "Sale"}
           [] op = "VerifyReq"                   -> {"RcvReq"}
           [] op = "CalcuDeposit"                -> {"CalcuCnt"}
           [] op = "CheckPrice"                  -> {"RcvRecpt", "CalcuDeposit"}
           [] op = "VerifyReceipt"               -> {"RcvRecpt"}
           [] op = "Submit"                      -> {"RcvRecpt", "CalcuCnt", "VerifyReceipt"}
           [] OTHER                              -> {}
    ELSE CASE op \in {"GeneNegoResp", "DealNegoResp"} -> {"RcvNegoResp"}
           [] op = "VerifyResp"                  -> {"RcvResp"}
           [] op = "ReadReceipt"                 -> {"VerifyResp"}
           [] op = "SignRecpt"                   -> {"ReadReceipt"}
           [] op = "SendRecpt"                   -> {"SignRecpt"}
           [] op = "SaveScrt"                    -> {"ReadScrt"}
           [] op = "VerifySecret"                -> {"SaveScrt"}
           [] OTHER                              -> {}

\* In s, after the calls of D, every call comes after the ones it needs.
Ready(r, s, D) == \A i \in 1..Len(s) : Needs(r, s[i].op) \subseteq D \cup {s[j].op : j \in 1..(i - 1)}

-----------------------------------------------------------------------------
(***************************************************************************)
(* What is right for a trade.                                              *)
(***************************************************************************)
Names == {"request", "response", "receipt", "secret", "positions", "output", "claim",
          "Alice_nego_request", "Alice_nego_response", "Bob_nego_request", "Bob_nego_response"}

\* The library call that makes the file of a name.
MadeBy(name) ==
    CASE name = "request"  -> "GetRequest"
      [] name = "response" -> "OnRequest"
      [] name = "receipt"  -> "OnResponse"
      [] name = "secret"   -> "OnReceipt"
      [] name = "positions" -> "OnSecret"
      [] name = "output"    -> "Decrypt"
      [] name = "claim"     -> "GenerateClaim"
      [] name \in {"Alice_nego_request", "Bob_nego_request"}   -> "GetNegoRequest"
      [] name \in {"Alice_nego_response", "Bob_nego_response"} -> "OnNegoRequest"
Right(t, name) == Made(MadeBy(name), t)

\* The units bought, their price, and the buyer's signature.
Units == BobCnt(prog, order.demands, order.phantoms)
Due == UnitPrice * Units
RightSign(t) ==
    signRecpt(prog, buyer[t], seller[t], sid[t], readReceipt(prog, Right(t, "receipt")), Due,
              ExpireAt(t), "blt")

\* A message with the parts its receiver expects.
RightMsg(m) ==
    /\ m.trade \in Trades /\ m.from \in Roles /\ sid[m.trade] # 0
    /\ m.op \in DOMAIN SendFiles[m.from] =>
            LET names == SendFiles[m.from][m.op]
            IN  \A i \in DOMAIN names : m.body[i] = Right(m.trade, names[i])
    /\ m.op = "SendRecpt" =>
            m.body = <<Right(m.trade, "receipt"), RightSign(m.trade), Due, ExpireAt(m.trade)>>

-----------------------------------------------------------------------------
(***************************************************************************)
(* The invariant.                                                          *)
(***************************************************************************)
\* A side that has made its directory and not ended.
Running(t, r) == todo[t][r] # << >> /\ ~At(t, r, "Mkdir")

Has(t, r, name) == File(t, r, name) \in DOMAIN files

\* What a call leaves behind for the ones that need it.
Effect(t, r, op) ==
    IF r = "Alice"
    THEN CASE op = "RcvNegoReq"    -> Has(t, r, "Bob_nego_request")
           [] op = "RcvNegoResp"   -> Has(t, r, "Bob_nego_response")
           [] op = "RcvReq"        -> Has(t, r, "request")
           [] op = "Sale"          -> prog \notin QueryPrograms
           [] op = "CalcuCnt"      -> aliceTx[t].count = Units
           [] op = "CalcuDeposit"  -> aliceTx[t].price = Due
           [] op = "RcvRecpt"      -> /\ Has(t, r, "receipt") /\ aliceTx[t].sign = RightSign(t)
                                      /\ aliceTx[t].signPrice = Due
                                      /\ aliceTx[t].expireAt = ExpireAt(t)
           [] op = "VerifyReceipt" -> Has(t, r, "secret")
           [] OTHER                -> TRUE
    ELSE CASE op = "RcvNegoResp"   -> /\ Has(t, r, "Alice_nego_request")
                                      /\ Has(t, r, "Alice_nego_response")
           [] op = "RcvResp"       -> Has(t, r, "response")
           [] op = "VerifyResp"    -> Has(t, r, "receipt")
           [] op = "ReadReceipt"   -> bobTx[t].receipt = Right(t, "receipt")
           [] op = "SignRecpt"     -> /\ bobTx[t].receipt = Right(t, "receipt")
                                      /\ bobTx[t].sign = RightSign(t) /\ bobTx[t].price = Due
           [] op = "ReadScrt"      -> bobTx[t].secret = Right(t, "secret")
           [] op = "SaveScrt"      -> Has(t, r, "secret")
           [] OTHER                -> TRUE
Had(t, r) == {op \in Ops \cup {"Sale"} : Effect(t, r, op)}

\* A side has its whole program before it, or what is left of it in order.
Stage(t, r) ==
    IF At(t, r, "Mkdir")
    THEN todo[t][r] = FileProgram(r, prog)
    ELSE todo[t][r] \in Seq(Steps) /\ Ready(r, todo[t][r], Had(t, r))

Shape ==
    /\ prog \in Programs
    /\ sid \in [Trades -> SessIDs \cup {0}]
    /\ DOMAIN todo = Trades /\ \A t \in Trades : DOMAIN todo[t] = Roles
    /\ DOMAIN aliceTx = Trades /\ DOMAIN bobTx = Trades
    /\ \A t \in Trades : /\ DOMAIN aliceTx[t] = DOMAIN NoAliceTx
                         /\ DOMAIN bobTx[t] = DOMAIN NoBobTx
                         /\ At(t, "Alice", "Mkdir") => aliceTx[t].count = 1

\* Alice's directory is there once she has an id, and her id is her own; a running side
\* has its directory for itself.
DirsOwned ==
    /\ \A t \in Trades :
            /\ At(t, "Alice", "Mkdir") => sid[t] = 0
            /\ sid[t] # 0 => <<seller[t], sid[t]>> \in dirs
            /\ \A u \in Trades : sid[t] # 0 /\ sid[u] = sid[t] /\ seller[u] = seller[t] => u = t
    /\ \A t \in Trades, r \in Roles : Running(t, r) => sid[t] # 0 /\ <<Node(t, r), sid[t]>> \in dirs
    /\ \A t, u \in Trades, r, q \in Roles :
            (/\ Running(t, r) /\ Running(u, q)
             /\ Node(t, r) = Node(u, q) /\ sid[t] = sid[u]) => t = u /\ r = q

\* A file is in a directory that was made; a running side finds only the right ones.
FilesRight ==
    /\ \A f \in DOMAIN files : <<f[1], f[2]>> \in dirs /\ f[3] \in Names /\ f = <<f[1], f[2], f[3]>>
    /\ \A t \in Trades, r \in Roles, name \in Names :
            Running(t, r) /\ Has(t, r, name) => files[File(t, r, name)] = Right(t, name)

WireRight == \A m \in wire : RightMsg(m)

\* The record of a trade is its secret, once its id is drawn.
RecordRight ==
    /\ \A k \in DOMAIN record : <<k[2], k[4]>> \in dirs
    /\ \A t \in Trades :
            sid[t] # 0 /\ RecordOf(t) \in DOMAIN record => record[RecordOf(t)] = Right(t, "secret")

InOrder == \A t \in Trades, r \in Roles : Stage(t, r)

Inv == Shape /\ DirsOwned /\ FilesRight /\ DirOfOneTrade /\ WireRight /\ RecordRight /\ InOrder

-----------------------------------------------------------------------------
(***************************************************************************)
(* Calls in order.                                                         *)
(***************************************************************************)
\* s runs after the calls of D, and those of E have been made when it is through.
Part(r, s, D, E) ==
    /\ s \in Seq(Steps) /\ Ready(r, s, D)
    /\ \A op \in E : op \in D \/ \E i \in 1..Len(s) : s[i].op = op

\* The next call has what it needs.
LEMMA ReadyHead ==
    ASSUME NEW r, NEW s \in Seq(Steps), s # << >>, NEW D, Ready(r, s, D)
    PROVE  Head(s) \in Steps /\ Needs(r, Head(s).op) \subseteq D
<1>1. 1 \in 1..Len(s) /\ Head(s) = s[1] /\ s[1] \in Steps
  OBVIOUS
<1>2. {s[j].op : j \in 1..(1 - 1)} = {}
  OBVIOUS
<1> QED BY <1>1, <1>2 DEF Ready

\* The rest of a program runs after the next call.
LEMMA ReadyTail ==
    ASSUME NEW r, NEW s \in Seq(Steps), s # << >>, NEW D, Ready(r, s, D),
           NEW E, \A op \in D : op \in E, Head(s).op \in E
    PROVE  Tail(s) \in Seq(Steps) /\ Ready(r, Tail(s), E)
<1>1. Tail(s) \in Seq(Steps) /\ Len(s) \in Nat
  OBVIOUS
<1> SUFFICES ASSUME NEW i \in 1..Len(Tail(s)), NEW op \in Needs(r, Tail(s)[i].op)
             PROVE  op \in E \cup {Tail(s)[j].op : j \in 1..(i - 1)}
  BY <1>1 DEF Ready
<1>2. i + 1 \in 1..Len(s) /\ s[i + 1] = Tail(s)[i] /\ i \in Nat
  BY HeadTailProperties
<1>3. op \in D \/ \E j \in 1..((i + 1) - 1) : op = s[j].op
  BY <1>2 DEF Ready
<1>4. CASE op \in D
  BY <1>4
<1>5. ASSUME NEW j \in 1..((i + 1) - 1), op = s[j].op PROVE op \in E \cup {Tail(s)[k].op : k \in 1..(i - 1)}
  <2>1. CASE j = 1
    BY <2>1, <1>5
  <2>2. CASE j # 1
    <3>1. j - 1 \in 1..(i - 1) /\ j - 1 \in 1..Len(Tail(s)) /\ Tail(s)[j - 1] = s[j]
      BY <2>2, <1>2, HeadTailProperties
    <3> QED BY <3>1, <1>5
  <2> QED BY <2>1, <2>2
<1> QED BY <1>3, <1>4, <1>5

\* Nothing left to do is in order.
LEMMA ReadyEmpty == \A r, D : << >> \in Seq(Steps) /\ Ready(r, << >>, D)
BY DEF Ready

LEMMA PartEmpty == \A r, D : Part(r, << >>, D, D)
BY ReadyEmpty DEF Part

\* Parts follow each other.
LEMMA PartConcat ==
    ASSUME NEW r, NEW s, NEW u, NEW D, NEW E, NEW F, Part(r, s, D, E), Part(r, u, E, F)
    PROVE  Part(r, s \o u, D, F)
<1> DEFINE w == s \o u
<1>1. /\ w \in Seq(Steps) /\ Len(s) \in Nat /\ Len(u) \in Nat /\ Len(w) = Len(s) + Len(u)
      /\ \A i \in 1..Len(s) : w[i] = s[i]
      /\ \A i \in 1..Len(u) : w[i + Len(s)] = u[i]
  <2>1. s \in Seq(Steps) /\ u \in Seq(Steps)
    BY DEF Part
  <2>2. w \in Seq(Steps) /\ Len(s) \in Nat /\ Len(u) \in Nat /\ Len(w) = Len(s) + Len(u)
    BY <2>1, ConcatProperties, LenProperties
  <2>3. ASSUME NEW i \in 1..Len(u) PROVE w[i + Len(s)] = u[i]
    BY <2>1, <2>2, ConcatProperties
  <2> QED BY <2>1, <2>2, <2>3, ConcatProperties
<1> HIDE DEF w
<1>2. \A op \in E : op \in D \/ \E i \in 1..Len(s) : w[i].op = op
  BY <1>1 DEF Part
<1>3. \A op \in F : op \in D \/ \E i \in 1..Len(w) : w[i].op = op
  <2> SUFFICES ASSUME NEW op \in F, op \notin D PROVE \E i \in 1..Len(w) : w[i].op = op
    OBVIOUS
  <2>1. CASE op \in E
    BY <2>1, <1>1, <1>2
  <2>2. ASSUME NEW i \in 1..Len(u), u[i].op = op PROVE \E k \in 1..Len(w) : w[k].op = op
    <3>1. i + Len(s) \in 1..Len(w) /\ w[i + Len(s)] = u[i]
      BY <1>1
    <3> QED BY <3>1, <2>2
  <2> QED BY <2>1, <2>2 DEF Part
<1>4. Ready(r, w, D)
  <2> SUFFICES ASSUME NEW i \in 1..Len(w), NEW op \in Needs(r, w[i].op), op \notin D
               PROVE  \E j \in 1..(i - 1) : op = w[j].op
    BY DEF Ready
  <2>1. CASE i <= Len(s)
    <3>1. w[i] = s[i] /\ i \in 1..Len(s)
      BY <2>1, <1>1
    <3>2. PICK j \in 1..(i - 1) : op = s[j].op
      BY <3>1 DEF Part, Ready
    <3> QED BY <3>1, <3>2, <1>1
  <2>2. CASE i > Len(s)
    <3> DEFINE k == i - Len(s)
    <3>1. k \in 1..Len(u) /\ i = k + Len(s) /\ w[i] = u[k]
      BY <2>2, <1>1
    <3>2. op \in E \/ \E j \in 1..(k - 1) : op = u[j].op
      BY <3>1 DEF Part, Ready
    <3>3. CASE op \in E
      <4>1. PICK j \in 1..Len(s) : w[j].op = op
        BY <3>3, <1>2
      <4> QED BY <4>1, <2>2, <1>1
    <3>4. ASSUME NEW j \in 1..(k - 1), op = u[j].op PROVE \E n \in 1..(i - 1) : op = w[n].op
      <4>1. j \in 1..Len(u) /\ j + Len(s) \in 1..(i - 1)
        BY <3>1, <1>1
      <4>2. w[j + Len(s)] = u[j]
        BY <4>1, <1>1
      <4> QED BY <4>1, <4>2, <3>4
    <3> QED BY <3>2, <3>3, <3>4
  <2> QED BY <2>1, <2>2, <1>1
<1> QED BY <1>1, <1>3, <1>4 DEF Part, w

\* One more call.
LEMMA PartAppend ==
    ASSUME NEW r, NEW s, NEW D, NEW E, Part(r, s, D, E), NEW x \in Steps, Needs(r, x.op) \subseteq E
    PROVE  Part(r, Append(s, x), D, E \cup {x.op})
<1>1. <<x>> \in Seq(Steps) /\ Len(<<x>>) = 1 /\ <<x>>[1] = x
  OBVIOUS
<1>2. Part(r, <<x>>, E, E \cup {x.op})
  BY <1>1 DEF Part, Ready
<1>3. Append(s, x) = s \o <<x>>
  BY AppendIsConcat DEF Part
<1> QED BY <1>2, <1>3, PartConcat

\* Calls written out one after the other, one to six of them.
LEMMA Part1 ==
    ASSUME NEW r, NEW D, NEW a \in Steps,
           Needs(r, a.op) \subseteq D
    PROVE  Part(r, <<a>>, D, D \cup {a.op})
<1>1. <<a>> = Append(<< >>, a)
  OBVIOUS
<1>2. Part(r, << >>, D, D)
  BY PartEmpty, Zenon
<1>3. Part(r, Append(<< >>, a), D, D \cup {a.op})
  BY <1>2, PartAppend, Zenon
<1> QED BY <1>1, <1>3, Zenon
LEMMA Part2 ==
    ASSUME NEW r, NEW D, NEW a \in Steps, NEW b \in Steps,
           Needs(r, a.op) \subseteq D,
           Needs(r, b.op) \subseteq D \cup {a.op}
    PROVE  Part(r, <<a, b>>, D, D \cup {a.op, b.op})
<1>1. Part(r, <<a>>, D, D \cup {a.op})
  BY Part1
<1>2. <<a, b>> = Append(<<a>>, b)
  OBVIOUS
<1>3. Part(r, Append(<<a>>, b), D, (D \cup {a.op}) \cup {b.op})
  BY <1>1, PartAppend, Zenon
<1>4. (D \cup {a.op}) \cup {b.op} = D \cup {a.op, b.op}
  OBVIOUS
<1> QED BY <1>2, <1>3, <1>4, Zenon
LEMMA Part3 ==
    ASSUME NEW r, NEW D, NEW a \in Steps, NEW b \in Steps, NEW c \in Steps,
           Needs(r, a.op) \subseteq D,
           Needs(r, b.op) \subseteq D \cup {a.op},
           Needs(r, c.op) \subseteq D \cup {a.op, b.op}
    PROVE  Part(r, <<a, b, c>>, D, D \cup {a.op, b.op, c.op})
<1>1. Part(r, <<a, b>>, D, D \cup {a.op, b.op})
  BY Part2
<1>2. <<a, b, c>> = Append(<<a, b>>, c)
  OBVIOUS
<1>3. Part(r, Append(<<a, b>>, c), D, (D \cup {a.op, b.op}) \cup {c.op})
  BY <1>1, PartAppend, Zenon
<1>4. (D \cup {a.op, b.op}) \cup {c.op} = D \cup {a.op, b.op, c.op}
  OBVIOUS
<1> QED BY <1>2, <1>3, <1>4, Zenon
LEMMA Part4 ==
    ASSUME NEW r, NEW D, NEW a \in Steps, NEW b \in Steps, NEW c \in Steps, NEW d \in Steps,
           Needs(r, a.op) \subseteq D,
           Needs(r, b.op) \subseteq D \cup {a.op},
           Needs(r, c.op) \subseteq D \cup {a.op, b.op},
           Needs(r, d.op) \subseteq D \cup {a.op, b.op, c.op}
    PROVE  Part(r, <<a, b, c, d>>, D, D \cup {a.op, b.op, c.op, d.op})
<1>1. Part(r, <<a, b, c>>, D, D \cup {a.op, b.op, c.op})
  BY Part3
<1>2. <<a, b, c, d>> = Append(<<a, b, c>>, d)
  OBVIOUS
<1>3. Part(r, Append(<<a, b, c>>, d), D, (D \cup {a.op, b.op, c.op}) \cup {d.op})
  BY <1>1, PartAppend, Zenon
<1>4. (D \cup {a.op, b.op, c.op}) \cup {d.op} = D \cup {a.op, b.op, c.op, d.op}
  OBVIOUS
<1> QED BY <1>2, <1>3, <1>4, Zenon
LEMMA Part5 ==
    ASSUME NEW r, NEW D, NEW a \in Steps, NEW b \in Steps, NEW c \in Steps, NEW d \in Steps, NEW e \in Steps,
           Needs(r, a.op) \subseteq D,
           Needs(r, b.op) \subseteq D \cup {a.op},
           Needs(r, c.op) \subseteq D \cup {a.op, b.op},
           Needs(r, d.op) \subseteq D \cup {a.op, b.op, c.op},
           Needs(r, e.op) \subseteq D \cup {a.op, b.op, c.op, d.op}
    PROVE  Part(r, <<a, b, c, d, e>>, D, D \cup {a.op, b.op, c.op, d.op, e.op})
<1>1. Part(r, <<a, b, c, d>>, D, D \cup {a.op, b.op, c.op, d.op})
  BY Part4
<1>2. <<a, b, c, d, e>> = Append(<<a, b, c, d>>, e)
  OBVIOUS
<1>3. Part(r, Append(<<a, b, c, d>>, e), D, (D \cup {a.op, b.op, c.op, d.op}) \cup {e.op})
  BY <1>1, PartAppend, Zenon
<1>4. (D \cup {a.op, b.op, c.op, d.op}) \cup {e.op} = D \cup {a.op, b.op, c.op, d.op, e.op}
  OBVIOUS
<1> QED BY <1>2, <1>3, <1>4, Zenon
LEMMA Part6 ==
    ASSUME NEW r, NEW D, NEW a \in Steps, NEW b \in Steps, NEW c \in Steps, NEW d \in Steps, NEW e \in Steps, NEW f \in Steps,
           Needs(r, a.op) \subseteq D,
           Needs(r, b.op) \subseteq D \cup {a.op},
           Needs(r, c.op) \subseteq D \cup {a.op, b.op},
           Needs(r, d.op) \subseteq D \cup {a.op, b.op, c.op},
           Needs(r, e.op) \subseteq D \cup {a.op, b.op, c.op, d.op},
           Needs(r, f.op) \subseteq D \cup {a.op, b.op, c.op, d.op, e.op}
    PROVE  Part(r, <<a, b, c, d, e, f>>, D, D \cup {a.op, b.op, c.op, d.op, e.op, f.op})
<1>1. Part(r, <<a, b, c, d, e>>, D, D \cup {a.op, b.op, c.op, d.op, e.op})
  BY Part5
<1>2. <<a, b, c, d, e, f>> = Append(<<a, b, c, d, e>>, f)
  OBVIOUS
<1>3. Part(r, Append(<<a, b, c, d, e>>, f), D, (D \cup {a.op, b.op, c.op, d.op, e.op}) \cup {f.op})
  BY <1>1, PartAppend, Zenon
<1>4. (D \cup {a.op, b.op, c.op, d.op, e.op}) \cup {f.op} = D \cup {a.op, b.op, c.op, d.op, e.op, f.op}
  OBVIOUS
<1> QED BY <1>2, <1>3, <1>4, Zenon

\* More may have been made before, and less is asked for after.
LEMMA PartMono ==
    ASSUME NEW r, NEW s, NEW D, NEW E, Part(r, s, D, E),
           NEW D2, D \subseteq D2, NEW E2, E2 \subseteq E \cup D2
    PROVE  Part(r, s, D2, E2)
<1>1. Ready(r, s, D2)
  BY DEF Part, Ready
<1> QED BY <1>1 DEF Part

-----------------------------------------------------------------------------
(***************************************************************************)
(* The seller's programs.                                                  *)
(***************************************************************************)
Requested == {"RcvReq", "CalcuCnt", "CalcuDeposit"}
Receipted == {"RcvRecpt", "CalcuCnt", "CalcuDeposit"}
Verified == {"RcvRecpt", "CalcuCnt", "VerifyReceipt"}

\* The calls that count as made when a program starts: a query is one unit.
Start(p) == IF p \in QueryPrograms THEN {"CalcuCnt"} ELSE {"Sale"}

PlainReveal == <<St("VerifyReceipt", "generateSecretFailed", "requested"),
                 St("CheckExpire",   "secretterminated", ""),
                 St("Submit",        "secretFailed", ""),
                 St("ReadScrt",      "secretFailed", "closed")>>
Verify(failed) == <<St("VerifyReceipt", failed, "generateSecret")>>
Deposit == <<St("CalcuDeposit", "depositNotEnough", "")>>
AskOnly == <<St("RcvReq", "requestFailed", "requested")>>
DepositRequest == <<St("CalcuDeposit", "depositNotEnough", ""), St("RcvReq", "requestFailed", "requested")>>

\* The row, the session and the negotiation come first, after anything.
LEMMA AliceFirst ==
    ASSUME NEW D
    PROVE  Part("Alice", AliceBegin, D, D) /\ Part("Alice", AliceNego, D, D)
<1>1. Part("Alice", AliceBegin, D, D)
  <2> DEFINE a == St("InsertTx", "", "start") b == St("NewSess", "", "")
  <2>1. a \in Steps /\ b \in Steps /\ a.op = "InsertTx" /\ b.op = "NewSess"
    BY SMTT(30) DEF St, Steps, Ops, Marks
  <2>2. AliceBegin = <<a, b>>
    BY DEF AliceBegin
  <2> HIDE DEF a, b
  <2>3. Needs("Alice", a.op) \subseteq D /\ Needs("Alice", b.op) \subseteq D \cup {a.op}
    BY <2>1 DEF Needs
  <2>4. Part("Alice", <<a, b>>, D, D \cup {a.op, b.op})
    BY <2>1, <2>3, Part2, Zenon
  <2>5. Part("Alice", AliceBegin, D, D \cup {a.op, b.op})
    BY <2>2, <2>4, Zenon
  <2> QED BY <2>5, PartMono
<1>2. Part("Alice", AliceNego, D, D)
  <2> DEFINE a == St("RcvNegoReq", "NegoFailed", "") b == St("GeneNegoResp", "NegoFailed", "")
             c == St("GeneNegoReq", "NegoFailed", "") d == St("SendNegoResp", "NegoFailed", "")
             e == St("RcvNegoResp", "NegoFailed", "") f == St("DealNegoResp", "NegoFailed", "nego")
  <2>1. /\ a \in Steps /\ b \in Steps /\ c \in Steps /\ d \in Steps /\ e \in Steps /\ f \in Steps
        /\ a.op = "RcvNegoReq" /\ b.op = "GeneNegoResp" /\ c.op = "GeneNegoReq"
        /\ d.op = "SendNegoResp" /\ e.op = "RcvNegoResp" /\ f.op = "DealNegoResp"
    BY SMTT(30) DEF St, Steps, Ops, Marks
  <2>2. AliceNego = <<a, b, c, d, e, f>>
    BY DEF AliceNego
  <2> HIDE DEF a, b, c, d, e, f
  <2>3. /\ Needs("Alice", a.op) \subseteq D
        /\ Needs("Alice", b.op) \subseteq D \cup {a.op}
        /\ Needs("Alice", c.op) \subseteq D \cup {a.op, b.op}
        /\ Needs("Alice", d.op) \subseteq D \cup {a.op, b.op, c.op}
        /\ Needs("Alice", e.op) \subseteq D \cup {a.op, b.op, c.op, d.op}
        /\ Needs("Alice", f.op) \subseteq D \cup {a.op, b.op, c.op, d.op, e.op}
    BY <2>1 DEF Needs
  <2>4. Part("Alice", <<a, b, c, d, e, f>>, D, D \cup {a.op, b.op, c.op, d.op, e.op, f.op})
    BY <2>1, <2>3, Part6, Zenon
  <2>5. Part("Alice", AliceNego, D, D \cup {a.op, b.op, c.op, d.op, e.op, f.op})
    BY <2>2, <2>4, Zenon
  <2> QED BY <2>5, PartMono
<1> QED BY <1>1, <1>2

\* The request and the deposit, in the two orders of the programs.
LEMMA AliceAsked ==
    /\ Part("Alice", AliceRequest, {"Sale"}, Requested)
    /\ Part("Alice", DepositRequest, {"CalcuCnt"}, Requested)
    /\ Part("Alice", Deposit, {"CalcuCnt"}, {"CalcuCnt", "CalcuDeposit"})
    /\ Part("Alice", AskOnly, {"CalcuCnt", "CalcuDeposit"}, Requested)
<1>1. Part("Alice", AliceRequest, {"Sale"}, Requested)
  <2> DEFINE a == St("RcvReq", "requestFailed", "requested")
             b == St("CalcuCnt", "", "")
             c == St("CalcuDeposit", "depositNotEnough", "")
  <2>1. /\ a \in Steps /\ b \in Steps /\ c \in Steps
        /\ a.op = "RcvReq" /\ b.op = "CalcuCnt" /\ c.op = "CalcuDeposit"
    BY SMTT(30) DEF St, Steps, Ops, Marks
  <2>2. AliceRequest = <<a, b, c>>
    BY DEF AliceRequest
  <2> HIDE DEF a, b, c
  <2>3. /\ Needs("Alice", a.op) \subseteq {"Sale"}
        /\ Needs("Alice", b.op) \subseteq {"Sale"} \cup {a.op}
        /\ Needs("Alice", c.op) \subseteq {"Sale"} \cup {a.op, b.op}
    BY <2>1 DEF Needs
  <2>4. Part("Alice", <<a, b, c>>, {"Sale"}, {"Sale"} \cup {a.op, b.op, c.op})
    BY <2>1, <2>3, Part3, Zenon
  <2>5. Part("Alice", AliceRequest, {"Sale"}, {"Sale"} \cup {a.op, b.op, c.op})
    BY <2>2, <2>4, Zenon
  <2>6. Requested \subseteq {"Sale"} \cup {a.op, b.op, c.op}
    BY <2>1 DEF Requested
  <2> QED BY <2>5, <2>6, PartMono
<1>2. Part("Alice", DepositRequest, {"CalcuCnt"}, Requested)
  <2> DEFINE a == St("CalcuDeposit", "depositNotEnough", "")
             b == St("RcvReq", "requestFailed", "requested")
  <2>1. /\ a \in Steps /\ b \in Steps
        /\ a.op = "CalcuDeposit" /\ b.op = "RcvReq"
    BY SMTT(30) DEF St, Steps, Ops, Marks
  <2>2. DepositRequest = <<a, b>>
    BY DEF DepositRequest
  <2> HIDE DEF a, b
  <2>3. /\ Needs("Alice", a.op) \subseteq {"CalcuCnt"}
        /\ Needs("Alice", b.op) \subseteq {"CalcuCnt"} \cup {a.op}
    BY <2>1 DEF Needs
  <2>4. Part("Alice", <<a, b>>, {"CalcuCnt"}, {"CalcuCnt"} \cup {a.op, b.op})
    BY <2>1, <2>3, Part2, Zenon
  <2>5. Part("Alice", DepositRequest, {"CalcuCnt"}, {"CalcuCnt"} \cup {a.op, b.op})
    BY <2>2, <2>4, Zenon
  <2>6. Requested \subseteq {"CalcuCnt"} \cup {a.op, b.op}
    BY <2>1 DEF Requested
  <2> QED BY <2>5, <2>6, PartMono
<1>3. Part("Alice", Deposit, {"CalcuCnt"}, {"CalcuCnt", "CalcuDeposit"})
  <2> DEFINE a == St("CalcuDeposit", "depositNotEnough", "")
  <2>1. /\ a \in Steps
        /\ a.op = "CalcuDeposit"
    BY SMTT(30) DEF St, Steps, Ops, Marks
  <2>2. Deposit = <<a>>
    BY DEF Deposit
  <2> HIDE DEF a
  <2>3. Needs("Alice", a.op) \subseteq {"CalcuCnt"}
    BY <2>1 DEF Needs
  <2>4. Part("Alice", <<a>>, {"CalcuCnt"}, {"CalcuCnt"} \cup {a.op})
    BY <2>1, <2>3, Part1, Zenon
  <2>5. Part("Alice", Deposit, {"CalcuCnt"}, {"CalcuCnt"} \cup {a.op})
    BY <2>2, <2>4, Zenon
  <2>6. {"CalcuCnt", "CalcuDeposit"} \subseteq {"CalcuCnt"} \cup {a.op}
    BY <2>1
  <2> QED BY <2>5, <2>6, PartMono
<1>4. Part("Alice", AskOnly, {"CalcuCnt", "CalcuDeposit"}, Requested)
  <2> DEFINE a == St("RcvReq", "requestFailed", "requested")
  <2>1. /\ a \in Steps
        /\ a.op = "RcvReq"
    BY SMTT(30) DEF St, Steps, Ops, Marks
  <2>2. AskOnly = <<a>>
    BY DEF AskOnly
  <2> HIDE DEF a
  <2>3. Needs("Alice", a.op) \subseteq {"CalcuCnt", "CalcuDeposit"}
    BY <2>1 DEF Needs
  <2>4. Part("Alice", <<a>>, {"CalcuCnt", "CalcuDeposit"}, {"CalcuCnt", "CalcuDeposit"} \cup {a.op})
    BY <2>1, <2>3, Part1, Zenon
  <2>5. Part("Alice", AskOnly, {"CalcuCnt", "CalcuDeposit"}, {"CalcuCnt", "CalcuDeposit"} \cup {a.op})
    BY <2>2, <2>4, Zenon
  <2>6. Requested \subseteq {"CalcuCnt", "CalcuDeposit"} \cup {a.op}
    BY <2>1 DEF Requested
  <2> QED BY <2>5, <2>6, PartMono
<1> QED BY <1>1, <1>2, <1>3, <1>4

\* The response, the receipt and its price.
LEMMA AliceAnswered ==
    ASSUME NEW verified \in Marks, NEW receipted \in Marks
    PROVE  Part("Alice", AliceRespond(verified, receipted), Requested, Receipted)
<1>1. Part("Alice", AliceRespond(verified, receipted), Requested, Receipted)
  <2> DEFINE a == St("VerifyReq", "invalidRequest", verified)
             b == St("SendResp", "responseFailed", "responsed")
             c == St("RcvRecpt", "receiptFailed", receipted)
             d == St("CheckPrice", "receiptFailed", "")
  <2>0. {"", "invalidRequest", "receiptFailed", "responseFailed", "responsed"} \subseteq Marks
    BY DEF Marks
  <2>1. /\ a \in Steps /\ b \in Steps /\ c \in Steps /\ d \in Steps
        /\ a.op = "VerifyReq" /\ b.op = "SendResp" /\ c.op = "RcvRecpt" /\ d.op = "CheckPrice"
    BY <2>0 DEF St, Steps, Ops
  <2>2. AliceRespond(verified, receipted) = <<a, b, c, d>>
    BY DEF AliceRespond
  <2> HIDE DEF a, b, c, d
  <2>3. /\ Needs("Alice", a.op) \subseteq Requested
        /\ Needs("Alice", b.op) \subseteq Requested \cup {a.op}
        /\ Needs("Alice", c.op) \subseteq Requested \cup {a.op, b.op}
        /\ Needs("Alice", d.op) \subseteq Requested \cup {a.op, b.op, c.op}
    BY <2>1 DEF Needs, Requested
  <2>4. Part("Alice", <<a, b, c, d>>, Requested, Requested \cup {a.op, b.op, c.op, d.op})
    BY <2>1, <2>3, Part4, Zenon
  <2>5. Part("Alice", AliceRespond(verified, receipted), Requested, Requested \cup {a.op, b.op, c.op, d.op})
    BY <2>2, <2>4, Zenon
  <2>6. Receipted \subseteq Requested \cup {a.op, b.op, c.op, d.op}
    BY <2>1 DEF Requested, Receipted
  <2> QED BY <2>5, <2>6, PartMono
<1> QED BY <1>1

\* The secret is made from the receipt.
LEMMA AliceVerifies ==
    ASSUME NEW failed \in Marks
    PROVE  Part("Alice", Verify(failed), Receipted, Verified)
<1>1. Part("Alice", Verify(failed), Receipted, Verified)
  <2> DEFINE a == St("VerifyReceipt", failed, "generateSecret")
  <2>0. {"generateSecret"} \subseteq Marks
    BY DEF Marks
  <2>1. /\ a \in Steps
        /\ a.op = "VerifyReceipt"
    BY <2>0 DEF St, Steps, Ops
  <2>2. Verify(failed) = <<a>>
    BY DEF Verify
  <2> HIDE DEF a
  <2>3. Needs("Alice", a.op) \subseteq Receipted
    BY <2>1 DEF Needs, Receipted
  <2>4. Part("Alice", <<a>>, Receipted, Receipted \cup {a.op})
    BY <2>1, <2>3, Part1, Zenon
  <2>5. Part("Alice", Verify(failed), Receipted, Receipted \cup {a.op})
    BY <2>2, <2>4, Zenon
  <2>6. Verified \subseteq Receipted \cup {a.op}
    BY <2>1 DEF Receipted, Verified
  <2> QED BY <2>5, <2>6, PartMono
<1> QED BY <1>1

\* The secret and its submission.
LEMMA AliceReveals ==
    /\ Part("Alice", AliceReveal, Verified, {})
    /\ Part("Alice", PlainReveal, Receipted, {})
<1>1. Part("Alice", AliceReveal, Verified, {})
  <2> DEFINE a == St("CheckExpire", "secretterminated", "")
             b == St("CheckDeposit", "secretterminated", "")
             c == St("Submit", "secretFailed", "")
             d == St("ReadScrt", "secretFailed", "closed")
  <2>1. /\ a \in Steps /\ b \in Steps /\ c \in Steps /\ d \in Steps
        /\ a.op = "CheckExpire" /\ b.op = "CheckDeposit" /\ c.op = "Submit" /\ d.op = "ReadScrt"
    BY SMTT(30) DEF St, Steps, Ops, Marks
  <2>2. AliceReveal = <<a, b, c, d>>
    BY DEF AliceReveal
  <2> HIDE DEF a, b, c, d
  <2>3. /\ Needs("Alice", a.op) \subseteq Verified
        /\ Needs("Alice", b.op) \subseteq Verified \cup {a.op}
        /\ Needs("Alice", c.op) \subseteq Verified \cup {a.op, b.op}
        /\ Needs("Alice", d.op) \subseteq Verified \cup {a.op, b.op, c.op}
    BY <2>1 DEF Needs, Verified
  <2>4. Part("Alice", <<a, b, c, d>>, Verified, Verified \cup {a.op, b.op, c.op, d.op})
    BY <2>1, <2>3, Part4, Zenon
  <2>5. Part("Alice", AliceReveal, Verified, Verified \cup {a.op, b.op, c.op, d.op})
    BY <2>2, <2>4, Zenon
  <2>6. {} \subseteq Verified \cup {a.op, b.op, c.op, d.op}
    BY <2>1 DEF Verified
  <2> QED BY <2>5, <2>6, PartMono
<1>2. Part("Alice", PlainReveal, Receipted, {})
  <2> DEFINE a == St("VerifyReceipt", "generateSecretFailed", "requested")
             b == St("CheckExpire", "secretterminated", "")
             c == St("Submit", "secretFailed", "")
             d == St("ReadScrt", "secretFailed", "closed")
  <2>1. /\ a \in Steps /\ b \in Steps /\ c \in Steps /\ d \in Steps
        /\ a.op = "VerifyReceipt" /\ b.op = "CheckExpire" /\ c.op = "Submit" /\ d.op = "ReadScrt"
    BY SMTT(30) DEF St, Steps, Ops, Marks
  <2>2. PlainReveal = <<a, b, c, d>>
    BY DEF PlainReveal
  <2> HIDE DEF a, b, c, d
  <2>3. /\ Needs("Alice", a.op) \subseteq Receipted
        /\ Needs("Alice", b.op) \subseteq Receipted \cup {a.op}
        /\ Needs("Alice", c.op) \subseteq Receipted \cup {a.op, b.op}
        /\ Needs("Alice", d.op) \subseteq Receipted \cup {a.op, b.op, c.op}
    BY <2>1 DEF Needs, Receipted
  <2>4. Part("Alice", <<a, b, c, d>>, Receipted, Receipted \cup {a.op, b.op, c.op, d.op})
    BY <2>1, <2>3, Part4, Zenon
  <2>5. Part("Alice", PlainReveal, Receipted, Receipted \cup {a.op, b.op, c.op, d.op})
    BY <2>2, <2>4, Zenon
  <2>6. {} \subseteq Receipted \cup {a.op, b.op, c.op, d.op}
    BY <2>1 DEF Receipted
  <2> QED BY <2>5, <2>6, PartMono
<1> QED BY <1>1, <1>2

\* The programs that sell data: begin, request, response.
LEMMA AliceData ==
    ASSUME NEW verified \in Marks, NEW receipted \in Marks
    PROVE  /\ Part("Alice", AliceBegin \o AliceRequest \o AliceRespond(verified, receipted), {"Sale"}, Receipted)
           /\ Part("Alice", AliceBegin \o AliceNego \o AliceRequest \o AliceRespond(verified, receipted),
                   {"Sale"}, Receipted)
<1>1. Part("Alice", AliceBegin \o AliceRequest, {"Sale"}, Requested)
  BY AliceFirst, AliceAsked, PartConcat
<1>2. Part("Alice", AliceBegin \o AliceNego, {"Sale"}, {"Sale"})
  BY AliceFirst, PartConcat
<1>3. Part("Alice", AliceBegin \o AliceNego \o AliceRequest, {"Sale"}, Requested)
  BY <1>2, AliceAsked, PartConcat
<1> QED BY <1>1, <1>3, AliceAnswered, PartConcat

\* The end of a program: the secret is made and submitted.
LEMMA AliceEnd ==
    ASSUME NEW s, NEW D, Part("Alice", s, D, Receipted), NEW failed \in Marks
    PROVE  Part("Alice", s \o Verify(failed) \o AliceReveal, D, {})
<1>1. Part("Alice", s \o Verify(failed), D, Verified)
  BY AliceVerifies, PartConcat
<1> QED BY <1>1, AliceReveals, PartConcat

\* Every program of the seller makes its calls after the ones they need.
LEMMA AlicePrograms == \A p \in Programs : Part("Alice", AliceProgram(p), Start(p), {})
<1>0. {"requested", "receipted", "generateResponse", "responsed", "generateSecretFailed",
       "receiptFailed"} \subseteq Marks
  BY DEF Marks
<1>1. Part("Alice", AliceTxForPC, {"Sale"}, {})
  <2>1. Part("Alice", AliceBegin \o AliceRequest \o AliceRespond("requested", "receipted"), {"Sale"}, Receipted)
    BY <1>0, AliceData
  <2>2. AliceTxForPC = AliceBegin \o AliceRequest \o AliceRespond("requested", "receipted") \o PlainReveal
    BY DEF AliceTxForPC, PlainReveal
  <2> QED BY <2>1, <2>2, AliceReveals, PartConcat, Zenon
<1>2. Part("Alice", AliceTxForPOC, {"Sale"}, {})
  <2>1. Part("Alice", AliceBegin \o AliceNego \o AliceRequest \o AliceRespond("requested", "receipted"),
             {"Sale"}, Receipted)
    BY <1>0, AliceData
  <2>2. AliceTxForPOC = AliceBegin \o AliceNego \o AliceRequest \o AliceRespond("requested", "receipted")
                            \o Verify("generateSecretFailed") \o AliceReveal
    BY DEF AliceTxForPOC, Verify
  <2> QED BY <1>0, <2>1, <2>2, AliceEnd
<1>3. Part("Alice", AliceTxForTOC, {"Sale"}, {})
  <2>1. Part("Alice", AliceBegin \o AliceNego \o AliceRequest \o AliceRespond("responsed", "receipted"),
             {"Sale"}, Receipted)
    BY <1>0, AliceData
  <2>2. AliceTxForTOC = AliceBegin \o AliceNego \o AliceRequest \o AliceRespond("responsed", "receipted")
                            \o Verify("generateSecretFailed") \o AliceReveal
    BY DEF AliceTxForTOC, Verify
  <2> QED BY <1>0, <2>1, <2>2, AliceEnd
<1>4. /\ Part("Alice", AliceTxForPAS, {"Sale"}, {}) /\ Part("Alice", AliceTxForPASVC, {"Sale"}, {})
      /\ Part("Alice", AliceTxForTC, {"Sale"}, {}) /\ Part("Alice", AliceTxForTAS, {"Sale"}, {})
      /\ Part("Alice", AliceTxForTASVC, {"Sale"}, {})
  <2> DEFINE s == AliceBegin \o AliceRequest \o AliceRespond("generateResponse", "receipted")
                      \o Verify("generateSecretFailed") \o AliceReveal
  <2>1. Part("Alice", AliceBegin \o AliceRequest \o AliceRespond("generateResponse", "receipted"),
             {"Sale"}, Receipted)
    BY <1>0, AliceData
  <2>2. Part("Alice", s, {"Sale"}, {})
    BY <1>0, <2>1, AliceEnd
  <2>3. /\ AliceTxForPAS = s /\ AliceTxForPASVC = s /\ AliceTxForTC = s /\ AliceTxForTAS = s
        /\ AliceTxForTASVC = s
    BY DEF AliceTxForPAS, AliceTxForPASVC, AliceTxForTC, AliceTxForTAS, AliceTxForTASVC, Verify
  <2> QED BY <2>2, <2>3, Zenon
<1>5. Part("Alice", AliceTxForTQ, {"CalcuCnt"}, {})
  <2>1. Part("Alice", AliceBegin \o DepositRequest, {"CalcuCnt"}, Requested)
    BY AliceFirst, AliceAsked, PartConcat
  <2>2. Part("Alice", AliceBegin \o DepositRequest \o AliceRespond("generateResponse", "receipted"),
             {"CalcuCnt"}, Receipted)
    BY <1>0, <2>1, AliceAnswered, PartConcat
  <2>3. AliceTxForTQ = AliceBegin \o DepositRequest \o AliceRespond("generateResponse", "receipted")
                           \o Verify("generateSecretFailed") \o AliceReveal
    BY DEF AliceTxForTQ, DepositRequest, Verify
  <2> QED BY <1>0, <2>2, <2>3, AliceEnd
<1>6. Part("Alice", AliceTxForTOQ, {"CalcuCnt"}, {})
  <2>1. Part("Alice", AliceBegin \o Deposit, {"CalcuCnt"}, {"CalcuCnt", "CalcuDeposit"})
    BY AliceFirst, AliceAsked, PartConcat
  <2>2. Part("Alice", AliceBegin \o Deposit \o AliceNego, {"CalcuCnt"}, {"CalcuCnt", "CalcuDeposit"})
    BY <2>1, AliceFirst, PartConcat
  <2>3. Part("Alice", AliceBegin \o Deposit \o AliceNego \o AskOnly, {"CalcuCnt"}, Requested)
    BY <2>2, AliceAsked, PartConcat
  <2>4. Part("Alice", AliceBegin \o Deposit \o AliceNego \o AskOnly
                          \o AliceRespond("generateResponse", "responsed"), {"CalcuCnt"}, Receipted)
    BY <1>0, <2>3, AliceAnswered, PartConcat
  <2>5. AliceTxForTOQ = AliceBegin \o Deposit \o AliceNego \o AskOnly
                            \o AliceRespond("generateResponse", "responsed")
                            \o Verify("receiptFailed") \o AliceReveal
    BY DEF AliceTxForTOQ, Deposit, AskOnly, Verify
  <2> QED BY <1>0, <2>4, <2>5, AliceEnd
<1> SUFFICES ASSUME NEW p \in Programs PROVE Part("Alice", AliceProgram(p), Start(p), {})
  OBVIOUS
<1>7. CASE p \in QueryPrograms
  <2>1. Start(p) = {"CalcuCnt"} /\ AliceProgram(p) \in {AliceTxForTQ, AliceTxForTOQ}
    BY <1>7 DEF Start, AliceProgram, QueryPrograms
  <2> QED BY <2>1, <1>5, <1>6
<1>8. CASE p \notin QueryPrograms
  <2>1. /\ Start(p) = {"Sale"}
        /\ AliceProgram(p) \in {AliceTxForPC, AliceTxForPOC, AliceTxForPAS, AliceTxForPASVC, AliceTxForTC,
                                AliceTxForTOC, AliceTxForTAS, AliceTxForTASVC}
    BY <1>8 DEF Start, AliceProgram, QueryPrograms, Programs
  <2> QED BY <2>1, <1>1, <1>2, <1>3, <1>4
<1> QED BY <1>7, <1>8

-----------------------------------------------------------------------------
(***************************************************************************)
(* The buyer's programs.                                                   *)
(***************************************************************************)

\* The parts without statuses of their own.
LEMMA BobParts ==
    /\ Part("Bob", BobBegin, {}, {}) /\ Part("Bob", BobNego, {}, {})
    /\ Part("Bob", BobReceipt, {}, {}) /\ Part("Bob", BobDecrypt, {}, {})
    /\ Part("Bob", BobClaim, {}, {})
<1>1. Part("Bob", BobBegin, {}, {})
  <2> DEFINE a == St("InsertTx", "", "start")
             b == St("NewSess", "startFailed", "")
  <2>1. /\ a \in Steps /\ b \in Steps
        /\ a.op = "InsertTx" /\ b.op = "NewSess"
    BY SMTT(30) DEF St, Steps, Ops, Marks
  <2>2. BobBegin = <<a, b>>
    BY DEF BobBegin
  <2> HIDE DEF a, b
  <2>3. /\ Needs("Bob", a.op) \subseteq {}
        /\ Needs("Bob", b.op) \subseteq {} \cup {a.op}
    BY <2>1 DEF Needs
  <2>4. Part("Bob", <<a, b>>, {}, {} \cup {a.op, b.op})
    BY <2>1, <2>3, Part2, Zenon
  <2>5. Part("Bob", BobBegin, {}, {} \cup {a.op, b.op})
    BY <2>2, <2>4, Zenon
  <2> QED BY <2>5, PartMono
<1>2. Part("Bob", BobNego, {}, {})
  <2> DEFINE a == St("GeneNegoReq", "NegoFailed", "")
             b == St("SendNegoReq", "NegoFailed", "")
             c == St("RcvNegoResp", "NegoFailed", "")
             d == St("DealNegoResp", "NegoFailed", "")
             e == St("GeneNegoResp", "NegoFailed", "")
             f == St("SendNegoResp", "NegoFailed", "nego")
  <2>1. /\ a \in Steps /\ b \in Steps /\ c \in Steps /\ d \in Steps /\ e \in Steps /\ f \in Steps
        /\ a.op = "GeneNegoReq" /\ b.op = "SendNegoReq" /\ c.op = "RcvNegoResp" /\ d.op = "DealNegoResp" /\ e.op = "GeneNegoResp" /\ f.op = "SendNegoResp"
    BY SMTT(30) DEF St, Steps, Ops, Marks
  <2>2. BobNego = <<a, b, c, d, e, f>>
    BY DEF BobNego
  <2> HIDE DEF a, b, c, d, e, f
  <2>3. /\ Needs("Bob", a.op) \subseteq {}
        /\ Needs("Bob", b.op) \subseteq {} \cup {a.op}
        /\ Needs("Bob", c.op) \subseteq {} \cup {a.op, b.op}
        /\ Needs("Bob", d.op) \subseteq {} \cup {a.op, b.op, c.op}
        /\ Needs("Bob", e.op) \subseteq {} \cup {a.op, b.op, c.op, d.op}
        /\ Needs("Bob", f.op) \subseteq {} \cup {a.op, b.op, c.op, d.op, e.op}
    BY <2>1 DEF Needs
  <2>4. Part("Bob", <<a, b, c, d, e, f>>, {}, {} \cup {a.op, b.op, c.op, d.op, e.op, f.op})
    BY <2>1, <2>3, Part6, Zenon
  <2>5. Part("Bob", BobNego, {}, {} \cup {a.op, b.op, c.op, d.op, e.op, f.op})
    BY <2>2, <2>4, Zenon
  <2> QED BY <2>5, PartMono
<1>3. Part("Bob", BobReceipt, {}, {})
  <2> DEFINE a == St("RcvResp", "responseFailed", "")
             b == St("VerifyResp", "responseFailed", "responsed")
             c == St("ReadReceipt", "receiptFailed", "")
             d == St("SignRecpt", "receiptFailed", "")
             e == St("SendRecpt", "receiptFailed", "receipted")
  <2>1. /\ a \in Steps /\ b \in Steps /\ c \in Steps /\ d \in Steps /\ e \in Steps
        /\ a.op = "RcvResp" /\ b.op = "VerifyResp" /\ c.op = "ReadReceipt" /\ d.op = "SignRecpt" /\ e.op = "SendRecpt"
    BY SMTT(30) DEF St, Steps, Ops, Marks
  <2>2. BobReceipt = <<a, b, c, d, e>>
    BY DEF BobReceipt
  <2> HIDE DEF a, b, c, d, e
  <2>3. /\ Needs("Bob", a.op) \subseteq {}
        /\ Needs("Bob", b.op) \subseteq {} \cup {a.op}
        /\ Needs("Bob", c.op) \subseteq {} \cup {a.op, b.op}
        /\ Needs("Bob", d.op) \subseteq {} \cup {a.op, b.op, c.op}
        /\ Needs("Bob", e.op) \subseteq {} \cup {a.op, b.op, c.op, d.op}
    BY <2>1 DEF Needs
  <2>4. Part("Bob", <<a, b, c, d, e>>, {}, {} \cup {a.op, b.op, c.op, d.op, e.op})
    BY <2>1, <2>3, Part5, Zenon
  <2>5. Part("Bob", BobReceipt, {}, {} \cup {a.op, b.op, c.op, d.op, e.op})
    BY <2>2, <2>4, Zenon
  <2> QED BY <2>5, PartMono
<1>4. Part("Bob", BobDecrypt, {}, {})
  <2> DEFINE a == St("Decrypt", "decryptFailed", "closed")
  <2>1. /\ a \in Steps
        /\ a.op = "Decrypt"
    BY SMTT(30) DEF St, Steps, Ops, Marks
  <2>2. BobDecrypt = <<a>>
    BY DEF BobDecrypt
  <2> HIDE DEF a
  <2>3. Needs("Bob", a.op) \subseteq {}
    BY <2>1 DEF Needs
  <2>4. Part("Bob", <<a>>, {}, {} \cup {a.op})
    BY <2>1, <2>3, Part1, Zenon
  <2>5. Part("Bob", BobDecrypt, {}, {} \cup {a.op})
    BY <2>2, <2>4, Zenon
  <2> QED BY <2>5, PartMono
<1>5. Part("Bob", BobClaim, {}, {})
  <2> DEFINE a == St("GeneClaim", "claimFailed", "")
             b == St("Claim", "claimFailed", "claimed")
  <2>1. /\ a \in Steps /\ b \in Steps
        /\ a.op = "GeneClaim" /\ b.op = "Claim"
    BY SMTT(30) DEF St, Steps, Ops, Marks
  <2>2. BobClaim = <<a, b>>
    BY DEF BobClaim
  <2> HIDE DEF a, b
  <2>3. /\ Needs("Bob", a.op) \subseteq {}
        /\ Needs("Bob", b.op) \subseteq {} \cup {a.op}
    BY <2>1 DEF Needs
  <2>4. Part("Bob", <<a, b>>, {}, {} \cup {a.op, b.op})
    BY <2>1, <2>3, Part2, Zenon
  <2>5. Part("Bob", BobClaim, {}, {} \cup {a.op, b.op})
    BY <2>2, <2>4, Zenon
  <2> QED BY <2>5, PartMono
<1> QED BY <1>1, <1>2, <1>3, <1>4, <1>5

\* The request.
LEMMA BobAsks ==
    ASSUME NEW newFailed \in Marks, NEW sendFailed \in Marks, NEW asked \in Marks
    PROVE  Part("Bob", BobRequest(newFailed, sendFailed, asked), {}, {})
<1>1. Part("Bob", BobRequest(newFailed, sendFailed, asked), {}, {})
  <2> DEFINE a == St("NewReq", newFailed, "")
             b == St("SendReq", sendFailed, asked)
  <2>0. {""} \subseteq Marks
    BY DEF Marks
  <2>1. /\ a \in Steps /\ b \in Steps
        /\ a.op = "NewReq" /\ b.op = "SendReq"
    BY <2>0 DEF St, Steps, Ops
  <2>2. BobRequest(newFailed, sendFailed, asked) = <<a, b>>
    BY DEF BobRequest
  <2> HIDE DEF a, b
  <2>3. /\ Needs("Bob", a.op) \subseteq {}
        /\ Needs("Bob", b.op) \subseteq {} \cup {a.op}
    BY <2>1 DEF Needs
  <2>4. Part("Bob", <<a, b>>, {}, {} \cup {a.op, b.op})
    BY <2>1, <2>3, Part2, Zenon
  <2>5. Part("Bob", BobRequest(newFailed, sendFailed, asked), {}, {} \cup {a.op, b.op})
    BY <2>2, <2>4, Zenon
  <2> QED BY <2>5, PartMono
<1> QED BY <1>1

\* The secret, from the contract to the library.
LEMMA BobReads ==
    ASSUME NEW readFailed \in Marks, NEW saveFailed \in Marks, NEW saved \in Marks, NEW verified \in Marks
    PROVE  Part("Bob", BobSecret(readFailed, saveFailed, saved, verified), {}, {})
<1>1. Part("Bob", BobSecret(readFailed, saveFailed, saved, verified), {}, {})
  <2> DEFINE a == St("ReadScrt", readFailed, "")
             b == St("SaveScrt", saveFailed, saved)
             c == St("VerifySecret", "verifyFailed", verified)
  <2>0. {"", "verifyFailed"} \subseteq Marks
    BY DEF Marks
  <2>1. /\ a \in Steps /\ b \in Steps /\ c \in Steps
        /\ a.op = "ReadScrt" /\ b.op = "SaveScrt" /\ c.op = "VerifySecret"
    BY <2>0 DEF St, Steps, Ops
  <2>2. BobSecret(readFailed, saveFailed, saved, verified) = <<a, b, c>>
    BY DEF BobSecret
  <2> HIDE DEF a, b, c
  <2>3. /\ Needs("Bob", a.op) \subseteq {}
        /\ Needs("Bob", b.op) \subseteq {} \cup {a.op}
        /\ Needs("Bob", c.op) \subseteq {} \cup {a.op, b.op}
    BY <2>1 DEF Needs
  <2>4. Part("Bob", <<a, b, c>>, {}, {} \cup {a.op, b.op, c.op})
    BY <2>1, <2>3, Part3, Zenon
  <2>5. Part("Bob", BobSecret(readFailed, saveFailed, saved, verified), {}, {} \cup {a.op, b.op, c.op})
    BY <2>2, <2>4, Zenon
  <2> QED BY <2>5, PartMono
<1> QED BY <1>1

\* The two beginnings of the buyer's programs, and their ends.
LEMMA BobWhole ==
    ASSUME NEW newFailed \in Marks, NEW sendFailed \in Marks, NEW asked \in Marks,
           NEW readFailed \in Marks, NEW saveFailed \in Marks, NEW saved \in Marks, NEW verified \in Marks
    PROVE  /\ Part("Bob", BobBegin \o BobRequest(newFailed, sendFailed, asked) \o BobReceipt
                              \o BobSecret(readFailed, saveFailed, saved, verified), {}, {})
           /\ Part("Bob", BobBegin \o BobNego \o BobRequest(newFailed, sendFailed, asked) \o BobReceipt
                              \o BobSecret(readFailed, saveFailed, saved, verified), {}, {})
           /\ Part("Bob", BobBegin \o BobRequest(newFailed, sendFailed, asked) \o BobReceipt
                              \o BobSecret(readFailed, saveFailed, saved, verified) \o BobDecrypt, {}, {})
           /\ Part("Bob", BobBegin \o BobNego \o BobRequest(newFailed, sendFailed, asked) \o BobReceipt
                              \o BobSecret(readFailed, saveFailed, saved, verified) \o BobDecrypt, {}, {})
<1>1. /\ Part("Bob", BobRequest(newFailed, sendFailed, asked), {}, {})
      /\ Part("Bob", BobSecret(readFailed, saveFailed, saved, verified), {}, {})
  BY BobAsks, BobReads
<1>2. \A s, u : Part("Bob", s, {}, {}) /\ Part("Bob", u, {}, {}) => Part("Bob", s \o u, {}, {})
  BY PartConcat
<1> QED BY <1>1, <1>2, BobParts, Zenon

\* Every program of the buyer makes its calls after the ones they need.
LEMMA BobPrograms == \A p \in Programs : Part("Bob", BobProgram(p), {}, {})
<1>0. {"invalidRequest", "requestFailed", "requested", "", "secretGotFailed", "GotSecret", "secretFailed",
       "closed"} \subseteq Marks
  BY DEF Marks
<1>1. Part("Bob", BobTxForPC, {}, {}) /\ Part("Bob", BobTxForPOC, {}, {})
  BY <1>0, BobWhole DEF BobTxForPC, BobTxForPOC
<1>2. Part("Bob", BobTxForPAS, {}, {}) /\ Part("Bob", BobTxForPASVC, {}, {})
  BY <1>0, BobWhole DEF BobTxForPAS, BobTxForPASVC
<1>3. Part("Bob", BobTxForTC, {}, {}) /\ Part("Bob", BobTxForTOC, {}, {})
  BY <1>0, BobWhole DEF BobTxForTC, BobTxForTOC
<1>4. Part("Bob", BobTxForTAS, {}, {}) /\ Part("Bob", BobTxForTASVC, {}, {})
  BY <1>0, BobWhole DEF BobTxForTAS, BobTxForTASVC
<1>5. Part("Bob", BobTxForTQ, {}, {}) /\ Part("Bob", BobTxForTOQ, {}, {})
  BY <1>0, BobWhole DEF BobTxForTQ, BobTxForTOQ
<1> SUFFICES ASSUME NEW p \in Programs PROVE Part("Bob", BobProgram(p), {}, {})
  OBVIOUS
<1>6. BobProgram(p) \in {BobTxForPC, BobTxForPOC, BobTxForPAS, BobTxForPASVC, BobTxForTC, BobTxForTOC,
                         BobTxForTAS, BobTxForTASVC, BobTxForTQ, BobTxForTOQ}
  BY DEF BobProgram, Programs
<1> QED BY <1>1, <1>2, <1>3, <1>4, <1>5, <1>6

\* The directory is made first; what follows is in order.
LEMMA WholeProgram ==
    ASSUME NEW p \in Programs, NEW r \in Roles
    PROVE  /\ FileProgram(r, p) # << >> /\ Head(FileProgram(r, p)).op = "Mkdir"
           /\ Tail(FileProgram(r, p)) \in Seq(Steps)
           /\ Ready(r, Tail(FileProgram(r, p)), IF r = "Alice" THEN Start(p) ELSE {})
<1> DEFINE s == IF r = "Alice" THEN AliceProgram(p) ELSE BobProgram(p)
           m == St("Mkdir", "", "")
<1>1. s \in Seq(Steps) /\ Ready(r, s, IF r = "Alice" THEN Start(p) ELSE {})
  BY AlicePrograms, BobPrograms DEF Part, Roles
<1>2. FileProgram(r, p) = <<m>> \o s /\ m.op = "Mkdir"
  BY DEF FileProgram, St
<1> HIDE DEF s, m
<1>3. <<m>> \o s # << >> /\ Head(<<m>> \o s) = m /\ Tail(<<m>> \o s) = s
  BY <1>1
<1> QED BY <1>1, <1>2, <1>3

-----------------------------------------------------------------------------
(***************************************************************************)
(* The tables: the library calls of the wrappers and the parts of the      *)
(* messages.                                                               *)
(***************************************************************************)
AliceTable ==
    {<<"VerifyReq", Lib("OnRequest", {"request"}, {"response"})>>,
     <<"VerifyReceipt", Lib("OnReceipt", {"receipt"}, {"secret"})>>,
     <<"GeneNegoResp", Lib("OnNegoRequest", {"Bob_nego_request"}, {"Alice_nego_response"})>>,
     <<"GeneNegoReq", Lib("GetNegoRequest", {}, {"Alice_nego_request"})>>,
     <<"DealNegoResp", Lib("OnNegoResponse", {"Bob_nego_response"}, {})>>}
BobTable ==
    {<<"NewReq", Lib("GetRequest", {}, {"request"})>>,
     <<"VerifyResp", Lib("OnResponse", {"response"}, {"receipt"})>>,
     <<"VerifySecret", Lib("OnSecret", {"secret"}, {})>>,
     <<"VerifySecret", Lib("OnSecret", {"secret"}, {"positions"})>>,
     <<"Decrypt", Lib("Decrypt", {}, {"output"})>>,
     <<"GeneClaim", Lib("GenerateClaim", {}, {"claim"})>>,
     <<"GeneNegoReq", Lib("GetNegoRequest", {}, {"Bob_nego_request"})>>,
     <<"GeneNegoResp", Lib("OnNegoRequest", {"Alice_nego_request"}, {"Bob_nego_response"})>>,
     <<"DealNegoResp", Lib("OnNegoResponse", {"Alice_nego_response"}, {})>>}

In(f, T) == \A x \in DOMAIN f : <<x, f[x]>> \in T

\* The entries of one table over another are entries of the two.
LEMMA OverIn ==
    ASSUME NEW f, NEW g, NEW T, In(f, T), In(g, T)
    PROVE  In(Over(f, g), T)
<1> DEFINE h == Over(f, g)
<1>1. /\ DOMAIN h = DOMAIN f \cup DOMAIN g
      /\ \A x \in DOMAIN f : h[x] = f[x]
      /\ \A x \in DOMAIN g : x \notin DOMAIN f => h[x] = g[x]
  BY DEF Over
<1> HIDE DEF h
<1>2. \A x \in DOMAIN h : <<x, h[x]>> \in T
  BY <1>1 DEF In
<1> QED BY <1>2 DEF In, h

\* The calls behind Alice's steps, in all programs.
LEMMA AliceWrappers == \A p \in Programs : In(PoDAlice(p), AliceTable)
<1>1. In(AliceCalls, AliceTable)
  BY DEF In, AliceCalls, AliceTable
<1>2. In(AliceNegoCalls, AliceTable)
  BY DEF In, AliceNegoCalls, AliceTable
<1>3. In(Over(AliceCalls, AliceNegoCalls), AliceTable)
  BY <1>1, <1>2, OverIn
<1>4. \A p \in Programs : PoDAlice(p) \in {AliceCalls, Over(AliceCalls, AliceNegoCalls)}
  BY DEF Programs, PoDAlice, PoDAlicePC, PoDAlicePAS, PoDAlicePASVC, PoDAliceTC, PoDAliceTAS, PoDAliceTASVC,
         PoDAliceTQ, PoDAlicePOC, PoDAliceTOC, PoDAliceTOQ
<1> QED BY <1>1, <1>3, <1>4

\* The calls behind Bob's steps, in all programs.
LEMMA BobWrappers == \A p \in Programs : In(PoDBob(p), BobTable)
<1>1. In(BobCalls, BobTable) /\ In(BobClaimCall, BobTable) /\ In(BobQueryCall, BobTable)
  BY DEF In, BobCalls, BobClaimCall, BobQueryCall, BobTable
<1>2. In(BobDataCalls, BobTable)
  BY DEF In, BobDataCalls, BobTable
<1>3. In(BobNegoCalls, BobTable)
  BY DEF In, BobNegoCalls, BobTable
<1>4. /\ In(Over(BobDataCalls, BobClaimCall), BobTable)
      /\ In(Over(BobCalls, Over(BobDataCalls, BobClaimCall)), BobTable)
      /\ In(Over(BobCalls, BobDataCalls), BobTable) /\ In(Over(BobCalls, BobQueryCall), BobTable)
  BY <1>1, <1>2, OverIn
<1>5. /\ In(Over(BobNegoCalls, Over(BobCalls, Over(BobDataCalls, BobClaimCall))), BobTable)
      /\ In(Over(BobNegoCalls, Over(BobCalls, BobQueryCall)), BobTable)
  BY <1>3, <1>4, OverIn
<1>6. \A p \in Programs :
        PoDBob(p) \in {Over(BobCalls, Over(BobDataCalls, BobClaimCall)), Over(BobCalls, BobDataCalls),
                       Over(BobCalls, BobQueryCall),
                       Over(BobNegoCalls, Over(BobCalls, Over(BobDataCalls, BobClaimCall))),
                       Over(BobNegoCalls, Over(BobCalls, BobQueryCall))}
  BY DEF Programs, PoDBob, PoDBobPC, PoDBobPAS, PoDBobPASVC, PoDBobTC, PoDBobTAS, PoDBobTASVC, PoDBobTQ,
         PoDBobPOC, PoDBobTOC, PoDBobTOQ, PoDBobNegoPOC, PoDBobNegoTOC
<1> QED BY <1>4, <1>5, <1>6

\* What a wrapper reads and writes: the outputs are made by its call, the inputs by the
\* call it answers; an input is there when the calls it needs were made.
LEMMA WrapperFacts ==
    ASSUME prog \in Programs, NEW r \in Roles, NEW op \in DOMAIN Wrapper(r)
    PROVE  LET w == Wrapper(r)[op]
           IN  /\ \A name \in w.out : name \in Names /\ MadeBy(name) = w.call
               /\ \A name \in w.in : name \in Names /\ MadeBy(name) = Answers[w.call]
               /\ w.call = "OnSecret" => w.in = {"secret"}
               /\ w.call = "OnReceipt" => w.in = {"receipt"}
               /\ r = "Alice" /\ op = "VerifyReceipt" => w.out = {"secret"}
               /\ r = "Bob" /\ op = "VerifyResp" => w.out = {"receipt"}
               /\ op = "VerifySecret" => r = "Bob"
               /\ \A t : Needs(r, op) \subseteq Had(t, r) => \A name \in w.in : Has(t, r, name)
<1> DEFINE w == Wrapper(r)[op]
<1>1. CASE r = "Alice"
  <2>1. <<op, w>> \in AliceTable
    BY <1>1, AliceWrappers DEF Wrapper, In
  <2> HIDE DEF w
  <2>2. CASE op = "VerifyReq" /\ w = Lib("OnRequest", {"request"}, {"response"})
    BY <1>1, <2>2 DEF Lib, Names, MadeBy, Answers, Needs, Had, Effect, w
  <2>3. CASE op = "VerifyReceipt" /\ w = Lib("OnReceipt", {"receipt"}, {"secret"})
    BY <1>1, <2>3 DEF Lib, Names, MadeBy, Answers, Needs, Had, Effect, w
  <2>4. CASE op = "GeneNegoResp" /\ w = Lib("OnNegoRequest", {"Bob_nego_request"}, {"Alice_nego_response"})
    BY <1>1, <2>4 DEF Lib, Names, MadeBy, Answers, Needs, Had, Effect, w
  <2>5. CASE op = "GeneNegoReq" /\ w = Lib("GetNegoRequest", {}, {"Alice_nego_request"})
    BY <1>1, <2>5 DEF Lib, Names, MadeBy, Answers, Needs, Had, Effect, w
  <2>6. CASE op = "DealNegoResp" /\ w = Lib("OnNegoResponse", {"Bob_nego_response"}, {})
    BY <1>1, <2>6 DEF Lib, Names, MadeBy, Answers, Needs, Had, Effect, w
  <2> QED BY <2>1, <2>2, <2>3, <2>4, <2>5, <2>6 DEF AliceTable
<1>2. CASE r = "Bob"
  <2>1. <<op, w>> \in BobTable
    BY <1>2, BobWrappers DEF Wrapper, In
  <2> HIDE DEF w
  <2>2. CASE op = "NewReq" /\ w = Lib("GetRequest", {}, {"request"})
    BY <1>2, <2>2 DEF Lib, Names, MadeBy, Answers, Needs, Had, Effect, w
  <2>3. CASE op = "VerifyResp" /\ w = Lib("OnResponse", {"response"}, {"receipt"})
    BY <1>2, <2>3 DEF Lib, Names, MadeBy, Answers, Needs, Had, Effect, w
  <2>4. CASE /\ op = "VerifySecret"
             /\ w \in {Lib("OnSecret", {"secret"}, {}), Lib("OnSecret", {"secret"}, {"positions"})}
    BY <1>2, <2>4 DEF Lib, Names, MadeBy, Answers, Needs, Had, Effect, w
  <2>5. CASE op = "Decrypt" /\ w = Lib("Decrypt", {}, {"output"})
    BY <1>2, <2>5 DEF Lib, Names, MadeBy, Answers, Needs, Had, Effect, w
  <2>6. CASE op = "GeneClaim" /\ w = Lib("GenerateClaim", {}, {"claim"})
    BY <1>2, <2>6 DEF Lib, Names, MadeBy, Answers, Needs, Had, Effect, w
  <2>7. CASE op = "GeneNegoReq" /\ w = Lib("GetNegoRequest", {}, {"Bob_nego_request"})
    BY <1>2, <2>7 DEF Lib, Names, MadeBy, Answers, Needs, Had, Effect, w
  <2>8. CASE op = "GeneNegoResp" /\ w = Lib("OnNegoRequest", {"Alice_nego_request"}, {"Bob_nego_response"})
    BY <1>2, <2>8 DEF Lib, Names, MadeBy, Answers, Needs, Had, Effect, w
  <2>9. CASE op = "DealNegoResp" /\ w = Lib("OnNegoResponse", {"Alice_nego_response"}, {})
    BY <1>2, <2>9 DEF Lib, Names, MadeBy, Answers, Needs, Had, Effect, w
  <2> QED BY <2>1, <2>2, <2>3, <2>4, <2>5, <2>6, <2>7, <2>8, <2>9 DEF BobTable
<1> QED BY <1>1, <1>2 DEF Roles

\* Both sides name the parts of a message in the same order, and the files a later call
\* needs are among them.
LEMMA MessageFacts ==
    ASSUME NEW r \in Roles, NEW op \in DOMAIN RcvFiles[r]
    PROVE  LET names == RcvFiles[r][op]
           IN  /\ Peer(r) \in Roles
               /\ SentBy[op] \in DOMAIN SendFiles[Peer(r)]
               /\ SendFiles[Peer(r)][SentBy[op]] = names
               /\ \A i \in DOMAIN names : names[i] \in Names
               /\ op \in {"RcvNegoReq", "RcvNegoResp", "RcvReq", "RcvResp"}
               /\ r = "Alice" /\ op = "RcvNegoReq" => \E i \in DOMAIN names : names[i] = "Bob_nego_request"
               /\ r = "Alice" /\ op = "RcvNegoResp" => \E i \in DOMAIN names : names[i] = "Bob_nego_response"
               /\ r = "Alice" /\ op = "RcvReq" => \E i \in DOMAIN names : names[i] = "request"
               /\ r = "Bob" /\ op = "RcvResp" => \E i \in DOMAIN names : names[i] = "response"
               /\ r = "Bob" /\ op = "RcvNegoResp" =>
                        /\ \E i \in DOMAIN names : names[i] = "Alice_nego_request"
                        /\ \E i \in DOMAIN names : names[i] = "Alice_nego_response"
<1>0. \A a : DOMAIN <<a>> = {1} /\ <<a>>[1] = a
  OBVIOUS
<1>00. \A a, b : DOMAIN <<a, b>> = {1, 2} /\ <<a, b>>[1] = a /\ <<a, b>>[2] = b
  OBVIOUS
<1>1. CASE r = "Alice"
  <2>1. Peer(r) = "Bob"
    BY <1>1 DEF Peer
  <2>2. /\ op \in {"RcvNegoReq", "RcvNegoResp", "RcvReq"}
        /\ RcvFiles["Alice"]["RcvNegoReq"] = <<"Bob_nego_request">>
        /\ RcvFiles["Alice"]["RcvNegoResp"] = <<"Bob_nego_response">>
        /\ RcvFiles["Alice"]["RcvReq"] = <<"request">>
    BY <1>1 DEF RcvFiles
  <2>3. /\ DOMAIN SendFiles["Bob"] = {"SendNegoReq", "SendNegoResp", "SendReq"}
        /\ SendFiles["Bob"]["SendNegoReq"] = <<"Bob_nego_request">>
        /\ SendFiles["Bob"]["SendNegoResp"] = <<"Bob_nego_response">>
        /\ SendFiles["Bob"]["SendReq"] = <<"request">>
    BY DEF SendFiles
  <2>4. /\ SentBy["RcvNegoReq"] = "SendNegoReq" /\ SentBy["RcvNegoResp"] = "SendNegoResp"
        /\ SentBy["RcvReq"] = "SendReq"
    BY DEF SentBy
  <2> QED BY <1>0, <1>1, <2>1, <2>2, <2>3, <2>4 DEF Roles, Names
<1>2. CASE r = "Bob"
  <2>1. Peer(r) = "Alice"
    BY <1>2 DEF Peer
  <2>2. /\ op \in {"RcvNegoResp", "RcvResp"}
        /\ RcvFiles["Bob"]["RcvNegoResp"] = <<"Alice_nego_response", "Alice_nego_request">>
        /\ RcvFiles["Bob"]["RcvResp"] = <<"response">>
    BY <1>2 DEF RcvFiles
  <2>3. /\ DOMAIN SendFiles["Alice"] = {"SendNegoResp", "SendResp"}
        /\ SendFiles["Alice"]["SendNegoResp"] = <<"Alice_nego_response", "Alice_nego_request">>
        /\ SendFiles["Alice"]["SendResp"] = <<"response">>
    BY DEF SendFiles
  <2>4. SentBy["RcvNegoResp"] = "SendNegoResp" /\ SentBy["RcvResp"] = "SendResp"
    BY DEF SentBy
  <2> QED BY <1>0, <1>00, <1>2, <2>1, <2>2, <2>3, <2>4 DEF Roles, Names
<1> QED BY <1>1, <1>2 DEF Roles

-----------------------------------------------------------------------------
(***************************************************************************)
(* Contents: the count of a request, and the secret on its way.            *)
(***************************************************************************)
\* Who made a file that is right, and for which trade.
LEMMA RightContent ==
    ASSUME NEW t, NEW name \in Names
    PROVE  /\ Right(t, name).by = MadeBy(name) /\ Right(t, name).trade = t
           /\ name = "secret" => Right(t, name) = Content("OnReceipt", t, SecretFields(prog), << >>, << >>)
           /\ name = "receipt" => Right(t, name) = Content("OnResponse", t, ReceiptFields(prog), << >>, << >>)
           /\ name = "request" =>
                Right(t, name) = Content("GetRequest", t, {}, RequestD(prog, order.demands, order.phantoms),
                                                              RequestP(prog, order.demands, order.phantoms))
<1>1. \A c, f, d, p : Content(c, t, f, d, p).by = c /\ Content(c, t, f, d, p).trade = t
  BY DEF Content
<1>2. \A c : Made(c, t).by = c /\ Made(c, t).trade = t
  BY <1>1 DEF Made
<1>3. /\ Made("OnReceipt", t) = Content("OnReceipt", t, SecretFields(prog), << >>, << >>)
      /\ Made("OnResponse", t) = Content("OnResponse", t, ReceiptFields(prog), << >>, << >>)
      /\ Made("GetRequest", t) = Content("GetRequest", t, {}, RequestD(prog, order.demands, order.phantoms),
                                                              RequestP(prog, order.demands, order.phantoms))
  BY DEF Made
<1>4. MadeBy("secret") = "OnReceipt" /\ MadeBy("receipt") = "OnResponse" /\ MadeBy("request") = "GetRequest"
  BY DEF MadeBy
<1> QED BY <1>2, <1>3, <1>4 DEF Right

\* What Alice counts in the request is what Bob pays for.
LEMMA SameCount ==
    ASSUME prog \in Programs \ QueryPrograms, NEW t
    PROVE  AliceCnt(prog, Right(t, "request")) = Units
<1>1. /\ Right(t, "request").d = RequestD(prog, order.demands, order.phantoms)
      /\ Right(t, "request").p = RequestP(prog, order.demands, order.phantoms)
  BY RightContent DEF Names, Content
<1> QED BY <1>1 DEF Programs, QueryPrograms, AliceCnt, Units, BobCnt, RequestD, RequestP, calcuCntforComplaint,
                    calcuCntforOtComplaint, calcuCntforAS, calcuCntforASVC

\* The contract, the poll and the file of the secret keep all of its fields.
LEMMA SameSecret ==
    ASSUME prog \in Programs, NEW t
    PROVE  /\ readScrt(prog, Right(t, "secret")) = Right(t, "secret")
           /\ BobSaveSecret(prog, Right(t, "secret")) = Right(t, "secret")
<1> DEFINE x == Right(t, "secret")
<1>1. x = Content("OnReceipt", t, SecretFields(prog), << >>, << >>)
  BY RightContent DEF Names
<1>2. ASSUME NEW F, SecretFields(prog) \subseteq F PROVE Pick(x, F) = x
  BY <1>1, <1>2 DEF Pick, Content
<1> HIDE DEF x
<1> QED BY <1>2 DEF Programs, Family, QueryPrograms, SecretFields, readScrt, readScrtForComplaint,
               readScrtForAtomicSwap, readScrtForAtomicSwapVc, readScrtForVRFQ, BobSaveSecret,
               BobSaveSecretForComplaint, BobSaveSecretForAtomicSwap, BobSaveSecretForAtomicSwapVc,
               BobSaveSecretForVRFQ, x

\* A submission with the values of the trade carries its secret.
LEMMA SubmitsSecret ==
    ASSUME prog \in Programs, NEW t,
           aliceTx[t].count = Units, aliceTx[t].sign = RightSign(t), aliceTx[t].expireAt = ExpireAt(t),
           files[File(t, "Alice", "receipt")] = Right(t, "receipt"),
           files[File(t, "Alice", "secret")] = Right(t, "secret")
    PROVE  Submitted(t) = Right(t, "secret") /\ Right(t, "secret") # Nothing
<1> DEFINE x == Right(t, "secret")
           c == readReceipt(prog, Right(t, "receipt"))
           tx == TxOf(t)
<1>1. x = Content("OnReceipt", t, SecretFields(prog), << >>, << >>)
  BY RightContent DEF Names
<1>2. x # Nothing
  <2>1. x.by = "OnReceipt" /\ Nothing.by = "none"
    BY <1>1 DEF Content, Nothing
  <2> QED BY <2>1
<1>3. ASSUME NEW F, SecretFields(prog) \subseteq F PROVE Pick(x, F) = x
  BY <1>1, <1>3 DEF Pick, Content
<1>4. /\ tx.sid = sid[t] /\ tx.bob = buyer[t] /\ tx.alice = seller[t]
      /\ tx.unitPrice * tx.count = Due /\ tx.expireAt = ExpireAt(t)
  BY DEF TxOf, Due
<1>5. Submitted(t) = submitScrt(prog, tx, RightSign(t), c, x, "blt")
  BY DEF Submitted
<1>6. RightSign(t) = signRecpt(prog, buyer[t], seller[t], sid[t], c, Due, ExpireAt(t), "blt")
  BY DEF RightSign
<1> HIDE DEF x, c, tx
<1>7. CASE Family(prog) = "complaint"
  <2>1. SecretFields(prog) \subseteq {"s"} /\ RightSign(t) = <<sid[t], buyer[t], seller[t], "blt", c, Due, ExpireAt(t)>>
    BY <1>6, <1>7 DEF SecretFields, signRecpt, signRecptForComplaint
  <2> QED BY <1>2, <1>3, <1>4, <1>5, <1>7, <2>1 DEF submitScrt, submitScrtForComplaint, verifySigntureForComplaint, x
<1>8. CASE Family(prog) = "atomic_swap"
  <2>1. SecretFields(prog) \subseteq {"s"} /\ RightSign(t) = <<sid[t], buyer[t], seller[t], c, Due, ExpireAt(t)>>
    BY <1>6, <1>8 DEF SecretFields, signRecpt, signRecptForAtomicSwap
  <2> QED BY <1>2, <1>3, <1>4, <1>5, <1>8, <2>1 DEF submitScrt, submitScrtForAtomicSwap, verifySigntureForAtomicSwap, x
<1>9. CASE Family(prog) = "atomic_swap_vc"
  <2>1. SecretFields(prog) \subseteq {"s", "r"} /\ RightSign(t) = <<sid[t], buyer[t], seller[t], c, Due, ExpireAt(t)>>
    BY <1>6, <1>9 DEF SecretFields, signRecpt, signRecptForAtomicSwapVc
  <2> QED BY <1>2, <1>3, <1>4, <1>5, <1>9, <2>1 DEF submitScrt, submitScrtForAtomicSwapVc, verifySigntureForAtomicSwapVc, x
<1>10. CASE Family(prog) = "vrf"
  <2>1. SecretFields(prog) \subseteq {"r"} /\ RightSign(t) = <<sid[t], buyer[t], seller[t], c, Due, ExpireAt(t)>>
    BY <1>6, <1>10 DEF SecretFields, signRecpt, signRecptForVRFQ
  <2> QED BY <1>2, <1>3, <1>4, <1>5, <1>10, <2>1 DEF submitScrt, submitScrtForVRFQ, verifySigntureForVRFQ, x
<1>11. Family(prog) \in {"complaint", "atomic_swap", "atomic_swap_vc", "vrf"}
  BY DEF Programs, Family, QueryPrograms
<1> QED BY <1>7, <1>8, <1>9, <1>10, <1>11

-----------------------------------------------------------------------------
(***************************************************************************)
(* The steps.                                                              *)
(***************************************************************************)
\* What is right does not change while the ids stay.
LEMMA StillRight ==
    ASSUME UNCHANGED <<progVars, sid>>
    PROVE  /\ \A t, name : Right(t, name)' = Right(t, name)
           /\ Due' = Due /\ Units' = Units /\ \A t : RightSign(t)' = RightSign(t)
           /\ \A t, r : Node(t, r)' = Node(t, r)
           /\ \A t, r, name : File(t, r, name)' = File(t, r, name)
           /\ \A t : RecordOf(t)' = RecordOf(t)
           /\ \A m : RightMsg(m)' <=> RightMsg(m)
<1>1. \A t, name : Right(t, name)' = Right(t, name)
  BY DEF Right, Made, progVars
<1>2. Due' = Due /\ Units' = Units
  BY DEF Due, Units, progVars
<1>3. \A t : RightSign(t)' = RightSign(t)
  BY <1>1, <1>2 DEF RightSign, ExpireAt, progVars
<1>4. /\ \A t, r : Node(t, r)' = Node(t, r)
      /\ \A t, r, name : File(t, r, name)' = File(t, r, name)
      /\ \A t : RecordOf(t)' = RecordOf(t)
  BY DEF Node, File, RecordOf, progVars
<1>5. \A m : RightMsg(m)' <=> RightMsg(m)
  BY <1>1, <1>2, <1>3 DEF RightMsg, ExpireAt
<1> QED BY <1>1, <1>2, <1>3, <1>4, <1>5

\* A program in order is not about to make its directory.
LEMMA NotMkdir ==
    ASSUME NEW x \in Seq(Steps), x # << >>
    PROVE  Head(x) \in Steps /\ Head(x).op \in Ops /\ Head(x).op # "Mkdir"
<1>1. Head(x) \in Steps
  OBVIOUS
<1>2. Head(x).op \in Ops
  BY <1>1 DEF Steps
<1> QED BY <1>1, <1>2 DEF Ops

\* What the step of a running side may do: its own program goes on in order, the files it
\* writes are in its directory and right, and so are its messages and its record.
Proper(t, r, x) ==
    /\ UNCHANGED <<progVars, sid, dirs>>
    /\ x \in Seq(Steps) /\ todo' = [todo EXCEPT ![t][r] = x]
    /\ \A f \in DOMAIN files : f \in DOMAIN files'
    /\ \A f \in DOMAIN files' :
            \/ f \in DOMAIN files /\ files'[f] = files[f]
            \/ \E name \in Names : f = File(t, r, name) /\ files'[f] = Right(t, name)
    /\ \A m \in wire' : m \in wire \/ RightMsg(m)
    /\ DOMAIN aliceTx' = Trades /\ DOMAIN bobTx' = Trades
    /\ DOMAIN aliceTx'[t] = DOMAIN NoAliceTx /\ DOMAIN bobTx'[t] = DOMAIN NoBobTx
    /\ \A u \in Trades \ {t} : aliceTx'[u] = aliceTx[u] /\ bobTx'[u] = bobTx[u]
    /\ (r = "Bob" => aliceTx' = aliceTx) /\ (r = "Alice" => bobTx' = bobTx)
    /\ \A k \in DOMAIN record' :
            \/ k \in DOMAIN record /\ record'[k] = record[k]
            \/ r = "Alice" /\ k = RecordOf(t) /\ record'[k] = Right(t, "secret")

\* The programs after a proper step.
LEMMA ProperTodo ==
    ASSUME Inv, NEW t \in Trades, NEW r \in Roles, Running(t, r), NEW x, Proper(t, r, x)
    PROVE  /\ DOMAIN todo' = Trades /\ \A u \in Trades : DOMAIN todo'[u] = Roles
           /\ todo'[t][r] = x /\ ~At(t, r, "Mkdir")'
           /\ \A u \in Trades, q \in Roles :
                (u # t \/ q # r) => /\ todo'[u][q] = todo[u][q] /\ Call(u, q)' = Call(u, q)
                                    /\ Running(u, q)' = Running(u, q)
           /\ \A u \in Trades, q \in Roles : Running(u, q)' => Running(u, q)
<1>1. /\ DOMAIN todo = Trades /\ \A u \in Trades : DOMAIN todo[u] = Roles
      /\ todo' = [todo EXCEPT ![t][r] = x] /\ x \in Seq(Steps)
  BY DEF Inv, Shape, Proper
<1>2. /\ DOMAIN todo' = Trades /\ \A u \in Trades : DOMAIN todo'[u] = Roles
      /\ todo'[t][r] = x
      /\ \A u \in Trades, q \in Roles : (u # t \/ q # r) => todo'[u][q] = todo[u][q]
  BY <1>1
<1>3. Call(t, r)' # "Mkdir"
  BY <1>1, <1>2, NotMkdir DEF Call
<1>4. \A u \in Trades, q \in Roles :
        (u # t \/ q # r) => Call(u, q)' = Call(u, q) /\ Running(u, q)' = Running(u, q)
  BY <1>2 DEF Call, At, Running
<1> QED BY <1>2, <1>3, <1>4 DEF At

\* What the other sides have made is still there.
LEMMA ProperHad ==
    ASSUME Inv, NEW t \in Trades, NEW r \in Roles, NEW x, Proper(t, r, x)
    PROVE  /\ \A u \in Trades, q \in Roles : \A name : Has(u, q, name) => Has(u, q, name)'
           /\ \A u \in Trades, q \in Roles : (u # t \/ q # r) => \A op \in Had(u, q) : op \in Had(u, q)'
<1>1. \A u, q, name : Has(u, q, name) => Has(u, q, name)'
  BY StillRight DEF Has, Proper
<1>2. ASSUME NEW u \in Trades, NEW q \in Roles, u # t \/ q # r, NEW op \in Had(u, q)
      PROVE  op \in Had(u, q)'
  <2>1. /\ \A name : Right(u, name)' = Right(u, name)
        /\ Due' = Due /\ Units' = Units /\ RightSign(u)' = RightSign(u)
    BY StillRight DEF Proper
  <2>2. (q = "Alice" => aliceTx'[u] = aliceTx[u]) /\ (q = "Bob" => bobTx'[u] = bobTx[u])
    BY <1>2 DEF Proper, Roles
  <2>3. op \in Ops \cup {"Sale"} /\ Effect(u, q, op)
    BY DEF Had
  <2>4. Effect(u, q, op)'
    <3>1. CASE q = "Alice"
      BY <3>1, <1>1, <2>1, <2>2, <2>3 DEF Effect, ExpireAt, Proper, progVars
    <3>2. CASE q = "Bob"
      BY <3>2, <1>1, <2>1, <2>2, <2>3 DEF Effect
    <3> QED BY <3>1, <3>2 DEF Roles
  <2> QED BY <2>3, <2>4 DEF Had
<1> QED BY <1>1, <1>2

\* A proper step that leaves the program in order keeps the invariant.
LEMMA ProperInv ==
    ASSUME Inv, NEW t \in Trades, NEW r \in Roles, Running(t, r), NEW x, Proper(t, r, x),
           Ready(r, x, Had(t, r)')
    PROVE  Inv'
<1>a. /\ DOMAIN todo' = Trades /\ \A u \in Trades : DOMAIN todo'[u] = Roles
      /\ todo'[t][r] = x /\ ~At(t, r, "Mkdir")'
      /\ \A u \in Trades, q \in Roles :
            (u # t \/ q # r) => todo'[u][q] = todo[u][q] /\ Call(u, q)' = Call(u, q)
      /\ \A u \in Trades, q \in Roles : Running(u, q)' => Running(u, q)
  BY ProperTodo
<1>b. \A u \in Trades, q \in Roles : (u # t \/ q # r) => \A op \in Had(u, q) : op \in Had(u, q)'
  BY ProperHad
<1>1. /\ \A u, name : Right(u, name)' = Right(u, name)
      /\ \A u, q : Node(u, q)' = Node(u, q)
      /\ \A u, q, name : File(u, q, name)' = File(u, q, name)
      /\ \A u : RecordOf(u)' = RecordOf(u)
      /\ \A m : RightMsg(m)' <=> RightMsg(m)
  BY StillRight DEF Proper
<1>2. /\ sid' = sid /\ dirs' = dirs /\ prog' = prog /\ seller' = seller
  BY DEF Proper, progVars
<1>3. Shape'
  <2>1. ASSUME NEW u \in Trades
        PROVE  /\ DOMAIN aliceTx'[u] = DOMAIN NoAliceTx /\ DOMAIN bobTx'[u] = DOMAIN NoBobTx
               /\ At(u, "Alice", "Mkdir")' => aliceTx'[u].count = 1
    <3>1. CASE u # t
      <4>1. aliceTx'[u] = aliceTx[u] /\ bobTx'[u] = bobTx[u]
        BY <3>1 DEF Proper
      <4>2. Call(u, "Alice")' = Call(u, "Alice")
        BY <3>1, <1>a DEF Roles
      <4> QED BY <4>1, <4>2 DEF Inv, Shape, At
    <3>2. CASE u = t /\ r = "Alice"
      BY <3>2, <1>a DEF Proper
    <3>3. CASE u = t /\ r = "Bob"
      <4>1. aliceTx' = aliceTx /\ Call(u, "Alice")' = Call(u, "Alice")
        BY <3>3, <1>a DEF Proper, Roles
      <4> QED BY <3>3, <4>1 DEF Inv, Shape, Proper, At
    <3> QED BY <3>1, <3>2, <3>3 DEF Roles
  <2>2. NoAliceTx' = NoAliceTx /\ NoBobTx' = NoBobTx
    BY DEF NoAliceTx, NoBobTx, Nothing, Content
  <2> QED BY <2>1, <2>2, <1>2, <1>a DEF Inv, Shape, Proper
<1>4. DirsOwned'
  <2>1. \A u \in Trades : At(u, "Alice", "Mkdir")' => At(u, "Alice", "Mkdir")
    BY <1>a DEF At, Roles
  <2> QED BY <1>1, <1>2, <1>a, <2>1 DEF Inv, DirsOwned
<1>5. FilesRight'
  <2>1. ASSUME NEW f \in DOMAIN files'
        PROVE  <<f[1], f[2]>> \in dirs' /\ f[3] \in Names /\ f = <<f[1], f[2], f[3]>>
    <3>1. CASE f \in DOMAIN files
      BY <3>1, <1>2 DEF Inv, FilesRight
    <3>2. ASSUME NEW name \in Names, f = File(t, r, name)
          PROVE  <<f[1], f[2]>> \in dirs' /\ f[3] \in Names /\ f = <<f[1], f[2], f[3]>>
      BY <3>2, <1>2 DEF Inv, DirsOwned, File
    <3> QED BY <3>1, <3>2 DEF Proper
  <2>2. ASSUME NEW u \in Trades, NEW q \in Roles, NEW name \in Names, Running(u, q)', Has(u, q, name)'
        PROVE  files'[File(u, q, name)] = Right(u, name)
    <3> DEFINE f == File(u, q, name)
    <3>1. f \in DOMAIN files' /\ Running(u, q)
      BY <2>2, <1>1, <1>a DEF Has
    <3>2. CASE f \in DOMAIN files /\ files'[f] = files[f]
      BY <3>1, <3>2 DEF Inv, FilesRight, Has
    <3>3. ASSUME NEW n \in Names, f = File(t, r, n), files'[f] = Right(t, n)
          PROVE  files'[f] = Right(u, name)
      <4>1. Node(u, q) = Node(t, r) /\ sid[u] = sid[t] /\ name = n
        BY <3>3 DEF File
      <4>2. u = t
        BY <4>1, <3>1 DEF Inv, DirsOwned
      <4> QED BY <3>3, <4>1, <4>2
    <3> QED BY <3>1, <3>2, <3>3 DEF Proper
  <2> QED BY <1>1, <2>1, <2>2 DEF FilesRight
<1>6. DirOfOneTrade'
  <2>1. ASSUME NEW f \in DOMAIN files', f \notin DOMAIN files \/ files'[f] # files[f]
        PROVE  f[1] = Node(t, r) /\ f[2] = sid[t] /\ files'[f].trade = t
    <3>1. PICK name \in Names : f = File(t, r, name) /\ files'[f] = Right(t, name)
      BY <2>1 DEF Proper
    <3> QED BY <3>1, RightContent DEF File
  <2>2. ASSUME NEW f \in DOMAIN files, f[1] = Node(t, r), f[2] = sid[t]
        PROVE  files[f].trade = t
    <3>1. f = File(t, r, f[3]) /\ f[3] \in Names
      BY <2>2 DEF Inv, FilesRight, File
    <3>2. files[f] = Right(t, f[3])
      BY <3>1 DEF Inv, FilesRight, Has
    <3> QED BY <3>1, <3>2, RightContent
  <2>3. ASSUME NEW f \in DOMAIN files', NEW g \in DOMAIN files', f[1] = g[1], f[2] = g[2]
        PROVE  files'[f].trade = files'[g].trade
    <3>1. CASE f[1] = Node(t, r) /\ f[2] = sid[t]
      BY <2>1, <2>2, <2>3, <3>1
    <3>2. CASE ~(f[1] = Node(t, r) /\ f[2] = sid[t])
      <4>1. /\ f \in DOMAIN files /\ files'[f] = files[f]
            /\ g \in DOMAIN files /\ files'[g] = files[g]
        BY <2>1, <2>3, <3>2
      <4> QED BY <4>1, <2>3 DEF Inv, DirOfOneTrade
    <3> QED BY <3>1, <3>2
  <2> QED BY <2>3 DEF DirOfOneTrade
<1>7. WireRight'
  BY <1>1 DEF Inv, WireRight, Proper
<1>8. RecordRight'
  <2>1. sid[t] # 0 /\ <<seller[t], sid[t]>> \in dirs
    BY DEF Inv, DirsOwned
  <2>2. ASSUME NEW k \in DOMAIN record' PROVE <<k[2], k[4]>> \in dirs'
    BY <1>2, <2>1, <2>2 DEF Inv, RecordRight, Proper, RecordOf
  <2>3. ASSUME NEW u \in Trades, sid[u] # 0, RecordOf(u) \in DOMAIN record'
        PROVE  record'[RecordOf(u)] = Right(u, "secret")
    <3>1. CASE RecordOf(u) \in DOMAIN record /\ record'[RecordOf(u)] = record[RecordOf(u)]
      BY <2>3, <3>1 DEF Inv, RecordRight
    <3>2. CASE RecordOf(u) = RecordOf(t) /\ record'[RecordOf(u)] = Right(t, "secret")
      <4>1. seller[u] = seller[t] /\ sid[u] = sid[t]
        BY <3>2 DEF RecordOf
      <4>2. u = t
        BY <4>1, <2>3 DEF Inv, DirsOwned
      <4> QED BY <3>2, <4>2
    <3> QED BY <2>3, <3>1, <3>2 DEF Proper
  <2> QED BY <1>1, <1>2, <2>2, <2>3 DEF RecordRight
<1>9. InOrder'
  <2> SUFFICES ASSUME NEW u \in Trades, NEW q \in Roles PROVE Stage(u, q)'
    BY DEF InOrder
  <2>1. CASE u = t /\ q = r
    <3>1. x \in Seq(Steps) /\ todo'[t][r] = x /\ ~At(t, r, "Mkdir")'
      BY <1>a DEF Proper
    <3> QED BY <2>1, <3>1 DEF Stage
  <2>2. CASE u # t \/ q # r
    <3>1. todo'[u][q] = todo[u][q] /\ Call(u, q)' = Call(u, q) /\ \A op \in Had(u, q) : op \in Had(u, q)'
      BY <2>2, <1>a, <1>b
    <3>2. CASE At(u, q, "Mkdir")
      <4>1. todo[u][q] = FileProgram(q, prog) /\ At(u, q, "Mkdir")'
        BY <3>1, <3>2 DEF Inv, InOrder, Stage, At
      <4> QED BY <4>1, <3>1, <1>2 DEF Stage
    <3>3. CASE ~At(u, q, "Mkdir")
      <4>1. todo[u][q] \in Seq(Steps) /\ Ready(q, todo[u][q], Had(u, q)) /\ ~At(u, q, "Mkdir")'
        BY <3>1, <3>3 DEF Inv, InOrder, Stage, At
      <4>2. Ready(q, todo[u][q], Had(u, q)')
        BY <4>1, <3>1 DEF Ready
      <4> QED BY <4>1, <4>2, <3>1 DEF Stage
    <3> QED BY <3>2, <3>3
  <2> QED BY <2>1, <2>2
<1> QED BY <1>3, <1>4, <1>5, <1>6, <1>7, <1>8, <1>9 DEF Inv

\* A call that is made is the next one of a running program, which has what it needs.
LEMMA RunningFacts ==
    ASSUME Inv, NEW t \in Trades, NEW r \in Roles, Call(t, r) \notin {"none", "Mkdir"}
    PROVE  /\ Running(t, r) /\ todo[t][r] \in Seq(Steps) /\ todo[t][r] # << >>
           /\ Tail(todo[t][r]) \in Seq(Steps) /\ << >> \in Seq(Steps)
           /\ Call(t, r) = Head(todo[t][r]).op /\ Call(t, r) \in Ops
           /\ Ready(r, todo[t][r], Had(t, r))
           /\ Needs(r, Call(t, r)) \subseteq Had(t, r)
           /\ sid[t] # 0
<1>1. Running(t, r) /\ todo[t][r] # << >> /\ Call(t, r) = Head(todo[t][r]).op /\ ~At(t, r, "Mkdir")
  BY DEF Call, At, Running
<1>2. todo[t][r] \in Seq(Steps) /\ Ready(r, todo[t][r], Had(t, r))
  BY <1>1 DEF Inv, InOrder, Stage
<1>3. Needs(r, Call(t, r)) \subseteq Had(t, r)
  BY <1>1, <1>2, ReadyHead
<1>4. Call(t, r) \in Ops
  BY <1>1, <1>2, NotMkdir
<1>5. Tail(todo[t][r]) \in Seq(Steps) /\ << >> \in Seq(Steps)
  BY <1>1, <1>2
<1>6. sid[t] # 0
  BY <1>1 DEF Inv, DirsOwned
<1> QED BY <1>1, <1>2, <1>3, <1>4, <1>5, <1>6

\* A file of a running side is the right one.
LEMMA FoundRight ==
    ASSUME Inv, NEW t \in Trades, NEW r \in Roles, Call(t, r) \notin {"none", "Mkdir"}, NEW name \in Names,
           Has(t, r, name)
    PROVE  files[File(t, r, name)] = Right(t, name)
BY RunningFacts DEF Inv, FilesRight

\* A step that ends a program.
LEMMA Stopped ==
    ASSUME Inv, NEW t \in Trades, NEW r \in Roles, Running(t, r), Proper(t, r, << >>)
    PROVE  Inv'
BY ProperInv, ReadyEmpty

\* What a side has made is still there after a step that keeps its values or makes
\* them right.
LEMMA KeptHad ==
    ASSUME Inv, NEW t \in Trades, NEW r \in Roles, NEW x, Proper(t, r, x),
           r = "Alice" => /\ aliceTx'[t].count \in {aliceTx[t].count, Units}
                          /\ aliceTx'[t].price \in {aliceTx[t].price, Due}
                          /\ aliceTx'[t].sign \in {aliceTx[t].sign, RightSign(t)}
                          /\ aliceTx'[t].signPrice \in {aliceTx[t].signPrice, Due}
                          /\ aliceTx'[t].expireAt \in {aliceTx[t].expireAt, ExpireAt(t)},
           r = "Bob" => /\ bobTx'[t].receipt \in {bobTx[t].receipt, Right(t, "receipt")}
                        /\ bobTx'[t].price \in {bobTx[t].price, Due}
                        /\ bobTx'[t].sign \in {bobTx[t].sign, RightSign(t)}
                        /\ bobTx'[t].secret \in {bobTx[t].secret, Right(t, "secret")}
    PROVE  \A op \in Had(t, r) : op \in Had(t, r)'
<1> SUFFICES ASSUME NEW op \in Had(t, r) PROVE op \in Had(t, r)'
  OBVIOUS
<1>1. /\ \A name : Right(t, name)' = Right(t, name)
      /\ Due' = Due /\ Units' = Units /\ RightSign(t)' = RightSign(t)
  BY StillRight DEF Proper
<1>2. \A name : Has(t, r, name) => Has(t, r, name)'
  BY ProperHad
<1>3. op \in Ops \cup {"Sale"} /\ Effect(t, r, op) /\ prog' = prog
  BY DEF Had, Proper, progVars
<1>4. Effect(t, r, op)'
  <2>1. CASE r = "Alice"
    BY <2>1, <1>1, <1>2, <1>3 DEF Effect, ExpireAt
  <2>2. CASE r = "Bob"
    BY <2>2, <1>1, <1>2, <1>3 DEF Effect
  <2> QED BY <2>1, <2>2 DEF Roles
<1> QED BY <1>3, <1>4 DEF Had

\* A step to the next call, which leaves behind what its call is for.
LEMMA Advanced ==
    ASSUME Inv, NEW t \in Trades, NEW r \in Roles, NEW c, Call(t, r) = c, c \notin {"none", "Mkdir"},
           Proper(t, r, Tail(todo[t][r])),
           \A op \in Had(t, r) : op \in Had(t, r)', Effect(t, r, c)'
    PROVE  Inv'
<1>1. /\ Running(t, r) /\ todo[t][r] \in Seq(Steps) /\ todo[t][r] # << >>
      /\ c = Head(todo[t][r]).op /\ c \in Ops /\ Ready(r, todo[t][r], Had(t, r))
  BY RunningFacts
<1>2. Head(todo[t][r]).op \in Had(t, r)'
  BY <1>1 DEF Had
<1>3. Ready(r, Tail(todo[t][r]), Had(t, r)')
  BY <1>1, <1>2, ReadyTail
<1> QED BY <1>1, <1>3, ProperInv

\* A step that only moves a program.
LEMMA OnlyTodo ==
    ASSUME Inv, NEW t \in Trades, NEW r \in Roles, NEW x \in Seq(Steps),
           UNCHANGED <<progVars, sid, dirs, files, wire, aliceTx, bobTx, record>>,
           todo' = [todo EXCEPT ![t][r] = x]
    PROVE  Proper(t, r, x)
BY DEF Inv, Shape, Proper

\* The calls that only move the program, or end it.
LEMMA PassInv == ASSUME Inv, NEW t \in Trades, NEW r \in Roles, Pass(t, r) PROVE Inv'
<1>1. PICK c \in Quiet : Call(t, r) = c
  BY DEF Pass
<1>2. c \notin {"none", "Mkdir"}
  BY DEF Quiet
<1>3. Proper(t, r, Tail(todo[t][r]))
  BY <1>1, <1>2, RunningFacts, OnlyTodo DEF Pass, Advance
<1>4. \A op \in Had(t, r) : op \in Had(t, r)'
  BY <1>3, KeptHad DEF Pass
<1>5. Effect(t, r, c)'
  BY DEF Effect, Quiet
<1> QED BY <1>1, <1>2, <1>3, <1>4, <1>5, Advanced

LEMMA PeerGoneInv == ASSUME Inv, NEW t \in Trades, NEW r \in Roles, PeerGone(t, r) PROVE Inv'
<1>1. Call(t, r) \notin {"none", "Mkdir"}
  BY DEF PeerGone, SentBy
<1>2. Running(t, r) /\ << >> \in Seq(Steps)
  BY <1>1, RunningFacts
<1>3. Proper(t, r, << >>)
  BY <1>2, OnlyTodo DEF PeerGone, Stop
<1> QED BY <1>2, <1>3, Stopped

LEMMA ReadScrtTimeoutInv == ASSUME Inv, NEW t \in Trades, NEW r \in Roles, ReadScrtTimeout(t, r) PROVE Inv'
<1>1. Call(t, r) \notin {"none", "Mkdir"}
  BY DEF ReadScrtTimeout, At
<1>2. Running(t, r) /\ << >> \in Seq(Steps)
  BY <1>1, RunningFacts
<1>3. Proper(t, r, << >>)
  BY <1>2, OnlyTodo DEF ReadScrtTimeout, Stop
<1> QED BY <1>2, <1>3, Stopped

LEMMA FaultInv == ASSUME Inv, NEW t \in Trades, NEW r \in Roles, Fault(t, r) PROVE Inv'
<1>1. Running(t, r)
  BY DEF Fault, Running
<1>2. << >> \in Seq(Steps)
  OBVIOUS
<1>3. Proper(t, r, << >>)
  BY <1>2, OnlyTodo DEF Fault, Stop
<1> QED BY <1>1, <1>3, Stopped

\* The price is checked; the program goes on or ends.
LEMMA CheckPriceInv == ASSUME Inv, NEW t \in Trades, CheckPrice(t) PROVE Inv'
<1>0. "Alice" \in Roles /\ Call(t, "Alice") = "CheckPrice"
  BY DEF CheckPrice, At, Roles
<1>1. /\ Running(t, "Alice") /\ Tail(todo[t]["Alice"]) \in Seq(Steps) /\ << >> \in Seq(Steps)
  BY <1>0, RunningFacts
<1>2. CASE Stop(t, "Alice")
  <2>1. Proper(t, "Alice", << >>)
    BY <1>0, <1>1, <1>2, OnlyTodo DEF CheckPrice, Stop
  <2> QED BY <1>0, <1>1, <2>1, Stopped
<1>3. CASE Advance(t, "Alice")
  <2>1. Proper(t, "Alice", Tail(todo[t]["Alice"]))
    BY <1>0, <1>1, <1>3, OnlyTodo DEF CheckPrice, Advance
  <2>2. \A op \in Had(t, "Alice") : op \in Had(t, "Alice")'
    BY <1>0, <2>1, KeptHad DEF CheckPrice
  <2>3. Effect(t, "Alice", "CheckPrice")'
    BY DEF Effect
  <2> QED BY <1>0, <2>1, <2>2, <2>3, Advanced
<1> QED BY <1>2, <1>3 DEF CheckPrice

\* Alice counts the units of the request and sets the price.
LEMMA CalcuCntInv == ASSUME Inv, NEW t \in Trades, CalcuCnt(t) PROVE Inv'
<1>0. "Alice" \in Roles /\ Call(t, "Alice") = "CalcuCnt"
  BY DEF CalcuCnt, At, Roles
<1>1. /\ Tail(todo[t]["Alice"]) \in Seq(Steps) /\ Needs("Alice", "CalcuCnt") \subseteq Had(t, "Alice")
  BY <1>0, RunningFacts
<1>2. "RcvReq" \in Had(t, "Alice") /\ "Sale" \in Had(t, "Alice")
  BY <1>1 DEF Needs
<1>3. Has(t, "Alice", "request") /\ prog \in Programs \ QueryPrograms
  BY <1>2 DEF Had, Effect, Inv, Shape
<1>4. AliceCnt(prog, files[File(t, "Alice", "request")]) = Units
  BY <1>0, <1>3, FoundRight, SameCount DEF Names
<1>5. /\ aliceTx' = [aliceTx EXCEPT ![t].count = Units]
      /\ DOMAIN aliceTx = Trades /\ DOMAIN aliceTx[t] = DOMAIN NoAliceTx /\ DOMAIN bobTx = Trades
      /\ DOMAIN bobTx[t] = DOMAIN NoBobTx
  BY <1>4 DEF CalcuCnt, Inv, Shape
<1>6. /\ DOMAIN aliceTx' = Trades /\ DOMAIN aliceTx'[t] = DOMAIN NoAliceTx
      /\ \A u \in Trades \ {t} : aliceTx'[u] = aliceTx[u]
      /\ aliceTx'[t] = [aliceTx[t] EXCEPT !.count = Units]
  BY <1>5
<1>7. /\ aliceTx'[t].count = Units /\ aliceTx'[t].price = aliceTx[t].price
      /\ aliceTx'[t].sign = aliceTx[t].sign /\ aliceTx'[t].signPrice = aliceTx[t].signPrice
      /\ aliceTx'[t].expireAt = aliceTx[t].expireAt
  BY <1>5, <1>6 DEF NoAliceTx
<1>8. Proper(t, "Alice", Tail(todo[t]["Alice"]))
  BY <1>1, <1>5, <1>6 DEF CalcuCnt, Advance, Proper
<1>9. \A op \in Had(t, "Alice") : op \in Had(t, "Alice")'
  BY <1>0, <1>7, <1>8, KeptHad
<1>10. Effect(t, "Alice", "CalcuCnt")'
  <2>1. Units' = Units
    BY StillRight DEF CalcuCnt
  <2> QED BY <1>7, <2>1 DEF Effect
<1> QED BY <1>0, <1>8, <1>9, <1>10, Advanced

LEMMA CalcuPriceInv == ASSUME Inv, NEW t \in Trades, CalcuPrice(t) PROVE Inv'
<1>0. "Alice" \in Roles /\ Call(t, "Alice") = "CalcuDeposit"
  BY DEF CalcuPrice, At, Roles
<1>1. /\ Tail(todo[t]["Alice"]) \in Seq(Steps) /\ Needs("Alice", "CalcuDeposit") \subseteq Had(t, "Alice")
  BY <1>0, RunningFacts
<1>2. "CalcuCnt" \in Had(t, "Alice")
  BY <1>1 DEF Needs
<1>3. aliceTx[t].count = Units
  BY <1>2 DEF Had, Effect
<1>4. (IF prog \in QueryPrograms THEN UnitPrice ELSE UnitPrice * aliceTx[t].count) = Due
  <2>1. prog \in QueryPrograms => Units = 1
    BY DEF Units, BobCnt, QueryPrograms
  <2>2. UnitPrice * 1 = UnitPrice
    BY FilesAssumption
  <2> QED BY <1>3, <2>1, <2>2 DEF Due
<1>5. /\ aliceTx' = [aliceTx EXCEPT ![t].price = Due]
      /\ DOMAIN aliceTx = Trades /\ DOMAIN aliceTx[t] = DOMAIN NoAliceTx /\ DOMAIN bobTx = Trades
      /\ DOMAIN bobTx[t] = DOMAIN NoBobTx
  BY <1>4 DEF CalcuPrice, Inv, Shape
<1>6. /\ DOMAIN aliceTx' = Trades /\ DOMAIN aliceTx'[t] = DOMAIN NoAliceTx
      /\ \A u \in Trades \ {t} : aliceTx'[u] = aliceTx[u]
      /\ aliceTx'[t] = [aliceTx[t] EXCEPT !.price = Due]
  BY <1>5
<1>7. /\ aliceTx'[t].price = Due /\ aliceTx'[t].count = aliceTx[t].count
      /\ aliceTx'[t].sign = aliceTx[t].sign /\ aliceTx'[t].signPrice = aliceTx[t].signPrice
      /\ aliceTx'[t].expireAt = aliceTx[t].expireAt
  BY <1>5, <1>6 DEF NoAliceTx
<1>8. Proper(t, "Alice", Tail(todo[t]["Alice"]))
  BY <1>1, <1>5, <1>6 DEF CalcuPrice, Advance, Proper
<1>9. \A op \in Had(t, "Alice") : op \in Had(t, "Alice")'
  BY <1>0, <1>7, <1>8, KeptHad
<1>10. Effect(t, "Alice", "CalcuDeposit")'
  <2>1. Due' = Due
    BY StillRight DEF CalcuPrice
  <2> QED BY <1>7, <2>1 DEF Effect
<1> QED BY <1>0, <1>8, <1>9, <1>10, Advanced

\* Bob keeps the receipt, signs it and sends it.
LEMMA ReadReceiptInv == ASSUME Inv, NEW t \in Trades, ReadReceipt(t) PROVE Inv'
<1>0. "Bob" \in Roles /\ Call(t, "Bob") = "ReadReceipt"
  BY DEF ReadReceipt, At, Roles
<1>1. /\ Tail(todo[t]["Bob"]) \in Seq(Steps) /\ Needs("Bob", "ReadReceipt") \subseteq Had(t, "Bob")
  BY <1>0, RunningFacts
<1>2. "VerifyResp" \in Had(t, "Bob")
  BY <1>1 DEF Needs
<1>3. Has(t, "Bob", "receipt")
  BY <1>2 DEF Had, Effect
<1>4. files[File(t, "Bob", "receipt")] = Right(t, "receipt")
  BY <1>0, <1>3, FoundRight DEF Names
<1>5. /\ bobTx' = [bobTx EXCEPT ![t].receipt = Right(t, "receipt")]
      /\ DOMAIN aliceTx = Trades /\ DOMAIN aliceTx[t] = DOMAIN NoAliceTx /\ DOMAIN bobTx = Trades
      /\ DOMAIN bobTx[t] = DOMAIN NoBobTx
  BY <1>4 DEF ReadReceipt, Inv, Shape
<1>6. /\ DOMAIN bobTx' = Trades /\ DOMAIN bobTx'[t] = DOMAIN NoBobTx
      /\ \A u \in Trades \ {t} : bobTx'[u] = bobTx[u]
      /\ bobTx'[t] = [bobTx[t] EXCEPT !.receipt = Right(t, "receipt")]
  BY <1>5
<1>7. /\ bobTx'[t].receipt = Right(t, "receipt") /\ bobTx'[t].price = bobTx[t].price
      /\ bobTx'[t].sign = bobTx[t].sign /\ bobTx'[t].secret = bobTx[t].secret
  BY <1>5, <1>6 DEF NoBobTx
<1>8. Proper(t, "Bob", Tail(todo[t]["Bob"]))
  BY <1>1, <1>5, <1>6 DEF ReadReceipt, Advance, Proper
<1>9. \A op \in Had(t, "Bob") : op \in Had(t, "Bob")'
  BY <1>0, <1>7, <1>8, KeptHad
<1>10. Effect(t, "Bob", "ReadReceipt")'
  <2>1. Right(t, "receipt")' = Right(t, "receipt")
    BY StillRight DEF ReadReceipt
  <2> QED BY <1>7, <2>1 DEF Effect
<1> QED BY <1>0, <1>8, <1>9, <1>10, Advanced

LEMMA SignRecptInv == ASSUME Inv, NEW t \in Trades, SignRecpt(t) PROVE Inv'
<1>0. "Bob" \in Roles /\ Call(t, "Bob") = "SignRecpt"
  BY DEF SignRecpt, At, Roles
<1>1. /\ Tail(todo[t]["Bob"]) \in Seq(Steps) /\ Needs("Bob", "SignRecpt") \subseteq Had(t, "Bob")
  BY <1>0, RunningFacts
<1>2. "ReadReceipt" \in Had(t, "Bob")
  BY <1>1 DEF Needs
<1>3. bobTx[t].receipt = Right(t, "receipt")
  BY <1>2 DEF Had, Effect
<1>4. /\ bobTx' = [bobTx EXCEPT ![t].price = Due, ![t].sign = RightSign(t)]
      /\ DOMAIN aliceTx = Trades /\ DOMAIN aliceTx[t] = DOMAIN NoAliceTx /\ DOMAIN bobTx = Trades
      /\ DOMAIN bobTx[t] = DOMAIN NoBobTx
  BY <1>3 DEF SignRecpt, RightSign, Due, Units, Inv, Shape
<1>5. /\ DOMAIN bobTx' = Trades /\ DOMAIN bobTx'[t] = DOMAIN NoBobTx
      /\ \A u \in Trades \ {t} : bobTx'[u] = bobTx[u]
      /\ bobTx'[t] = [bobTx[t] EXCEPT !.price = Due, !.sign = RightSign(t)]
  BY <1>4
<1>6. /\ bobTx'[t].receipt = bobTx[t].receipt /\ bobTx'[t].price = Due
      /\ bobTx'[t].sign = RightSign(t) /\ bobTx'[t].secret = bobTx[t].secret
  BY <1>4, <1>5 DEF NoBobTx
<1>7. Proper(t, "Bob", Tail(todo[t]["Bob"]))
  BY <1>1, <1>4, <1>5 DEF SignRecpt, Advance, Proper
<1>8. \A op \in Had(t, "Bob") : op \in Had(t, "Bob")'
  BY <1>0, <1>6, <1>7, KeptHad
<1>9. Effect(t, "Bob", "SignRecpt")'
  <2>1. Right(t, "receipt")' = Right(t, "receipt") /\ Due' = Due /\ RightSign(t)' = RightSign(t)
    BY StillRight DEF SignRecpt
  <2> QED BY <1>3, <1>6, <2>1 DEF Effect
<1> QED BY <1>0, <1>7, <1>8, <1>9, Advanced

LEMMA SendRecptInv == ASSUME Inv, NEW t \in Trades, SendRecpt(t) PROVE Inv'
<1>0. "Bob" \in Roles /\ Call(t, "Bob") = "SendRecpt"
  BY DEF SendRecpt, At, Roles
<1>1. /\ Tail(todo[t]["Bob"]) \in Seq(Steps) /\ Needs("Bob", "SendRecpt") \subseteq Had(t, "Bob")
      /\ sid[t] # 0
  BY <1>0, RunningFacts
<1>2. "SignRecpt" \in Had(t, "Bob")
  BY <1>1 DEF Needs
<1>3. bobTx[t].receipt = Right(t, "receipt") /\ bobTx[t].sign = RightSign(t) /\ bobTx[t].price = Due
  BY <1>2 DEF Had, Effect
<1> DEFINE m == [trade |-> t, from |-> "Bob", op |-> "SendRecpt",
                 body |-> <<bobTx[t].receipt, bobTx[t].sign, bobTx[t].price, ExpireAt(t)>>]
<1>4. /\ m.trade = t /\ m.from = "Bob" /\ m.op = "SendRecpt"
      /\ m.body = <<Right(t, "receipt"), RightSign(t), Due, ExpireAt(t)>>
  BY <1>3
<1>5. wire' = wire \cup {m}
  BY DEF SendRecpt
<1> HIDE DEF m
<1>6. RightMsg(m)
  <2>1. "SendRecpt" \notin DOMAIN SendFiles["Bob"]
    BY DEF SendFiles
  <2> QED BY <1>0, <1>1, <1>4, <2>1 DEF RightMsg
<1>7. Proper(t, "Bob", Tail(todo[t]["Bob"]))
  BY <1>1, <1>5, <1>6 DEF SendRecpt, Advance, Proper, Inv, Shape
<1>8. \A op \in Had(t, "Bob") : op \in Had(t, "Bob")'
  BY <1>0, <1>7, KeptHad DEF SendRecpt
<1>9. Effect(t, "Bob", "SendRecpt")'
  BY DEF Effect
<1> QED BY <1>0, <1>7, <1>8, <1>9, Advanced

\* Alice saves the receipt of the trade and holds the values of its signature.
LEMMA RcvRecptInv == ASSUME Inv, NEW t \in Trades, RcvRecpt(t) PROVE Inv'
<1>0. "Alice" \in Roles /\ Call(t, "Alice") = "RcvRecpt"
  BY DEF RcvRecpt, At, Roles
<1>1. Tail(todo[t]["Alice"]) \in Seq(Steps)
  BY <1>0, RunningFacts
<1> DEFINE f == File(t, "Alice", "receipt")
<1>2. PICK m \in wire :
        /\ m.trade = t /\ m.op = "SendRecpt"
        /\ files' = Over([g \in {f} |-> m.body[1]], files)
        /\ aliceTx' = [aliceTx EXCEPT
                ![t].sign = m.body[2], ![t].signPrice = m.body[3], ![t].expireAt = m.body[4]]
  BY DEF RcvRecpt
<1>3. m.body = <<Right(t, "receipt"), RightSign(t), Due, ExpireAt(t)>>
  BY <1>2 DEF Inv, WireRight, RightMsg
<1>4. /\ m.body[1] = Right(t, "receipt") /\ m.body[2] = RightSign(t) /\ m.body[3] = Due
      /\ m.body[4] = ExpireAt(t)
  BY <1>3
<1> HIDE DEF f
<1>5. /\ DOMAIN files' = {f} \cup DOMAIN files /\ files'[f] = Right(t, "receipt")
      /\ \A g \in DOMAIN files : g # f => files'[g] = files[g]
  BY <1>2, <1>4 DEF Over
<1>6. /\ aliceTx' = [aliceTx EXCEPT
                ![t].sign = RightSign(t), ![t].signPrice = Due, ![t].expireAt = ExpireAt(t)]
      /\ DOMAIN aliceTx = Trades /\ DOMAIN aliceTx[t] = DOMAIN NoAliceTx /\ DOMAIN bobTx = Trades
      /\ DOMAIN bobTx[t] = DOMAIN NoBobTx
  BY <1>2, <1>4 DEF Inv, Shape
<1>7. /\ DOMAIN aliceTx' = Trades /\ DOMAIN aliceTx'[t] = DOMAIN NoAliceTx
      /\ \A u \in Trades \ {t} : aliceTx'[u] = aliceTx[u]
      /\ aliceTx'[t] = [aliceTx[t] EXCEPT !.sign = RightSign(t), !.signPrice = Due,
                                          !.expireAt = ExpireAt(t)]
  BY <1>6
<1>8. /\ aliceTx'[t].count = aliceTx[t].count /\ aliceTx'[t].price = aliceTx[t].price
      /\ aliceTx'[t].sign = RightSign(t) /\ aliceTx'[t].signPrice = Due
      /\ aliceTx'[t].expireAt = ExpireAt(t)
  BY <1>6, <1>7 DEF NoAliceTx
<1>9. Proper(t, "Alice", Tail(todo[t]["Alice"]))
  <2>1. "receipt" \in Names
    BY DEF Names
  <2> QED BY <1>1, <1>5, <1>6, <1>7, <2>1 DEF RcvRecpt, Advance, Proper, f
<1>10. \A op \in Had(t, "Alice") : op \in Had(t, "Alice")'
  BY <1>0, <1>8, <1>9, KeptHad
<1>11. Effect(t, "Alice", "RcvRecpt")'
  <2>1. /\ Due' = Due /\ RightSign(t)' = RightSign(t)
        /\ File(t, "Alice", "receipt")' = File(t, "Alice", "receipt")
    BY StillRight DEF RcvRecpt
  <2>2. Has(t, "Alice", "receipt")'
    BY <1>5, <2>1 DEF Has, f
  <2> QED BY <1>8, <2>1, <2>2 DEF Effect, ExpireAt
<1> QED BY <1>0, <1>9, <1>10, <1>11, Advanced

\* What Alice holds when she is about to submit.
LEMMA SubmitReady ==
    ASSUME Inv, NEW t \in Trades, At(t, "Alice", "Submit")
    PROVE  Submitted(t) = Right(t, "secret") /\ Right(t, "secret") # Nothing
<1>0. "Alice" \in Roles /\ Call(t, "Alice") = "Submit"
  BY DEF At, Roles
<1>1. Needs("Alice", "Submit") \subseteq Had(t, "Alice")
  BY <1>0, RunningFacts
<1>2. {"RcvRecpt", "CalcuCnt", "VerifyReceipt"} \subseteq Had(t, "Alice")
  BY <1>1 DEF Needs
<1>3. /\ Has(t, "Alice", "receipt") /\ aliceTx[t].sign = RightSign(t)
      /\ aliceTx[t].expireAt = ExpireAt(t) /\ aliceTx[t].count = Units
      /\ Has(t, "Alice", "secret")
  BY <1>2 DEF Had, Effect
<1>4. /\ files[File(t, "Alice", "receipt")] = Right(t, "receipt")
      /\ files[File(t, "Alice", "secret")] = Right(t, "secret")
  BY <1>0, <1>3, FoundRight DEF Names
<1> QED BY <1>3, <1>4, SubmitsSecret DEF Inv, Shape

\* The record of the trade is its secret.
LEMMA SubmitInv == ASSUME Inv, NEW t \in Trades, Submit(t) PROVE Inv'
<1>0. "Alice" \in Roles /\ Call(t, "Alice") = "Submit" /\ At(t, "Alice", "Submit")
  BY DEF Submit, At, Roles
<1>1. Tail(todo[t]["Alice"]) \in Seq(Steps)
  BY <1>0, RunningFacts
<1>2. Submitted(t) = Right(t, "secret") /\ Right(t, "secret") # Nothing
  BY <1>0, SubmitReady
<1> DEFINE k == RecordOf(t)
<1>3. record' = Over(record, [j \in {k} |-> Right(t, "secret")]) /\ Advance(t, "Alice")
  BY <1>2 DEF Submit
<1> HIDE DEF k
<1>4. /\ DOMAIN record' = DOMAIN record \cup {k}
      /\ \A j \in DOMAIN record : record'[j] = record[j]
      /\ k \notin DOMAIN record => record'[k] = Right(t, "secret")
  BY <1>3 DEF Over
<1>5. Proper(t, "Alice", Tail(todo[t]["Alice"]))
  BY <1>1, <1>3, <1>4 DEF Submit, Advance, Proper, Inv, Shape, k
<1>6. \A op \in Had(t, "Alice") : op \in Had(t, "Alice")'
  BY <1>0, <1>5, KeptHad DEF Submit
<1>7. Effect(t, "Alice", "Submit")'
  BY DEF Effect
<1> QED BY <1>0, <1>5, <1>6, <1>7, Advanced

\* Bob takes the secret from the record and saves it.
LEMMA ReadScrtInv == ASSUME Inv, NEW t \in Trades, NEW r \in Roles, ReadScrt(t, r) PROVE Inv'
<1>0. Call(t, r) = "ReadScrt"
  BY DEF ReadScrt, At
<1>1. Tail(todo[t][r]) \in Seq(Steps) /\ sid[t] # 0
  BY <1>0, RunningFacts
<1>2. CASE r = "Alice"
  <2>1. bobTx' = bobTx
    BY <1>2 DEF ReadScrt
  <2>2. Proper(t, r, Tail(todo[t][r]))
    BY <1>1, <2>1, OnlyTodo DEF ReadScrt, Advance
  <2>3. \A op \in Had(t, r) : op \in Had(t, r)'
    BY <1>2, <2>2, KeptHad DEF ReadScrt
  <2>4. Effect(t, r, "ReadScrt")'
    BY <1>2 DEF Effect
  <2> QED BY <1>0, <2>2, <2>3, <2>4, Advanced
<1>3. CASE r = "Bob"
  <2>1. readScrt(prog, record[RecordOf(t)]) = Right(t, "secret")
    BY <1>1, SameSecret DEF ReadScrt, Inv, RecordRight, Shape
  <2>2. /\ bobTx' = [bobTx EXCEPT ![t].secret = Right(t, "secret")]
        /\ DOMAIN aliceTx = Trades /\ DOMAIN aliceTx[t] = DOMAIN NoAliceTx /\ DOMAIN bobTx = Trades
        /\ DOMAIN bobTx[t] = DOMAIN NoBobTx
    BY <1>3, <2>1 DEF ReadScrt, Inv, Shape
  <2>3. /\ DOMAIN bobTx' = Trades /\ DOMAIN bobTx'[t] = DOMAIN NoBobTx
        /\ \A u \in Trades \ {t} : bobTx'[u] = bobTx[u]
        /\ bobTx'[t] = [bobTx[t] EXCEPT !.secret = Right(t, "secret")]
    BY <2>2
  <2>4. /\ bobTx'[t].receipt = bobTx[t].receipt /\ bobTx'[t].price = bobTx[t].price
        /\ bobTx'[t].sign = bobTx[t].sign /\ bobTx'[t].secret = Right(t, "secret")
    BY <2>2, <2>3 DEF NoBobTx
  <2>5. Proper(t, r, Tail(todo[t][r]))
    BY <1>1, <1>3, <2>2, <2>3 DEF ReadScrt, Advance, Proper
  <2>6. \A op \in Had(t, r) : op \in Had(t, r)'
    BY <1>3, <2>4, <2>5, KeptHad
  <2>7. Effect(t, r, "ReadScrt")'
    <3>1. Right(t, "secret")' = Right(t, "secret")
      BY StillRight DEF ReadScrt
    <3> QED BY <1>3, <2>4, <3>1 DEF Effect
  <2> QED BY <1>0, <2>5, <2>6, <2>7, Advanced
<1> QED BY <1>2, <1>3 DEF Roles

LEMMA SaveScrtInv == ASSUME Inv, NEW t \in Trades, SaveScrt(t) PROVE Inv'
<1>0. "Bob" \in Roles /\ Call(t, "Bob") = "SaveScrt"
  BY DEF SaveScrt, At, Roles
<1>1. /\ Tail(todo[t]["Bob"]) \in Seq(Steps) /\ Needs("Bob", "SaveScrt") \subseteq Had(t, "Bob")
  BY <1>0, RunningFacts
<1>2. "ReadScrt" \in Had(t, "Bob")
  BY <1>1 DEF Needs
<1>3. bobTx[t].secret = Right(t, "secret")
  BY <1>2 DEF Had, Effect
<1>4. BobSaveSecret(prog, bobTx[t].secret) = Right(t, "secret")
  BY <1>3, SameSecret DEF Inv, Shape
<1> DEFINE f == File(t, "Bob", "secret")
<1>5. files' = Over([g \in {f} |-> Right(t, "secret")], files)
  BY <1>4 DEF SaveScrt
<1> HIDE DEF f
<1>6. /\ DOMAIN files' = {f} \cup DOMAIN files /\ files'[f] = Right(t, "secret")
      /\ \A g \in DOMAIN files : g # f => files'[g] = files[g]
  BY <1>5 DEF Over
<1>7. Proper(t, "Bob", Tail(todo[t]["Bob"]))
  <2>1. "secret" \in Names
    BY DEF Names
  <2> QED BY <1>1, <1>6, <2>1 DEF SaveScrt, Advance, Proper, Inv, Shape, f
<1>8. \A op \in Had(t, "Bob") : op \in Had(t, "Bob")'
  BY <1>0, <1>7, KeptHad DEF SaveScrt
<1>9. Effect(t, "Bob", "SaveScrt")'
  <2>1. File(t, "Bob", "secret")' = File(t, "Bob", "secret")
    BY StillRight DEF SaveScrt
  <2> QED BY <1>6, <2>1 DEF Effect, Has, f
<1> QED BY <1>0, <1>7, <1>8, <1>9, Advanced

LEMMA ClaimInv == ASSUME Inv, NEW t \in Trades, Claim(t) PROVE Inv'
<1>0. "Bob" \in Roles /\ Call(t, "Bob") = "Claim"
  BY DEF Claim, At, Roles
<1>1. Tail(todo[t]["Bob"]) \in Seq(Steps) /\ sid[t] # 0
  BY <1>0, RunningFacts
<1> DEFINE m == [trade |-> t, from |-> "Bob", op |-> "Claim",
                 body |-> <<files[File(t, "Bob", "claim")]>>]
<1>2. m.trade = t /\ m.from = "Bob" /\ m.op = "Claim"
  OBVIOUS
<1>3. wire' = wire \cup {m} \/ wire' = wire
  BY DEF Claim
<1> HIDE DEF m
<1>4. RightMsg(m)
  <2>1. "Claim" \notin DOMAIN SendFiles["Bob"]
    BY DEF SendFiles
  <2> QED BY <1>0, <1>1, <1>2, <2>1 DEF RightMsg
<1>5. Proper(t, "Bob", Tail(todo[t]["Bob"]))
  BY <1>1, <1>3, <1>4 DEF Claim, Advance, Proper, Inv, Shape
<1>6. \A op \in Had(t, "Bob") : op \in Had(t, "Bob")'
  BY <1>0, <1>5, KeptHad DEF Claim
<1>7. Effect(t, "Bob", "Claim")'
  BY DEF Effect
<1> QED BY <1>0, <1>5, <1>6, <1>7, Advanced

\* The parts of a message are the right files of its sender.
LEMMA SendMsgInv == ASSUME Inv, NEW t \in Trades, NEW r \in Roles, SendMsg(t, r) PROVE Inv'
<1>0. PICK c : c = Call(t, r)
  OBVIOUS
<1> DEFINE names == SendFiles[r][c]
           m == [trade |-> t, from |-> r, op |-> c,
                 body |-> [i \in DOMAIN names |-> files[File(t, r, names[i])]]]
<1>1. c \in {"SendNegoReq", "SendNegoResp", "SendReq", "SendResp"} /\ c \in DOMAIN SendFiles[r]
  BY <1>0 DEF SendMsg, SendFiles, Roles
<1>2. \A i \in DOMAIN names : names[i] \in Names
  <2>1. \A a \in Names : \A i \in DOMAIN <<a>> : <<a>>[i] \in Names
    OBVIOUS
  <2>2. \A a, b \in Names : \A i \in DOMAIN <<a, b>> : <<a, b>>[i] \in Names
    OBVIOUS
  <2>3. {"Alice_nego_response", "Alice_nego_request", "response", "Bob_nego_request",
         "Bob_nego_response", "request"} \subseteq Names
    BY DEF Names
  <2>4. names \in {<<"Alice_nego_response", "Alice_nego_request">>, <<"response">>,
                   <<"Bob_nego_request">>, <<"Bob_nego_response">>, <<"request">>}
    BY <1>1 DEF SendFiles, Roles
  <2> HIDE DEF names
  <2> QED BY <2>1, <2>2, <2>3, <2>4
<1>3. /\ Tail(todo[t][r]) \in Seq(Steps) /\ sid[t] # 0
  BY <1>0, <1>1, RunningFacts
<1>4. /\ \A i \in DOMAIN names : Has(t, r, names[i])
      /\ wire' = wire \cup {m}
  BY <1>0 DEF SendMsg, Has
<1>5. \A i \in DOMAIN names : files[File(t, r, names[i])] = Right(t, names[i])
  BY <1>0, <1>1, <1>2, <1>4, FoundRight
<1>6. RightMsg(m)
  <2>1. /\ m.trade = t /\ m.from = r /\ m.op = c
        /\ \A i \in DOMAIN names : m.body[i] = Right(t, names[i])
    BY <1>5
  <2> HIDE DEF m
  <2> QED BY <1>1, <1>3, <2>1 DEF RightMsg
<1> HIDE DEF m
<1>7. Proper(t, r, Tail(todo[t][r]))
  BY <1>3, <1>4, <1>6 DEF SendMsg, Advance, Proper, Inv, Shape
<1>8. \A op \in Had(t, r) : op \in Had(t, r)'
  BY <1>7, KeptHad DEF SendMsg
<1>9. Effect(t, r, c)'
  BY <1>1 DEF Effect
<1> QED BY <1>0, <1>1, <1>7, <1>8, <1>9, Advanced

\* The parts of a message are saved under the names they had.
LEMMA RcvMsgInv == ASSUME Inv, NEW t \in Trades, NEW r \in Roles, RcvMsg(t, r) PROVE Inv'
<1> DEFINE c == Call(t, r)
           names == RcvFiles[r][c]
           F == {File(t, r, names[i]) : i \in DOMAIN names}
<1>0. c \in DOMAIN RcvFiles[r]
  BY DEF RcvMsg
<1>1. /\ SentBy[c] \in DOMAIN SendFiles[Peer(r)] /\ SendFiles[Peer(r)][SentBy[c]] = names
      /\ \A i \in DOMAIN names : names[i] \in Names
      /\ c \in {"RcvNegoReq", "RcvNegoResp", "RcvReq", "RcvResp"}
  BY <1>0, MessageFacts
<1>2. /\ Tail(todo[t][r]) \in Seq(Steps) /\ sid[t] # 0
  BY <1>1, RunningFacts
<1>3. PICK m \in wire :
        /\ m.trade = t /\ m.from = Peer(r) /\ m.op = SentBy[c]
        /\ files' = Over([f \in F |-> m.body[CHOOSE i \in DOMAIN names : names[i] = f[3]]], files)
  BY DEF RcvMsg
<1>4. \A i \in DOMAIN names : m.body[i] = Right(t, names[i])
  <2>1. RightMsg(m)
    BY DEF Inv, WireRight
  <2> QED BY <2>1, <1>1, <1>3 DEF RightMsg
<1>5. ASSUME NEW f \in F
      PROVE  \E name \in Names : /\ f = File(t, r, name)
                                 /\ m.body[CHOOSE i \in DOMAIN names : names[i] = f[3]] = Right(t, name)
  <2>1. PICK j \in DOMAIN names : f = File(t, r, names[j])
    OBVIOUS
  <2>2. f[3] = names[j]
    BY <2>1 DEF File
  <2> DEFINE k == CHOOSE i \in DOMAIN names : names[i] = f[3]
  <2>3. k \in DOMAIN names /\ names[k] = f[3]
    BY <2>2
  <2> HIDE DEF k, names
  <2>4. m.body[k] = Right(t, names[j])
    BY <2>2, <2>3, <1>4
  <2> QED BY <2>1, <2>4, <1>1 DEF k
<1> HIDE DEF F
<1>6. /\ DOMAIN files' = F \cup DOMAIN files
      /\ \A f \in F : \E name \in Names : f = File(t, r, name) /\ files'[f] = Right(t, name)
      /\ \A f \in DOMAIN files : f \notin F => files'[f] = files[f]
  <2> DEFINE g == [f \in F |-> m.body[CHOOSE i \in DOMAIN names : names[i] = f[3]]]
  <2>1. /\ files' = Over(g, files) /\ DOMAIN g = F
        /\ \A f \in F : \E name \in Names : f = File(t, r, name) /\ g[f] = Right(t, name)
    BY <1>3, <1>5, Zenon
  <2> HIDE DEF g
  <2> QED BY <2>1 DEF Over
<1>7. Proper(t, r, Tail(todo[t][r]))
  BY <1>2, <1>6 DEF RcvMsg, Advance, Proper, Inv, Shape
<1>8. \A op \in Had(t, r) : op \in Had(t, r)'
  BY <1>7, KeptHad DEF RcvMsg
<1>9. PICK d : d = c
  OBVIOUS
<1>10. Effect(t, r, d)'
  <2>1. \A i \in DOMAIN names : File(t, r, names[i]) \in DOMAIN files'
    BY <1>6 DEF F
  <2>2. \A name : File(t, r, name) \in DOMAIN files' => Has(t, r, name)'
    <3>1. \A name : File(t, r, name)' = File(t, r, name)
      BY StillRight DEF RcvMsg
    <3> QED BY <3>1 DEF Has
  <2>3. \A i \in DOMAIN names : \A name : name = names[i] => Has(t, r, name)'
    BY <2>1, <2>2
  <2>4. /\ r = "Alice" /\ d = "RcvNegoReq" => Has(t, r, "Bob_nego_request")'
        /\ r = "Alice" /\ d = "RcvNegoResp" => Has(t, r, "Bob_nego_response")'
        /\ r = "Alice" /\ d = "RcvReq" => Has(t, r, "request")'
        /\ r = "Bob" /\ d = "RcvResp" => Has(t, r, "response")'
        /\ r = "Bob" /\ d = "RcvNegoResp" => /\ Has(t, r, "Alice_nego_request")'
                                             /\ Has(t, r, "Alice_nego_response")'
    <3> HIDE DEF names
    <3> QED BY <1>0, <1>9, <2>3, MessageFacts DEF names
  <2>5. r \in {"Alice", "Bob"}
    BY DEF Roles
  <2> HIDE DEF c
  <2> QED BY <1>1, <1>9, <2>4, <2>5 DEF Effect
<1> QED BY <1>1, <1>7, <1>8, <1>9, <1>10, Advanced

\* The calls of the library have names of their own.
LEMMA WrapperOps ==
    ASSUME prog \in Programs, NEW r \in Roles, NEW op \in DOMAIN Wrapper(r)
    PROVE  /\ op \notin {"none", "Mkdir"}
           /\ r = "Alice" => op \in {"VerifyReq", "VerifyReceipt", "GeneNegoResp", "GeneNegoReq", "DealNegoResp"}
           /\ r = "Bob" => op \in {"NewReq", "VerifyResp", "VerifySecret", "Decrypt", "GeneClaim",
                                   "GeneNegoReq", "GeneNegoResp", "DealNegoResp"}
<1>1. CASE r = "Alice"
  <2>1. <<op, Wrapper(r)[op]>> \in AliceTable
    BY <1>1, AliceWrappers DEF Wrapper, In
  <2> QED BY <1>1, <2>1 DEF AliceTable
<1>2. CASE r = "Bob"
  <2>1. <<op, Wrapper(r)[op]>> \in BobTable
    BY <1>2, BobWrappers DEF Wrapper, In
  <2> QED BY <1>2, <2>1 DEF BobTable
<1> QED BY <1>1, <1>2 DEF Roles

\* A call of the library finds its inputs.
LEMMA InputsThere ==
    ASSUME Inv, NEW t \in Trades, NEW r \in Roles, Call(t, r) \in DOMAIN Wrapper(r)
    PROVE  \A name \in Wrapper(r)[Call(t, r)].in :
                name \in Names /\ Has(t, r, name) /\ files[File(t, r, name)] = Right(t, name)
<1>0. prog \in Programs
  BY DEF Inv, Shape
<1>1. Call(t, r) \notin {"none", "Mkdir"}
  BY <1>0, WrapperOps
<1>2. Needs(r, Call(t, r)) \subseteq Had(t, r)
  BY <1>1, RunningFacts
<1>3. \A name \in Wrapper(r)[Call(t, r)].in : name \in Names /\ Has(t, r, name)
  BY <1>0, <1>2, WrapperFacts
<1> QED BY <1>1, <1>3, FoundRight

\* A call of the library writes what its outputs should be; a rejected secret leaves
\* the claim, or nothing, to do.
LEMMA LibraryCallInv == ASSUME Inv, NEW t \in Trades, NEW r \in Roles, LibraryCall(t, r) PROVE Inv'
<1>a. PICK c : c = Call(t, r)
  OBVIOUS
<1> DEFINE w == Wrapper(r)[c]
           F == {File(t, r, name) : name \in w.out}
<1>0. prog \in Programs /\ c \in DOMAIN Wrapper(r)
  BY <1>a DEF LibraryCall, Inv, Shape
<1>1. c \notin {"none", "Mkdir"}
  BY <1>0, WrapperOps
<1>2. /\ Running(t, r) /\ Tail(todo[t][r]) \in Seq(Steps) /\ << >> \in Seq(Steps)
  BY <1>a, <1>1, RunningFacts
<1>3. \A name \in w.in : File(t, r, name) \in DOMAIN files
  BY <1>a, <1>0, InputsThere DEF Has
<1>4. /\ \A name \in w.out : name \in Names /\ MadeBy(name) = w.call
      /\ r = "Alice" /\ c = "VerifyReceipt" => w.out = {"secret"}
      /\ r = "Bob" /\ c = "VerifyResp" => w.out = {"receipt"}
      /\ c = "VerifySecret" => r = "Bob"
  BY <1>0, WrapperFacts
<1>5. CASE At(t, r, "VerifySecret") /\ ~genuine
  <2>1. r = "Bob" /\ Reject(t) /\ UNCHANGED files
    BY <1>a, <1>3, <1>4, <1>5 DEF LibraryCall, At
  <2> DEFINE x == IF prog \in ComplaintPrograms THEN BobClaim ELSE << >>
  <2>2. x \in Seq(Steps) /\ Ready(r, x, Had(t, r)')
    <3>1. BobClaim \in Seq(Steps) /\ Ready("Bob", BobClaim, {})
      BY BobParts DEF Part
    <3>2. Ready("Bob", BobClaim, Had(t, r)')
      BY <3>1 DEF Ready
    <3> QED BY <2>1, <3>1, <3>2, ReadyEmpty
  <2>3. todo' = [todo EXCEPT ![t][r] = x]
    BY <2>1 DEF Reject
  <2> HIDE DEF x
  <2>4. Proper(t, r, x)
    BY <2>1, <2>2, <2>3, OnlyTodo DEF LibraryCall
  <2> QED BY <1>2, <2>2, <2>4, ProperInv
<1>6. CASE ~(At(t, r, "VerifySecret") /\ ~genuine)
  <2>1. files' = Over([f \in F |-> Made(w.call, t)], files) /\ Advance(t, r)
    BY <1>a, <1>3, <1>6 DEF LibraryCall
  <2>2. \A f \in F : \E name \in Names : f = File(t, r, name) /\ Made(w.call, t) = Right(t, name)
    BY <1>4 DEF Right
  <2>3. /\ DOMAIN files' = F \cup DOMAIN files
        /\ \A f \in F : files'[f] = Made(w.call, t)
        /\ \A f \in DOMAIN files : f \notin F => files'[f] = files[f]
    <3> DEFINE g == [f \in F |-> Made(w.call, t)]
    <3>1. files' = Over(g, files) /\ DOMAIN g = F /\ \A f \in F : g[f] = Made(w.call, t)
      BY <2>1
    <3> HIDE DEF F, w, g
    <3> QED BY <3>1 DEF Over
  <2>4. Proper(t, r, Tail(todo[t][r]))
    <3> HIDE DEF F, w
    <3> QED BY <1>2, <2>1, <2>2, <2>3 DEF LibraryCall, Advance, Proper, Inv, Shape
  <2>5. \A op \in Had(t, r) : op \in Had(t, r)'
    BY <2>4, KeptHad DEF LibraryCall
  <2>6. \A name \in w.out : Has(t, r, name)'
    <3>1. \A name : File(t, r, name)' = File(t, r, name)
      BY StillRight DEF LibraryCall
    <3>2. \A name : File(t, r, name) \in DOMAIN files' => Has(t, r, name)'
      BY <3>1 DEF Has
    <3> QED BY <2>3, <3>2
  <2>7. Effect(t, r, c)'
    <3>1. /\ r = "Alice" /\ c = "VerifyReceipt" => Has(t, r, "secret")'
          /\ r = "Bob" /\ c = "VerifyResp" => Has(t, r, "receipt")'
      BY <1>4, <2>6
    <3>2. /\ r = "Alice" => c \in {"VerifyReq", "VerifyReceipt", "GeneNegoResp", "GeneNegoReq", "DealNegoResp"}
          /\ r = "Bob" => c \in {"NewReq", "VerifyResp", "VerifySecret", "Decrypt", "GeneClaim",
                                 "GeneNegoReq", "GeneNegoResp", "DealNegoResp"}
      BY <1>0, WrapperOps
    <3> QED BY <3>1, <3>2 DEF Effect, Roles
  <2> QED BY <1>a, <1>1, <2>4, <2>5, <2>7, Advanced
<1> QED BY <1>5, <1>6

-----------------------------------------------------------------------------
(***************************************************************************)
(* The directories.                                                        *)
(***************************************************************************)
\* A side that finds its directory there already ends before it has started: programs
\* may be dropped at any time.
LEMMA Dropped ==
    ASSUME Inv, UNCHANGED <<progVars, sid, dirs, files, wire, aliceTx, bobTx, record>>,
           DOMAIN todo' = Trades, \A t \in Trades : DOMAIN todo'[t] = Roles,
           \A t \in Trades, r \in Roles : todo'[t][r] \in {todo[t][r], << >>}
    PROVE  Inv'
<1>1. /\ \A u, name : Right(u, name)' = Right(u, name)
      /\ Due' = Due /\ Units' = Units /\ \A u : RightSign(u)' = RightSign(u)
      /\ \A u, q : Node(u, q)' = Node(u, q)
      /\ \A u, q, name : File(u, q, name)' = File(u, q, name)
      /\ \A u : RecordOf(u)' = RecordOf(u)
      /\ \A m : RightMsg(m)' <=> RightMsg(m)
  BY StillRight
<1>2. \A u \in Trades, q \in Roles :
        /\ At(u, q, "Mkdir")' => At(u, q, "Mkdir") /\ todo'[u][q] = todo[u][q]
        /\ Running(u, q)' => Running(u, q)
  BY DEF At, Call, Running
<1>3. \A u, q : Had(u, q)' = Had(u, q)
  <2>1. \A u, q, name : Has(u, q, name)' <=> Has(u, q, name)
    BY <1>1 DEF Has
  <2>2. \A u, q, op : Effect(u, q, op)' <=> Effect(u, q, op)
    BY <1>1, <2>1 DEF Effect, ExpireAt, progVars
  <2> QED BY <2>2 DEF Had
<1>4. Shape'
  <2>1. NoAliceTx' = NoAliceTx /\ NoBobTx' = NoBobTx /\ "Alice" \in Roles
    BY DEF NoAliceTx, NoBobTx, Nothing, Content, Roles
  <2> QED BY <1>2, <2>1 DEF Inv, Shape, progVars
<1>5. DirsOwned'
  <2>1. "Alice" \in Roles
    BY DEF Roles
  <2> QED BY <1>1, <1>2, <2>1 DEF Inv, DirsOwned, progVars
<1>6. FilesRight' /\ DirOfOneTrade'
  BY <1>1, <1>2 DEF Inv, FilesRight, Has, DirOfOneTrade
<1>7. WireRight' /\ RecordRight'
  BY <1>1 DEF Inv, WireRight, RecordRight
<1>8. InOrder'
  <2> SUFFICES ASSUME NEW u \in Trades, NEW q \in Roles PROVE Stage(u, q)'
    BY DEF InOrder
  <2>1. CASE At(u, q, "Mkdir")'
    BY <2>1, <1>2 DEF Inv, InOrder, Stage, progVars
  <2>2. CASE ~At(u, q, "Mkdir")' /\ todo'[u][q] = << >>
    BY <2>2, ReadyEmpty DEF Stage
  <2>3. CASE ~At(u, q, "Mkdir")' /\ todo'[u][q] = todo[u][q]
    <3>1. ~At(u, q, "Mkdir")
      BY <2>3 DEF At, Call
    <3> QED BY <2>3, <3>1, <1>3 DEF Inv, InOrder, Stage
  <2> QED BY <2>1, <2>2, <2>3
<1> QED BY <1>4, <1>5, <1>6, <1>7, <1>8 DEF Inv

\* A side that makes its directory starts its program there, and the directory is its own.
LEMMA NewDir ==
    ASSUME Inv, NEW t \in Trades, NEW r \in Roles, At(t, r, "Mkdir"),
           NEW n \in SessIDs, n # 0, r = "Bob" => n = sid[t],
           <<Node(t, r), n>> \notin dirs, dirs' = dirs \cup {<<Node(t, r), n>>},
           sid' = [sid EXCEPT ![t] = n], Advance(t, r),
           UNCHANGED <<progVars, files, wire, aliceTx, bobTx, record>>
    PROVE  Inv'
<1>1. /\ DOMAIN todo' = Trades /\ \A u \in Trades : DOMAIN todo'[u] = Roles
      /\ todo'[t][r] = Tail(todo[t][r])
      /\ \A u \in Trades, q \in Roles :
            (u # t \/ q # r) => /\ todo'[u][q] = todo[u][q] /\ Call(u, q)' = Call(u, q)
                                /\ Running(u, q)' = Running(u, q)
  BY DEF Inv, Shape, Advance, Call, At, Running
<1>2. /\ sid \in [Trades -> SessIDs \cup {0}] /\ sid' \in [Trades -> SessIDs \cup {0}] /\ sid'[t] = n
      /\ \A u \in Trades : u # t => sid'[u] = sid[u]
      /\ \A u \in Trades : sid[u] # 0 => sid'[u] = sid[u]
      /\ r = "Alice" => sid[t] = 0
  <2>1. sid \in [Trades -> SessIDs \cup {0}] /\ (r = "Alice" => sid[t] = 0)
    BY DEF Inv, Shape, DirsOwned
  <2>2. r = "Alice" \/ r = "Bob"
    BY DEF Roles
  <2> QED BY <2>1, <2>2
<1>3. /\ Tail(todo[t][r]) \in Seq(Steps) /\ ~At(t, r, "Mkdir")'
      /\ Ready(r, Tail(todo[t][r]), IF r = "Alice" THEN Start(prog) ELSE {})
  <2>1. todo[t][r] = FileProgram(r, prog) /\ prog \in Programs
    BY DEF Inv, InOrder, Stage, Shape
  <2>2. Tail(todo[t][r]) \in Seq(Steps) /\ Ready(r, Tail(todo[t][r]), IF r = "Alice" THEN Start(prog) ELSE {})
    BY <2>1, WholeProgram
  <2> QED BY <1>1, <2>2, NotMkdir DEF At, Call
<1>4. /\ \A u, name : Right(u, name)' = Right(u, name)
      /\ Due' = Due /\ Units' = Units /\ \A u, q : Node(u, q)' = Node(u, q)
      /\ \A u \in Trades : sid[u] # 0 => /\ RightSign(u)' = RightSign(u) /\ RecordOf(u)' = RecordOf(u)
                                         /\ \A q, name : File(u, q, name)' = File(u, q, name)
  <2>1. \A u, name : Right(u, name)' = Right(u, name)
    BY DEF Right, Made, progVars
  <2>2. Due' = Due /\ Units' = Units /\ \A u, q : Node(u, q)' = Node(u, q)
    BY DEF Due, Units, Node, progVars
  <2>3. \A u \in Trades : sid[u] # 0 => /\ RecordOf(u)' = RecordOf(u)
                                        /\ \A q, name : File(u, q, name)' = File(u, q, name)
    BY <1>2, <2>2 DEF RecordOf, File, progVars
  <2>4. \A u \in Trades : sid[u] # 0 => RightSign(u)' = RightSign(u)
    BY <1>2, <2>1, <2>2 DEF RightSign, ExpireAt, progVars
  <2> QED BY <2>1, <2>2, <2>3, <2>4
<1>5. \A u \in Trades, q \in Roles : Running(u, q) => sid[u] # 0 /\ <<Node(u, q), sid[u]>> \in dirs
  BY DEF Inv, DirsOwned
<1>6. ASSUME NEW u \in Trades, NEW q \in Roles, Running(u, q)'
      PROVE  \/ u = t /\ q = r
             \/ (u # t \/ q # r) /\ Running(u, q) /\ sid[u] # 0 /\ sid'[u] = sid[u]
  BY <1>1, <1>2, <1>5, <1>6
<1>7. Shape'
  <2>1. \A u \in Trades : At(u, "Alice", "Mkdir")' => At(u, "Alice", "Mkdir")
    BY <1>1, <1>3 DEF At, Roles
  <2>2. NoAliceTx' = NoAliceTx /\ NoBobTx' = NoBobTx
    BY DEF NoAliceTx, NoBobTx, Nothing, Content
  <2> QED BY <1>1, <1>2, <2>1, <2>2 DEF Inv, Shape, progVars
<1>8. DirsOwned'
  <2>1. ASSUME NEW u \in Trades, At(u, "Alice", "Mkdir")' PROVE sid'[u] = 0
    <3>1. (u # t \/ r = "Bob") /\ At(u, "Alice", "Mkdir") /\ sid[u] = 0
      BY <2>1, <1>1, <1>3 DEF At, Roles, Inv, DirsOwned
    <3> QED BY <3>1, <1>2
  <2>2. ASSUME NEW u \in Trades, sid'[u] # 0 PROVE <<seller'[u], sid'[u]>> \in dirs'
    <3>1. CASE u = t /\ r = "Alice"
      BY <3>1, <1>2 DEF Node, progVars
    <3>2. CASE u # t \/ r = "Bob"
      <4>1. sid'[u] = sid[u]
        BY <3>2, <1>2
      <4> QED BY <4>1, <2>2 DEF Inv, DirsOwned, progVars
    <3> QED BY <3>1, <3>2 DEF Roles
  <2>3. ASSUME NEW u \in Trades, NEW v \in Trades, sid'[u] # 0, sid'[v] = sid'[u], seller[v] = seller[u]
        PROVE  v = u
    <3>1. CASE r = "Bob"
      <4>1. sid' = sid
        BY <3>1, <1>2
      <4> QED BY <4>1, <2>3 DEF Inv, DirsOwned
    <3>2. CASE r = "Alice"
      <4>1. \A w \in Trades : w # t /\ sid[w] # 0 => <<seller[w], sid[w]>> # <<seller[t], n>>
        BY <3>2 DEF Inv, DirsOwned, Node
      <4>2. CASE u # t /\ v # t
        BY <4>2, <2>3, <1>2 DEF Inv, DirsOwned
      <4>3. CASE u = t /\ v # t
        BY <4>1, <4>3, <2>3, <1>2
      <4>4. CASE u # t /\ v = t
        BY <4>1, <4>4, <2>3, <1>2
      <4> QED BY <4>2, <4>3, <4>4
    <3> QED BY <3>1, <3>2 DEF Roles
  <2>4. ASSUME NEW u \in Trades, NEW q \in Roles, Running(u, q)'
        PROVE  sid'[u] # 0 /\ <<Node(u, q)', sid'[u]>> \in dirs'
    BY <1>2, <1>4, <1>5, <1>6, <2>4
  <2>5. ASSUME NEW u \in Trades, NEW v \in Trades, NEW q \in Roles, NEW p \in Roles,
               Running(u, q)', Running(v, p)', Node(u, q) = Node(v, p), sid'[u] = sid'[v]
        PROVE  u = v /\ q = p
    <3>1. CASE u = t /\ q = r
      <4>1. ASSUME v # t \/ p # r PROVE FALSE
        <5>1. Running(v, p) /\ sid'[v] = sid[v]
          BY <4>1, <1>6, <2>5
        <5> QED BY <5>1, <3>1, <2>5, <1>2, <1>5
      <4> QED BY <3>1, <4>1
    <3>2. CASE (u # t \/ q # r) /\ v = t /\ p = r
      <4>1. Running(u, q) /\ sid'[u] = sid[u]
        BY <3>2, <1>6, <2>5
      <4> QED BY <4>1, <3>2, <2>5, <1>2, <1>5
    <3>3. CASE (u # t \/ q # r) /\ (v # t \/ p # r)
      <4>1. Running(u, q) /\ sid'[u] = sid[u] /\ Running(v, p) /\ sid'[v] = sid[v]
        BY <3>3, <1>6, <2>5
      <4> QED BY <4>1, <2>5 DEF Inv, DirsOwned
    <3> QED BY <3>1, <3>2, <3>3
  <2> QED BY <2>1, <2>2, <2>3, <2>4, <2>5, <1>4 DEF DirsOwned, progVars
<1>9. FilesRight'
  <2>1. \A f \in DOMAIN files' : <<f[1], f[2]>> \in dirs' /\ f[3] \in Names /\ f = <<f[1], f[2], f[3]>>
    BY DEF Inv, FilesRight
  <2>2. ASSUME NEW u \in Trades, NEW q \in Roles, NEW name \in Names, Running(u, q)', Has(u, q, name)'
        PROVE  files'[File(u, q, name)'] = Right(u, name)'
    <3>1. CASE u = t /\ q = r
      <4>1. File(t, r, name)' = <<Node(t, r), n, name>> /\ File(t, r, name)' \in DOMAIN files
        BY <3>1, <2>2, <1>2, <1>4 DEF File, Has
      <4>2. <<Node(t, r), n>> \in dirs
        BY <4>1 DEF Inv, FilesRight
      <4> QED BY <4>2
    <3>2. CASE u # t \/ q # r
      <4>1. Running(u, q) /\ sid[u] # 0
        BY <3>2, <2>2, <1>6
      <4>2. File(u, q, name)' = File(u, q, name) /\ Has(u, q, name)
        BY <4>1, <2>2, <1>4 DEF Has
      <4> QED BY <4>1, <4>2, <1>4 DEF Inv, FilesRight
    <3> QED BY <3>1, <3>2
  <2> QED BY <2>1, <2>2 DEF FilesRight
<1>10. DirOfOneTrade'
  BY DEF Inv, DirOfOneTrade
<1>11. WireRight'
  <2> SUFFICES ASSUME NEW m \in wire PROVE RightMsg(m)'
    BY DEF WireRight
  <2>1. RightMsg(m)
    BY DEF Inv, WireRight
  <2>2. /\ m.trade \in Trades /\ sid[m.trade] # 0 /\ sid'[m.trade] # 0
        /\ RightSign(m.trade)' = RightSign(m.trade)
    BY <2>1, <1>2, <1>4 DEF RightMsg
  <2> QED BY <2>1, <2>2, <1>4 DEF RightMsg, ExpireAt
<1>12. RecordRight'
  <2>1. \A k \in DOMAIN record' : <<k[2], k[4]>> \in dirs'
    BY DEF Inv, RecordRight
  <2>2. ASSUME NEW u \in Trades, sid'[u] # 0, RecordOf(u)' \in DOMAIN record'
        PROVE  record'[RecordOf(u)'] = Right(u, "secret")'
    <3>1. CASE sid[u] # 0
      BY <3>1, <2>2, <1>4 DEF Inv, RecordRight
    <3>2. CASE sid[u] = 0
      <4>1. u = t /\ r = "Alice"
        BY <3>2, <2>2, <1>2 DEF Roles
      <4>2. RecordOf(t)' = <<Family(prog), seller[t], buyer[t], n>>
        BY <1>2 DEF RecordOf, progVars
      <4>3. <<seller[t], n>> \in dirs
        BY <2>2, <4>1, <4>2 DEF Inv, RecordRight
      <4> QED BY <4>1, <4>3 DEF Node
    <3> QED BY <3>1, <3>2
  <2> QED BY <2>1, <2>2 DEF RecordRight
<1>13. InOrder'
  <2> SUFFICES ASSUME NEW u \in Trades, NEW q \in Roles PROVE Stage(u, q)'
    BY DEF InOrder
  <2>1. CASE u = t /\ q = r
    <3>1. r = "Alice" => \A op \in Start(prog) : op \in Had(t, r)'
      <4>1. "CalcuCnt" \in Ops
        BY DEF Ops
      <4>2. r = "Alice" => aliceTx'[t].count = 1
        BY DEF Inv, Shape
      <4>3. prog \in QueryPrograms => Units' = 1
        BY <1>4 DEF Units, BobCnt, QueryPrograms
      <4>4. prog' = prog
        BY DEF progVars
      <4> QED BY <4>1, <4>2, <4>3, <4>4 DEF Start, Had, Effect
    <3>2. Ready(r, Tail(todo[t][r]), Had(t, r)')
      BY <1>3, <3>1 DEF Ready
    <3> QED BY <2>1, <3>2, <1>1, <1>3 DEF Stage
  <2>2. CASE (u # t \/ q # r) /\ At(u, q, "Mkdir")
    BY <2>2, <1>1 DEF Inv, InOrder, Stage, At, progVars
  <2>3. CASE (u # t \/ q # r) /\ todo[u][q] = << >>
    <3>1. todo'[u][q] = << >> /\ ~At(u, q, "Mkdir")'
      BY <2>3, <1>1 DEF At, Call
    <3> QED BY <3>1, ReadyEmpty DEF Stage
  <2>4. CASE (u # t \/ q # r) /\ Running(u, q)
    <3>1. /\ todo'[u][q] = todo[u][q] /\ ~At(u, q, "Mkdir")' /\ ~At(u, q, "Mkdir") /\ sid[u] # 0
      BY <2>4, <1>1, <1>5 DEF At, Running
    <3>2. \A name : Has(u, q, name) => Has(u, q, name)'
      BY <3>1, <1>4 DEF Has
    <3>3. ASSUME NEW op \in Had(u, q) PROVE op \in Had(u, q)'
      <4>1. op \in Ops \cup {"Sale"} /\ Effect(u, q, op) /\ prog' = prog
        BY DEF Had, progVars
      <4>2. Effect(u, q, op)'
        <5>1. CASE q = "Alice"
          BY <5>1, <3>1, <3>2, <4>1, <1>4 DEF Effect, ExpireAt
        <5>2. CASE q = "Bob"
          BY <5>2, <3>1, <3>2, <4>1, <1>4 DEF Effect
        <5> QED BY <5>1, <5>2 DEF Roles
      <4> QED BY <4>1, <4>2 DEF Had
    <3>4. todo[u][q] \in Seq(Steps) /\ Ready(q, todo[u][q], Had(u, q))
      BY <3>1 DEF Inv, InOrder, Stage
    <3>5. Ready(q, todo[u][q], Had(u, q)')
      BY <3>3, <3>4 DEF Ready
    <3> QED BY <3>1, <3>4, <3>5 DEF Stage
  <2> QED BY <2>1, <2>2, <2>3, <2>4 DEF Running
<1> QED BY <1>7, <1>8, <1>9, <1>10, <1>11, <1>12, <1>13 DEF Inv

\* Alice draws an id: a directory of that name ends the trade.
LEMMA AliceMkdirInv == ASSUME Inv, NEW t \in Trades, AliceMkdir(t) PROVE Inv'
<1>1. PICK id \in SessIDs :
        IF <<seller[t], id>> \in dirs
        THEN todo' = [todo EXCEPT ![t] = [r \in Roles |-> << >>]] /\ UNCHANGED <<sid, dirs>>
        ELSE /\ dirs' = dirs \cup {<<seller[t], id>>}
             /\ sid' = [sid EXCEPT ![t] = id]
             /\ Advance(t, "Alice")
  BY DEF AliceMkdir
<1>2. "Alice" \in Roles /\ Node(t, "Alice") = seller[t] /\ id # 0
  BY FilesAssumption DEF Roles, Node
<1>3. CASE <<seller[t], id>> \in dirs
  <2>1. todo' = [todo EXCEPT ![t] = [r \in Roles |-> << >>]] /\ UNCHANGED <<sid, dirs>>
    BY <1>1, <1>3
  <2>2. /\ DOMAIN todo' = Trades /\ \A u \in Trades : DOMAIN todo'[u] = Roles
        /\ \A u \in Trades, r \in Roles : todo'[u][r] \in {todo[u][r], << >>}
    BY <2>1 DEF Inv, Shape
  <2> QED BY <2>1, <2>2, Dropped DEF AliceMkdir
<1>4. CASE <<seller[t], id>> \notin dirs
  BY <1>1, <1>2, <1>4, NewDir DEF AliceMkdir
<1> QED BY <1>3, <1>4

\* Bob takes the id he was told.
LEMMA BobMkdirInv == ASSUME Inv, NEW t \in Trades, BobMkdir(t) PROVE Inv'
<1>1. "Bob" \in Roles /\ Node(t, "Bob") = buyer[t] /\ sid[t] \in SessIDs /\ sid[t] # 0
  BY DEF Roles, Node, BobMkdir, Inv, Shape
<1>2. CASE <<buyer[t], sid[t]>> \in dirs
  <2>1. todo' = [todo EXCEPT ![t]["Bob"] = << >>] /\ UNCHANGED dirs
    BY <1>2 DEF BobMkdir, Stop
  <2>2. /\ DOMAIN todo' = Trades /\ \A u \in Trades : DOMAIN todo'[u] = Roles
        /\ \A u \in Trades, r \in Roles : todo'[u][r] \in {todo[u][r], << >>}
    BY <2>1 DEF Inv, Shape
  <2> QED BY <2>1, <2>2, Dropped DEF BobMkdir
<1>3. CASE <<buyer[t], sid[t]>> \notin dirs
  <2>1. sid' = [sid EXCEPT ![t] = sid[t]]
    BY DEF BobMkdir, Inv, Shape
  <2> QED BY <1>1, <1>3, <2>1, NewDir DEF BobMkdir
<1> QED BY <1>2, <1>3

-----------------------------------------------------------------------------
(***************************************************************************)
(* The theorems.                                                           *)
(***************************************************************************)
LEMMA InitInv == Init => Inv
<1> SUFFICES ASSUME Init PROVE Inv
  OBVIOUS
<1>1. /\ prog \in Programs /\ sid = [t \in Trades |-> 0] /\ dirs = {} /\ wire = {}
      /\ todo = [t \in Trades |-> [r \in Roles |-> FileProgram(r, prog)]]
      /\ aliceTx = [t \in Trades |-> NoAliceTx] /\ bobTx = [t \in Trades |-> NoBobTx]
  BY FilesAssumption DEF Init
<1>2. DOMAIN files = {} /\ DOMAIN record = {}
  BY DEF Init
<1>3. \A t \in Trades, r \in Roles : At(t, r, "Mkdir") /\ ~Running(t, r)
  BY <1>1, WholeProgram DEF At, Call, Running
<1>4. Shape
  <2>1. NoAliceTx.count = 1
    BY DEF NoAliceTx
  <2> QED BY <1>1, <2>1 DEF Shape
<1>5. DirsOwned
  BY <1>1, <1>3 DEF DirsOwned
<1>6. FilesRight /\ DirOfOneTrade /\ WireRight
  BY <1>1, <1>2, <1>3 DEF FilesRight, DirOfOneTrade, WireRight
<1>7. RecordRight
  BY <1>2 DEF RecordRight
<1>8. InOrder
  BY <1>1, <1>3 DEF InOrder, Stage
<1> QED BY <1>4, <1>5, <1>6, <1>7, <1>8 DEF Inv

LEMMA NextInv == Inv /\ [Next]_vars => Inv'
<1> SUFFICES ASSUME Inv, [Next]_vars PROVE Inv'
  OBVIOUS
<1>1. ASSUME NEW t \in Trades, AliceStep(t) PROVE Inv'
  <2>1. "Alice" \in Roles
    BY DEF Roles
  <2> QED BY <1>1, <2>1, AliceMkdirInv, LibraryCallInv, SendMsgInv, RcvMsgInv, PeerGoneInv, CalcuCntInv,
             CalcuPriceInv, RcvRecptInv, CheckPriceInv, SubmitInv, ReadScrtInv, PassInv
          DEF AliceStep
<1>2. ASSUME NEW t \in Trades, BobStep(t) PROVE Inv'
  <2>1. "Bob" \in Roles
    BY DEF Roles
  <2> QED BY <1>2, <2>1, BobMkdirInv, LibraryCallInv, SendMsgInv, RcvMsgInv, PeerGoneInv, ReadReceiptInv,
             SignRecptInv, SendRecptInv, ReadScrtInv, ReadScrtTimeoutInv, SaveScrtInv, ClaimInv, PassInv
          DEF BobStep
<1>3. ASSUME NEW t \in Trades, NEW r \in Roles, Fault(t, r) PROVE Inv'
  BY <1>3, FaultInv
<1>4. CASE UNCHANGED vars
  BY <1>4, Dropped DEF vars, progVars, Inv, Shape
<1> QED BY <1>1, <1>2, <1>3, <1>4 DEF Next

\* The invariant of the files of a trade, for every number of trades and every program.
THEOREM InvHolds == Spec => []Inv
<1>1. Inv /\ [Next]_vars => Inv'
  BY NextInv
<1> QED BY InitInv, <1>1, PTL DEF Spec

\* Every call of the library finds its inputs in the directory of its trade, made by the
\* matching call of the peer, complete and under the right name.
THEOREM InputsMatchHolds == Spec => []InputsMatch
<1>1. Inv => InputsMatch
  <2> SUFFICES ASSUME Inv, NEW t \in Trades, NEW r \in Roles, Call(t, r) \in DOMAIN Wrapper(r),
                      NEW name \in Wrapper(r)[Call(t, r)].in
               PROVE  LET w == Wrapper(r)[Call(t, r)]
                          f == File(t, r, name)
                      IN  /\ f \in DOMAIN files
                          /\ files[f].by = Answers[w.call] /\ files[f].trade = t
                          /\ w.call = "OnSecret" => files[f].fields = SecretFields(prog)
                          /\ w.call = "OnReceipt" => files[f].fields = ReceiptFields(prog)
    BY DEF InputsMatch
  <2> DEFINE w == Wrapper(r)[Call(t, r)]
             f == File(t, r, name)
  <2>1. name \in Names /\ Has(t, r, name) /\ files[f] = Right(t, name)
    BY InputsThere
  <2>2. /\ MadeBy(name) = Answers[w.call]
        /\ w.call = "OnSecret" => name = "secret"
        /\ w.call = "OnReceipt" => name = "receipt"
    <3>1. prog \in Programs
      BY DEF Inv, Shape
    <3> QED BY <3>1, WrapperFacts
  <2>3. /\ Right(t, name).by = MadeBy(name) /\ Right(t, name).trade = t
        /\ name = "secret" => Right(t, name).fields = SecretFields(prog)
        /\ name = "receipt" => Right(t, name).fields = ReceiptFields(prog)
    BY <2>1, RightContent DEF Content
  <2> HIDE DEF w, f
  <2> QED BY <2>1, <2>2, <2>3 DEF Has, f, w
<1> QED BY <1>1, InvHolds, PTL

\* The files of a directory are of one trade.
THEOREM DirOfOneTradeHolds == Spec => []DirOfOneTrade
<1>1. Inv => DirOfOneTrade
  BY DEF Inv
<1> QED BY <1>1, InvHolds, PTL

\* The two sides agree on the price, and the signature is over what Alice hashes.
THEOREM SidesAgreeHolds == Spec => []SidesAgree
<1>1. Inv => SidesAgree
  <2> SUFFICES ASSUME Inv, NEW t \in Trades
               PROVE  /\ At(t, "Alice", "CheckPrice") => aliceTx[t].signPrice = aliceTx[t].price
                      /\ At(t, "Alice", "Submit") => Submitted(t) # Nothing
    BY DEF SidesAgree
  <2>1. ASSUME At(t, "Alice", "CheckPrice") PROVE aliceTx[t].signPrice = aliceTx[t].price
    <3>1. "Alice" \in Roles /\ Call(t, "Alice") = "CheckPrice"
      BY <2>1 DEF At, Roles
    <3>2. Needs("Alice", "CheckPrice") \subseteq Had(t, "Alice")
      BY <3>1, RunningFacts
    <3>3. "RcvRecpt" \in Had(t, "Alice") /\ "CalcuDeposit" \in Had(t, "Alice")
      BY <3>2 DEF Needs
    <3> QED BY <3>3 DEF Had, Effect
  <2>2. ASSUME At(t, "Alice", "Submit") PROVE Submitted(t) # Nothing
    BY <2>2, SubmitReady
  <2> QED BY <2>1, <2>2
<1> QED BY <1>1, InvHolds, PTL

\* Only the two directory steps touch the ids and the directories, and only a fault
\* counts as one.
LEMMA TypeNext == ASSUME TypeOK, Inv', [Next]_vars PROVE TypeOK'
<1>1. \A f \in DOMAIN files' : <<f[1], f[2]>> \in dirs'
  BY DEF Inv, FilesRight
<1>2. CASE UNCHANGED vars
  BY <1>1, <1>2 DEF TypeOK, vars
<1>3. ASSUME NEW t \in Trades, AliceMkdir(t) PROVE TypeOK'
  <2>1. PICK id \in SessIDs : \/ UNCHANGED <<sid, dirs>>
                              \/ /\ dirs' = dirs \cup {<<seller[t], id>>}
                                 /\ sid' = [sid EXCEPT ![t] = id]
    BY <1>3 DEF AliceMkdir
  <2>2. UNCHANGED <<prog, seller, buyer, faults>>
    BY <1>3 DEF AliceMkdir, progVars
  <2>3. dirs' \subseteq (Sellers \cup Buyers) \X SessIDs /\ sid' \in [Trades -> SessIDs \cup {0}]
    BY <2>1 DEF TypeOK
  <2> QED BY <2>2, <2>3, <1>1 DEF TypeOK
<1>4. ASSUME NEW t \in Trades, BobMkdir(t) PROVE TypeOK'
  <2>1. sid[t] # 0 /\ (UNCHANGED dirs \/ dirs' = dirs \cup {<<buyer[t], sid[t]>>})
    BY <1>4 DEF BobMkdir
  <2>2. UNCHANGED <<prog, seller, buyer, sid, faults>>
    BY <1>4 DEF BobMkdir, progVars
  <2>3. sid[t] \in SessIDs /\ buyer[t] \in Buyers
    BY <2>1 DEF TypeOK
  <2> QED BY <2>1, <2>2, <2>3, <1>1 DEF TypeOK
<1>5. ASSUME NEW t \in Trades, NEW r \in Roles, Fault(t, r) PROVE TypeOK'
  <2>1. /\ faults < MaxFaults /\ faults' = faults + 1
        /\ UNCHANGED <<prog, seller, buyer, sid, dirs>>
    BY <1>5 DEF Fault, progVars
  <2>2. faults' \in 0..MaxFaults
    BY <2>1, FilesAssumption DEF TypeOK
  <2> QED BY <2>1, <2>2, <1>1 DEF TypeOK
<1>6. ASSUME UNCHANGED <<progVars, sid, dirs, faults>> PROVE TypeOK'
  BY <1>1, <1>6 DEF TypeOK, progVars
<1>7. ASSUME NEW t \in Trades, NEW r \in Roles,
             LibraryCall(t, r) \/ SendMsg(t, r) \/ RcvMsg(t, r) \/ PeerGone(t, r) \/ Pass(t, r)
                \/ ReadScrt(t, r) \/ ReadScrtTimeout(t, r)
      PROVE  TypeOK'
  <2>1. UNCHANGED <<progVars, sid, dirs, faults>>
    BY <1>7 DEF LibraryCall, SendMsg, RcvMsg, PeerGone, Pass, ReadScrt, ReadScrtTimeout
  <2> QED BY <1>6, <2>1
<1>8. ASSUME NEW t \in Trades,
             CalcuCnt(t) \/ CalcuPrice(t) \/ RcvRecpt(t) \/ CheckPrice(t) \/ Submit(t)
      PROVE  TypeOK'
  <2>1. UNCHANGED <<progVars, sid, dirs, faults>>
    BY <1>8 DEF CalcuCnt, CalcuPrice, RcvRecpt, CheckPrice, Submit
  <2> QED BY <1>6, <2>1
<1>9. ASSUME NEW t \in Trades,
             ReadReceipt(t) \/ SignRecpt(t) \/ SendRecpt(t) \/ SaveScrt(t) \/ Claim(t)
      PROVE  TypeOK'
  <2>1. UNCHANGED <<progVars, sid, dirs, faults>>
    BY <1>9 DEF ReadReceipt, SignRecpt, SendRecpt, SaveScrt, Claim
  <2> QED BY <1>6, <2>1
<1> QED BY <1>2, <1>3, <1>4, <1>5, <1>7, <1>8, <1>9 DEF Next, AliceStep, BobStep, Roles

\* Nodes, ids, directories and faults keep their types, and no file is outside a
\* directory that preAliceTx or preBobConn made.
THEOREM TypesHold == Spec => []TypeOK
<1>1. Init => TypeOK
  BY FilesAssumption DEF Init, TypeOK
<1>2. TypeOK /\ Inv' /\ [Next]_vars => TypeOK'
  BY TypeNext
<1> QED BY <1>1, <1>2, InvHolds, PTL DEF Spec
=============================================================================
