--------------------------- MODULE TxTablesProofs ---------------------------
(***************************************************************************)
(* TxTables for any trades, session ids, prices and faults.  The inductive *)
(* invariant says what each trade knows of its own row at every step, and  *)
(* that a row which is there belongs to a trade.  Trades leave each other  *)
(* alone because no two of them have the same row, which in turn holds     *)
(* because a transaction directory is never made twice.                    *)
(***************************************************************************)
EXTENDS TxTables, TLAPS

NumCols == {"price", "unit", "count", "expire"}
RowType == [there : BOOLEAN, text : TextType, num : NumType, params : Params, ask : Nat]
TxType == [side : Sides \cup {""}, sess : Sess \cup {0}, text : TextType, num : NumType,
           params : Params, want : Nat, asked : [Programs -> Nat]]

TablesType ==
    /\ pc \in [Trades -> Labels]
    /\ tx \in [Trades -> TxType]
    /\ txMap \in [Sides -> SUBSET Sess]
    /\ dirs \in [Sides -> SUBSET Sess]
    /\ table \in [Sides -> [Sess -> RowType]]
    /\ \A c \in settled : c.sess \in Sess
    /\ faults \in 0..MaxFaults

Row(t) == table[tx[t].side][tx[t].sess]

\* A row that names the parties and the parameters of x.
Names(row, x) == row.text.alice = x.text.alice /\ row.text.bob = x.text.bob /\ row.params = x.params

\* The steps of a trade whose program runs.
Running == {"program", "session", "uncounted", "priced"}

\* What a trade knows of its row.  A program's copy differs from the row by what an
\* update will copy: where the copy is zero, which an update leaves alone, the row has
\* zero too, and one in the count column of a sale, inserted as one and not changed
\* before the update.
TradeOK(t) ==
    pc[t] # "idle" =>
        /\ tx[t].side \in Sides /\ tx[t].sess \in Sess /\ tx[t].sess \in dirs[tx[t].side]
        /\ pc[t] = "insert" => tx[t].num.count = IF tx[t].side = "Alice" THEN 1 ELSE 0
        /\ pc[t] \in {"insert", "program", "session"} => tx[t].num.price = 0
        /\ Row(t).there => Names(Row(t), tx[t])
        /\ pc[t] \in Running =>
                /\ Row(t).there /\ Row(t).text = tx[t].text /\ Row(t).params = tx[t].params
                /\ tx[t].side = "Alice" => Row(t).num.count = 1
                /\ \A c \in NumCols : tx[t].num[c] = 0 => Row(t).num[c] = BookedAs(tx[t], c)
        /\ pc[t] = "ended" => /\ Row(t).there
                              /\ Row(t).text = tx[t].text /\ Row(t).params = tx[t].params
                              /\ \A c \in NumCols : Row(t).num[c] = BookedAs(tx[t], c)

\* Every row was inserted by a trade.
RowsOwned ==
    \A d \in Sides, s \in Sess : table[d][s].there =>
        \E t \in Trades : pc[t] # "idle" /\ tx[t].side = d /\ tx[t].sess = s

TablesInv ==
    /\ TablesType
    /\ OneTradePerRow
    /\ \A t \in Trades : TradeOK(t)
    /\ RowsOwned
    /\ SettlesItsSale

-----------------------------------------------------------------------------
\* What Update makes of the numbers of a row: the copy's where they are not zero.
LEMMA UpdatedNum ==
    ASSUME NEW a \in NumType, NEW b \in NumType,
           NEW f, f = [c \in DOMAIN a |-> IF b[c] = 0 THEN a[c] ELSE b[c]]
    PROVE  f \in NumType /\ \A c \in NumCols : f[c] = IF b[c] = 0 THEN a[c] ELSE b[c]
<1>1. DOMAIN a = NumCols
  BY DEF NumType, NumCols
<1>2. \A c \in NumCols : f[c] = IF b[c] = 0 THEN a[c] ELSE b[c]
  BY <1>1
<1>3. \A c \in NumCols : a[c] \in Nat /\ b[c] \in Nat
  BY DEF NumType, NumCols
<1>4. f.price \in Nat /\ f.unit \in Nat /\ f.count \in Nat /\ f.expire \in Nat
  BY <1>2, <1>3 DEF NumCols
<1>5. f = [price |-> f.price, unit |-> f.unit, count |-> f.count, expire |-> f.expire]
  BY <1>1 DEF NumCols
<1> QED BY <1>2, <1>4, <1>5 DEF NumType

\* A function on the columns of strings is a record.
LEMMA TextRecord ==
    ASSUME NEW h
    PROVE  [c \in {"status", "alice", "bob", "root"} |-> h[c]]
                = [status |-> h.status, alice |-> h.alice, bob |-> h.bob, root |-> h.root]
OBVIOUS

\* What Update makes of the strings of a row that differs from the copy in the status.
LEMMA UpdatedText ==
    ASSUME NEW a \in TextType, NEW b \in TextType, NEW st \in {"failed", "done"},
           b.status = st, b.alice = a.alice, b.bob = a.bob, b.root = a.root
    PROVE  [c \in DOMAIN a |-> IF b[c] = "" THEN a[c] ELSE b[c]] = b
<1> DEFINE f == [c \in DOMAIN a |-> IF b[c] = "" THEN a[c] ELSE b[c]]
<1>1. DOMAIN a = {"status", "alice", "bob", "root"} /\ DOMAIN b = {"status", "alice", "bob", "root"}
  BY DEF TextType
<1>3. f.status = b.status /\ f.alice = b.alice /\ f.bob = b.bob /\ f.root = b.root
  BY <1>1
<1>4. f = [status |-> f.status, alice |-> f.alice, bob |-> f.bob, root |-> f.root]
  <2>1. f = [c \in {"status", "alice", "bob", "root"} |-> f[c]]
    BY <1>1
  <2> HIDE DEF f
  <2> QED BY <2>1, TextRecord
<1>5. b = [status |-> b.status, alice |-> b.alice, bob |-> b.bob, root |-> b.root]
  BY DEF TextType
<1> QED BY <1>3, <1>4, <1>5

\* What a transaction asks for is a number.
LEMMA AskType == ASSUME NEW x \in TxType PROVE Ask(x) \in Nat
<1>1. x.params \in Params /\ x.asked \in [Programs -> Nat]
  BY DEF TxType
<1>2. \A p \in Params : FieldsOf(p) \in Programs \cup {""}
  BY DEF Params, SubModes, DataModes, FieldsOf, Programs
<1> QED BY <1>1, <1>2 DEF Ask

\* The rows and the transactions that trades begin with.
LEMMA NoTypes == NoRow \in RowType /\ NoTx \in TxType /\ ~NoRow.there
<1>1. [mode |-> "plain", subMode |-> "vrf", ot |-> TRUE] \in Params
  BY DEF Params, DataModes, SubModes
<1>2. (CHOOSE p \in Params : TRUE) \in Params
  BY <1>1
<1>3. NoText \in TextType /\ NoNum \in NumType
  BY DEF NoText, NoNum, TextType, NumType
<1> DEFINE q == CHOOSE p \in Params : TRUE
<1> HIDE DEF q
<1>4. NoRow = [there |-> FALSE, text |-> NoText, num |-> NoNum, params |-> q, ask |-> 0]
  BY DEF NoRow, q
<1>5. NoRow \in RowType /\ NoRow.params = q /\ ~NoRow.there
  BY <1>2, <1>3, <1>4 DEF RowType, q
<1>6. [g \in Programs |-> 0] \in [Programs -> Nat]
  OBVIOUS
<1>7. NoTx \in TxType
  <2> DEFINE a == [g \in Programs |-> 0]
  <2> HIDE DEF a
  <2>1. NoTx = [side |-> "", sess |-> 0, text |-> NoText, num |-> NoNum, params |-> q, want |-> 0, asked |-> a]
    BY <1>5 DEF NoTx, a
  <2> QED BY <1>2, <1>3, <1>6, <2>1 DEF TxType, a, q
<1> QED BY <1>5, <1>7

-----------------------------------------------------------------------------
\* A step of a trade that has begun concerns its own row only, so that the others are
\* as they were.
LEMMA OwnRowOnly ==
    ASSUME TablesInv, NEW t \in Trades, pc[t] # "idle", TablesType', TradeOK(t)',
           UNCHANGED <<dirs, settled>>, pc'[t] # "idle",
           \A u \in Trades : u # t => pc'[u] = pc[u] /\ tx'[u] = tx[u],
           tx'[t].side = tx[t].side, tx'[t].sess = tx[t].sess, tx'[t].params = tx[t].params,
           tx'[t].text.alice = tx[t].text.alice, tx'[t].text.bob = tx[t].text.bob,
           \A d \in Sides, s \in Sess : d # tx[t].side \/ s # tx[t].sess => table'[d][s] = table[d][s]
    PROVE  TablesInv'
<1>1. OneTradePerRow'
  BY DEF TablesInv, OneTradePerRow
<1>2. ASSUME NEW u \in Trades PROVE TradeOK(u)'
  <2>1. CASE u = t
    BY <2>1
  <2>2. CASE pc[u] = "idle" /\ u # t
    BY <2>2 DEF TradeOK
  <2>3. CASE pc[u] # "idle" /\ u # t
    <3>1. tx[u].side \in Sides /\ tx[u].sess \in Sess /\ TradeOK(u)
      BY <2>3 DEF TablesInv, TradeOK
    <3>2. tx[u].side # tx[t].side \/ tx[u].sess # tx[t].sess
      BY <2>3 DEF TablesInv, OneTradePerRow
    <3>3. Row(u)' = Row(u)
      BY <2>3, <3>1, <3>2 DEF Row
    <3> QED BY <2>3, <3>1, <3>3 DEF TradeOK, Names
  <2> QED BY <2>1, <2>2, <2>3
<1>3. RowsOwned'
  <2> SUFFICES ASSUME NEW d \in Sides, NEW s \in Sess, table'[d][s].there
               PROVE  \E u \in Trades : pc'[u] # "idle" /\ tx'[u].side = d /\ tx'[u].sess = s
    BY DEF RowsOwned
  <2>1. CASE d = tx[t].side /\ s = tx[t].sess
    BY <2>1
  <2>2. CASE d # tx[t].side \/ s # tx[t].sess
    <3>1. PICK u \in Trades : pc[u] # "idle" /\ tx[u].side = d /\ tx[u].sess = s
      BY <2>2 DEF TablesInv, RowsOwned
    <3> QED BY <2>2, <3>1
  <2> QED BY <2>1, <2>2
<1>4. SettlesItsSale'
  <2> SUFFICES ASSUME NEW c \in settled
               PROVE  \E u \in Trades : /\ pc'[u] # "idle" /\ tx'[u].side = "Alice" /\ tx'[u].sess = c.sess
                                        /\ tx'[u].text.alice = c.alice /\ tx'[u].text.bob = c.bob
                                        /\ tx'[u].params.subMode = "complaint"
    BY DEF SettlesItsSale
  <2>1. PICK u \in Trades : /\ pc[u] # "idle" /\ tx[u].side = "Alice" /\ tx[u].sess = c.sess
                            /\ tx[u].text.alice = c.alice /\ tx[u].text.bob = c.bob
                            /\ tx[u].params.subMode = "complaint"
    BY DEF TablesInv, SettlesItsSale
  <2>2. /\ pc'[u] # "idle" /\ tx'[u].side = "Alice" /\ tx'[u].sess = c.sess
        /\ tx'[u].text.alice = c.alice /\ tx'[u].text.bob = c.bob
        /\ tx'[u].params.subMode = "complaint"
    BY <2>1
  <2> QED BY <2>2
<1> QED BY <1>1, <1>2, <1>3, <1>4 DEF TablesInv

\* The bound of the faults.
LEMMA FaultBound == ASSUME faults \in 0..MaxFaults, Fault PROVE faults' \in 0..MaxFaults
<1>1. MaxFaults \in Nat
  BY TablesAssumption
<1> QED BY <1>1 DEF Fault

\* The copy of a trade whose session is established.
FirstOf(side, s, own, peer, p, u, a) ==
    [NoTx EXCEPT !.side = side, !.sess = s, !.params = p, !.want = a,
                 !.text = [status |-> "start", root |-> "root",
                           alice |-> IF side = "Alice" THEN own ELSE peer,
                           bob |-> IF side = "Alice" THEN peer ELSE own],
                 !.num = [NoNum EXCEPT !.unit = u, !.count = IF side = "Alice" THEN 1 ELSE 0]]

\* It has a side, an id and no price, and counts as one on the seller's side.
LEMMA FirstTx ==
    ASSUME NEW side \in Sides, NEW s \in Sess, NEW own \in Addrs, NEW peer \in Peers, NEW p \in Agreed,
           NEW u \in Prices, NEW a \in Asks, NEW x, x = FirstOf(side, s, own, peer, p, u, a)
    PROVE  /\ x \in TxType /\ x.side = side /\ x.sess = s /\ x.num.price = 0
           /\ x.num.count = IF side = "Alice" THEN 1 ELSE 0
<1>1. p \in Params /\ u \in Nat /\ a \in Nat
  BY TablesAssumption
<1> DEFINE al == IF side = "Alice" THEN own ELSE peer
           bo == IF side = "Alice" THEN peer ELSE own
           co == IF side = "Alice" THEN 1 ELSE 0
<1>2. al \in Addrs \cup Peers \cup {""} /\ bo \in Addrs \cup Peers \cup {""} /\ co \in Nat
                                /\ co = (IF side = "Alice" THEN 1 ELSE 0)
  OBVIOUS
<1> HIDE DEF al, bo, co
<1> DEFINE txt == [status |-> "start", root |-> "root", alice |-> al, bob |-> bo]
           nm == [NoNum EXCEPT !.unit = u, !.count = co]
<1>3. txt \in TextType
  BY <1>2 DEF TextType
<1>4. nm \in NumType /\ nm.price = 0 /\ nm.count = co
  BY <1>1, <1>2 DEF NumType, NoNum
<1>5. x = [NoTx EXCEPT !.side = side, !.sess = s, !.params = p, !.want = a, !.text = txt, !.num = nm]
  BY DEF al, bo, co, FirstOf
<1> HIDE DEF txt, nm
<1>6. NoTx \in TxType
  BY NoTypes
<1>7. x \in TxType /\ x.side = side /\ x.sess = s /\ x.num = nm
  BY <1>1, <1>3, <1>4, <1>5, <1>6 DEF TxType
<1> QED BY <1>2, <1>4, <1>7

\* A trade begins in a directory of its own, so that no other has its row, and finds no
\* row there.
LEMMA StartStep == ASSUME TablesInv, NEW t \in Trades, Start(t) PROVE TablesInv'
<1>0. TablesType /\ pc[t] = "idle" /\ UNCHANGED <<table, settled, faults>>
  BY DEF TablesInv, Start
<1>1. PICK side \in Sides, s \in Sess, own \in Addrs, peer \in Peers, p \in Agreed, u \in Prices, a \in Asks :
            /\ MakeDir(side, s)
            /\ dirs' = [dirs EXCEPT ![side] = @ \cup {s}]
            /\ txMap' = IF side = "Alice" THEN [txMap EXCEPT ![side] = @ \cup {s}] ELSE txMap
            /\ tx' = [tx EXCEPT ![t] = FirstOf(side, s, own, peer, p, u, a)]
  BY DEF Start, FirstOf
<1>2. PICK x : /\ tx' = [tx EXCEPT ![t] = x] /\ x \in TxType /\ x.side = side /\ x.sess = s
               /\ x.num.price = 0 /\ x.num.count = (IF side = "Alice" THEN 1 ELSE 0)
  <2>1. PICK y : y = FirstOf(side, s, own, peer, p, u, a)
    OBVIOUS
  <2>2. tx' = [tx EXCEPT ![t] = y]
    BY <1>1, <2>1
  <2>3. y \in TxType /\ y.side = side /\ y.sess = s /\ y.num.price = 0 /\ y.num.count = (IF side = "Alice" THEN 1 ELSE 0)
    BY <2>1, FirstTx
  <2> QED BY <2>2, <2>3
<1>3. pc' = [pc EXCEPT ![t] = "insert"]
  BY DEF Start, Goto
<1>4. TablesType'
  <2>1. pc' \in [Trades -> Labels]
    BY <1>0, <1>3 DEF TablesType, Labels
  <2>2. tx' \in [Trades -> TxType]
    BY <1>0, <1>2 DEF TablesType
  <2>3. txMap' \in [Sides -> SUBSET Sess] /\ dirs' \in [Sides -> SUBSET Sess]
    BY <1>0, <1>1 DEF TablesType
  <2> QED BY <1>0, <2>1, <2>2, <2>3 DEF TablesType
<1>5. \A w \in Trades : w # t => pc'[w] = pc[w] /\ tx'[w] = tx[w]
  BY <1>0, <1>2, <1>3 DEF TablesType
<1>6. pc'[t] = "insert" /\ tx'[t] = x
  BY <1>0, <1>2, <1>3 DEF TablesType
<1>7. ASSUME NEW w \in Trades, pc[w] # "idle" PROVE tx[w].side # side \/ tx[w].sess # s
  BY <1>1, <1>7 DEF TablesInv, TradeOK, MakeDir
<1>8. OneTradePerRow'
  BY <1>2, <1>5, <1>6, <1>7 DEF TablesInv, OneTradePerRow
<1>9. ASSUME NEW w \in Trades PROVE TradeOK(w)'
  <2>1. CASE w = t
    <3>1. ~table[side][s].there
      BY <1>7 DEF TablesInv, RowsOwned
    <3>2. ~Row(t)'.there
      BY <1>0, <1>2, <1>6, <3>1 DEF Row
    <3>3. s \in dirs'[side]
      BY <1>0, <1>1 DEF TablesType
    <3> QED BY <1>2, <1>6, <2>1, <3>2, <3>3 DEF TradeOK, Running
  <2>2. CASE w # t /\ pc[w] # "idle"
    <3>1. TradeOK(w) /\ Row(w)' = Row(w)
      BY <1>0, <1>5, <2>2 DEF TablesInv, Row
    <3>2. tx[w].sess \in dirs'[tx[w].side]
      BY <1>0, <1>1, <2>2, <3>1 DEF TablesType, TradeOK
    <3> QED BY <1>5, <2>2, <3>1, <3>2 DEF TradeOK, Names, Running
  <2>3. CASE w # t /\ pc[w] = "idle"
    BY <1>5, <2>3 DEF TradeOK
  <2> QED BY <2>1, <2>2, <2>3
<1>10. RowsOwned'
  BY <1>0, <1>5 DEF TablesInv, RowsOwned
<1>11. SettlesItsSale'
  BY <1>0, <1>5, SMTT(40) DEF TablesInv, SettlesItsSale
<1> QED BY <1>4, <1>8, <1>9, <1>10, <1>11 DEF TablesInv

\* The facts about a trade that has begun, with its types at hand.
LEMMA Begun ==
    ASSUME TablesInv, NEW t \in Trades, pc[t] # "idle"
    PROVE  /\ tx[t] \in TxType /\ tx[t].side \in Sides /\ tx[t].sess \in Sess
           /\ Row(t) \in RowType /\ TradeOK(t)
BY DEF TablesInv, TablesType, TradeOK, Row

\* A new row differs from the buyer's copy by the unit price and the count only.
LEMMA InsertedRow ==
    ASSUME NEW x \in TxType
    PROVE  /\ insertBobTxToDB(x) \in RowType /\ insertAliceTxToDB(x) \in RowType
           /\ insertBobTxToDB(x).there /\ insertAliceTxToDB(x).there
           /\ insertBobTxToDB(x).text = x.text /\ insertAliceTxToDB(x).text = x.text
           /\ insertBobTxToDB(x).params = x.params /\ insertAliceTxToDB(x).params = x.params
           /\ insertBobTxToDB(x).num = [x.num EXCEPT !.unit = 0] /\ insertAliceTxToDB(x).num = x.num
<1>1. Ask(x) \in Nat
  BY AskType
<1>2. x.text \in TextType /\ x.num \in NumType /\ x.params \in Params
  BY DEF TxType
<1>3. [x.num EXCEPT !.unit = 0] \in NumType
  BY <1>2 DEF NumType
<1> QED BY <1>1, <1>2, <1>3 DEF insertBobTxToDB, insertAliceTxToDB, RowType

\* Insert: the row is the trade's own, and a trade that is refused changes none.
LEMMA InsertStep == ASSUME TablesInv, NEW t \in Trades, Insert(t) PROVE TablesInv'
<1> DEFINE x == tx[t]
           k == IF Counted(x) THEN x.want ELSE 1
<1>0. TablesType /\ pc[t] = "insert" /\ UNCHANGED <<txMap, dirs, settled>>
  BY DEF TablesInv, Insert
<1>1. /\ x \in TxType /\ x.side \in Sides /\ x.sess \in Sess /\ Row(t) \in RowType /\ TradeOK(t)
  BY <1>0, Begun
<1>2. CASE Fault /\ Goto(t, "refused") /\ UNCHANGED <<tx, table>>
  <2>1. faults' \in 0..MaxFaults
    BY <1>0, <1>2, FaultBound DEF TablesType
  <2>2. pc' = [pc EXCEPT ![t] = "refused"] /\ pc' \in [Trades -> Labels]
    BY <1>0, <1>2 DEF Goto, TablesType, Labels
  <2>3. TablesType'
    BY <1>0, <1>2, <2>1, <2>2 DEF TablesType
  <2>4. pc'[t] = "refused" /\ \A u \in Trades : u # t => pc'[u] = pc[u] /\ tx'[u] = tx[u]
    BY <1>0, <1>2, <2>2 DEF TablesType
  <2>5. Row(t)' = Row(t)
    BY <1>2 DEF Row
  <2>6. TradeOK(t)'
    BY <1>0, <1>1, <1>2, <2>4, <2>5 DEF TradeOK, Names, Running
  <2> QED BY <1>0, <1>2, <2>3, <2>4, <2>6, OwnRowOnly
<1>3. CASE /\ table' = [table EXCEPT ![x.side][x.sess] =
                    IF @.there THEN @
                    ELSE IF x.side = "Alice" THEN insertAliceTxToDB(x) ELSE insertBobTxToDB(x)]
           /\ tx' = IF x.side = "Bob" THEN [tx EXCEPT ![t].num.count = IF Counted(x) THEN x.want ELSE 1] ELSE tx
           /\ Goto(t, IF table[x.side][x.sess].there THEN "refused" ELSE "program")
           /\ UNCHANGED faults
  <2>1. PICK new : /\ new = IF x.side = "Alice" THEN insertAliceTxToDB(x) ELSE insertBobTxToDB(x)
    OBVIOUS
  <2>2. /\ new \in RowType /\ new.there /\ new.text = x.text /\ new.params = x.params
        /\ new.num = IF x.side = "Alice" THEN x.num ELSE [x.num EXCEPT !.unit = 0]
    BY <1>1, <2>1, InsertedRow
  <2>3. table' = [table EXCEPT ![x.side][x.sess] = IF Row(t).there THEN Row(t) ELSE new]
    BY <1>3, <2>1 DEF Row
  <2>4. table' \in [Sides -> [Sess -> RowType]] /\ table'[x.side][x.sess] = IF Row(t).there THEN Row(t) ELSE new
    BY <1>0, <1>1, <2>2, <2>3 DEF TablesType
  <2>5. \A d \in Sides, s \in Sess : d # x.side \/ s # x.sess => table'[d][s] = table[d][s]
    BY <1>0, <1>1, <2>3 DEF TablesType
  <2>6. pc' \in [Trades -> Labels] /\ pc'[t] = IF Row(t).there THEN "refused" ELSE "program"
    BY <1>0, <1>3 DEF Goto, TablesType, Labels, Row
  <2>7. /\ tx' \in [Trades -> TxType] /\ tx'[t].side = x.side /\ tx'[t].sess = x.sess
        /\ tx'[t].params = x.params /\ tx'[t].text = x.text /\ tx'[t].want = x.want
        /\ tx'[t].num = IF x.side = "Bob" THEN [x.num EXCEPT !.count = k] ELSE x.num
    <3>1. tx \in [Trades -> TxType] /\ k \in Nat /\ x.num \in NumType
      BY <1>0, <1>1 DEF TablesType, TxType
    <3>2. [x.num EXCEPT !.count = k] \in NumType
      BY <3>1 DEF NumType
    <3> DEFINE y == [x EXCEPT !.num = [x.num EXCEPT !.count = k]]
    <3>3. /\ y \in TxType /\ y.side = x.side /\ y.sess = x.sess /\ y.params = x.params
          /\ y.text = x.text /\ y.want = x.want /\ y.num = [x.num EXCEPT !.count = k]
      BY <1>1, <3>2 DEF TxType
    <3>4. CASE x.side = "Bob"
      <4>1. tx' = [tx EXCEPT ![t] = y]
        BY <1>3, <3>4
      <4> QED BY <3>1, <3>3, <3>4, <4>1
    <3>5. CASE x.side # "Bob"
      BY <1>3, <3>1, <3>5
    <3> QED BY <3>4, <3>5
  <2>8. \A u \in Trades : u # t => pc'[u] = pc[u] /\ tx'[u] = tx[u]
    BY <1>0, <1>3, SMTT(40) DEF Goto, TablesType
  <2>9. TablesType'
    BY <1>0, <1>3, <2>4, <2>6, <2>7 DEF TablesType
  <2>10. Row(t)' = IF Row(t).there THEN Row(t) ELSE new
    BY <2>4, <2>7 DEF Row
  <2>11. TradeOK(t)'
    <3>1. CASE Row(t).there
      BY <1>0, <1>1, <2>6, <2>7, <2>10, <3>1 DEF TradeOK, Names, Running
    <3>2. CASE ~Row(t).there
      <4>1. Row(t)' = new /\ pc'[t] = "program"
        BY <2>6, <2>10, <3>2
      <4>2. /\ x.num.price = 0 /\ x.num \in NumType /\ x.sess \in dirs[x.side]
            /\ x.side = "Alice" => x.num.count = 1
            /\ x.side = "Bob" => x.num.count = 0
        BY <1>0, <1>1 DEF TradeOK, TxType, Sides
      <4>3. tx'[t].num.price = 0
        BY <2>7, <4>2 DEF NumType
      <4>4. /\ x.side = "Alice" => new.num.count = 1
            /\ \A c \in NumCols : tx'[t].num[c] = 0 => new.num[c] = BookedAs(tx'[t], c)
        BY <1>1, <2>2, <2>7, <4>2 DEF NumType, NumCols, Sides, BookedAs
      <4> QED BY <1>0, <1>1, <2>2, <2>7, <4>1, <4>2, <4>3, <4>4 DEF TradeOK, Names, Running
    <3> QED BY <3>1, <3>2
  <2> QED BY <1>0, <2>5, <2>6, <2>7, <2>8, <2>9, <2>11, OwnRowOnly
<1> QED BY <1>2, <1>3 DEF Insert

\* NewSess changes what is asked for, or refuses the seller's program.
LEMMA NewSessStep == ASSUME TablesInv, NEW t \in Trades, NewSess(t) PROVE TablesInv'
<1> DEFINE x == tx[t]
<1>0. TablesType /\ pc[t] = "program" /\ UNCHANGED <<txMap, dirs, table, settled, faults>>
  BY DEF TablesInv, NewSess
<1>1. x \in TxType /\ x.side \in Sides /\ x.sess \in Sess /\ TradeOK(t)
  BY <1>0, Begun
<1>2. CASE /\ tx' = [tx EXCEPT ![t].asked[BobTxFor(x.params)] = IF x.side = "Bob" THEN x.want ELSE 0]
           /\ Goto(t, "session")
  <2>1. pc' \in [Trades -> Labels] /\ pc'[t] = "session"
    BY <1>0, <1>2 DEF Goto, TablesType, Labels
  <2> DEFINE v == IF x.side = "Bob" THEN x.want ELSE 0
             y == [x EXCEPT !.asked = [x.asked EXCEPT ![BobTxFor(x.params)] = v]]
  <2>2. v \in Nat /\ x.asked \in [Programs -> Nat]
    BY <1>1 DEF TxType
  <2>3. [x.asked EXCEPT ![BobTxFor(x.params)] = v] \in [Programs -> Nat]
    BY <2>2
  <2>4. /\ y \in TxType /\ y.side = x.side /\ y.sess = x.sess /\ y.params = x.params
        /\ y.text = x.text /\ y.want = x.want /\ y.num = x.num
    BY <1>1, <2>3 DEF TxType
  <2>5. tx' = [tx EXCEPT ![t] = y]
    BY <1>2
  <2> HIDE DEF y, v
  <2>6. tx' \in [Trades -> TxType] /\ tx'[t] = y /\ \A u \in Trades : u # t => pc'[u] = pc[u] /\ tx'[u] = tx[u]
    BY <1>0, <1>2, <2>4, <2>5 DEF TablesType, Goto
  <2>7. TablesType'
    BY <1>0, <2>1, <2>6 DEF TablesType
  <2>8. Row(t)' = Row(t)
    BY <1>0, <2>4, <2>6 DEF Row
  <2>9. TradeOK(t)'
    BY <1>0, <1>1, <2>1, <2>4, <2>6, <2>8 DEF TradeOK, Names, Running, BookedAs
  <2> QED BY <1>0, <2>1, <2>4, <2>6, <2>7, <2>9, OwnRowOnly
<1>3. CASE Goto(t, "refused") /\ UNCHANGED tx
  <2>1. pc' \in [Trades -> Labels] /\ pc'[t] = "refused" /\ \A u \in Trades : u # t => pc'[u] = pc[u]
    BY <1>0, <1>3 DEF Goto, TablesType, Labels
  <2>2. TablesType'
    BY <1>0, <1>3, <2>1 DEF TablesType
  <2>3. Row(t)' = Row(t)
    BY <1>0, <1>3 DEF Row
  <2>4. TradeOK(t)'
    BY <1>0, <1>1, <1>3, <2>1, <2>3 DEF TradeOK, Names, Running
  <2> QED BY <1>0, <1>3, <2>1, <2>2, <2>4, OwnRowOnly
<1> QED BY <1>2, <1>3 DEF NewSess

\* CountFails: the count that becomes zero is a seller's, whose row has one.
LEMMA CountFailsStep == ASSUME TablesInv, NEW t \in Trades, CountFails(t) PROVE TablesInv'
<1> DEFINE x == tx[t]
           nm == [x.num EXCEPT !.count = 0]
           y == [x EXCEPT !.num = nm]
<1>0. TablesType /\ pc[t] = "session" /\ x.side = "Alice" /\ UNCHANGED <<txMap, dirs, table, settled, faults>>
  BY DEF TablesInv, CountFails
<1>1. x \in TxType /\ x.num \in NumType /\ x.sess \in Sess /\ TradeOK(t)
  BY <1>0, Begun DEF TxType
<1>2. pc' \in [Trades -> Labels] /\ pc'[t] = "uncounted"
  BY <1>0 DEF CountFails, Goto, TablesType, Labels
<1>3. nm \in NumType /\ \A c \in NumCols : nm[c] = IF c = "count" THEN 0 ELSE x.num[c]
  BY <1>1 DEF NumType, NumCols
<1>4. /\ y \in TxType /\ y.side = x.side /\ y.sess = x.sess /\ y.params = x.params
      /\ y.text = x.text /\ y.want = x.want /\ y.num = nm
  BY <1>1, <1>3 DEF TxType
<1>5. tx' = [tx EXCEPT ![t] = y]
  BY DEF CountFails
<1> HIDE DEF y, nm
<1>6. tx' \in [Trades -> TxType] /\ tx'[t] = y /\ \A u \in Trades : u # t => pc'[u] = pc[u] /\ tx'[u] = tx[u]
  BY <1>0, <1>4, <1>5 DEF TablesType, CountFails, Goto
<1>7. TablesType'
  BY <1>0, <1>2, <1>6 DEF TablesType
<1>8. Row(t)' = Row(t)
  BY <1>0, <1>4, <1>6 DEF Row
<1>9. \A c \in NumCols : nm[c] = 0 => Row(t).num[c] = BookedAs(y, c)
  BY <1>0, <1>1, <1>3, <1>4 DEF TradeOK, Running, BookedAs
<1>10. TradeOK(t)'
  BY <1>0, <1>1, <1>2, <1>4, <1>6, <1>8, <1>9 DEF TradeOK, Names, Running
<1> QED BY <1>0, <1>2, <1>4, <1>6, <1>7, <1>10, OwnRowOnly

\* Price: the row has no price yet, and a buyer's count is the one its handler set.
LEMMA PriceStep == ASSUME TablesInv, NEW t \in Trades, Price(t) PROVE TablesInv'
<1> DEFINE x == tx[t]
<1>0. TablesType /\ pc[t] = "session" /\ UNCHANGED <<dirs, table, settled, faults>>
  BY DEF TablesInv, Price
<1>1. x \in TxType /\ x.side \in Sides /\ x.sess \in Sess /\ TradeOK(t)
  BY <1>0, Begun
<1>2. pc' \in [Trades -> Labels] /\ pc'[t] = "priced"
  BY <1>0 DEF Price, Goto, TablesType, Labels
<1>3. PICK n \in IF x.side = "Alice" /\ Counted(x) THEN Asks ELSE {x.num.count} :
            tx' = [tx EXCEPT ![t].num = [price |-> n * x.num.unit, unit |-> x.num.unit, count |-> n, expire |-> 1]]
  BY DEF Price
<1>4. x.num.unit \in Nat /\ x.num.count \in Nat
  BY <1>1 DEF TxType, NumType
<1>5. n \in Nat /\ (x.side # "Alice" => n = x.num.count)
  BY <1>3, <1>4, TablesAssumption
<1> DEFINE pr == n * x.num.unit
<1>6. pr \in Nat
  BY <1>4, <1>5
<1> HIDE DEF pr
<1> DEFINE nm == [price |-> pr, unit |-> x.num.unit, count |-> n, expire |-> 1]
           y == [x EXCEPT !.num = nm]
<1>7. nm \in NumType
  BY <1>4, <1>5, <1>6 DEF NumType
<1>8. /\ y \in TxType /\ y.side = x.side /\ y.sess = x.sess /\ y.params = x.params
      /\ y.text = x.text /\ y.want = x.want /\ y.num = nm
  BY <1>1, <1>7 DEF TxType
<1>9. tx' = [tx EXCEPT ![t] = y]
  BY <1>3 DEF pr
<1>10. \A c \in NumCols : nm[c] = 0 => Row(t).num[c] = BookedAs(y, c)
  <2>1. /\ x.num.price = 0 /\ \A c \in NumCols : x.num[c] = 0 => Row(t).num[c] = BookedAs(x, c)
        /\ x.side = "Alice" => Row(t).num.count = 1
    BY <1>0, <1>1 DEF TradeOK, Running
  <2>2. nm.unit = x.num.unit /\ nm.count = n /\ nm.expire = 1
    OBVIOUS
  <2> HIDE DEF nm, y
  <2> QED BY <1>5, <1>8, <2>1, <2>2 DEF NumCols, BookedAs
<1> HIDE DEF y, nm
<1>11. tx' \in [Trades -> TxType] /\ tx'[t] = y /\ \A u \in Trades : u # t => pc'[u] = pc[u] /\ tx'[u] = tx[u]
  BY <1>0, <1>8, <1>9 DEF TablesType, Price, Goto
<1>12. txMap' \in [Sides -> SUBSET Sess]
  BY <1>0, <1>1 DEF Price, TablesType
<1>13. TablesType'
  BY <1>0, <1>2, <1>11, <1>12 DEF TablesType
<1>14. Row(t)' = Row(t)
  BY <1>0, <1>8, <1>11 DEF Row
<1>15. TradeOK(t)'
  BY <1>0, <1>1, <1>2, <1>8, <1>10, <1>11, <1>14 DEF TradeOK, Names, Running
<1> QED BY <1>0, <1>2, <1>8, <1>11, <1>13, <1>15, OwnRowOnly

\* Whichever side updates it, the row becomes what the books say of the program's copy.
LEMMA UpdatedRow ==
    ASSUME NEW row \in RowType, NEW x \in TxType, NEW st \in {"failed", "done"}, NEW a \in Nat,
           row.there, row.params = x.params, x.text.status = st, x.text.alice = row.text.alice,
           x.text.bob = row.text.bob, x.text.root = row.text.root,
           \A c \in NumCols : x.num[c] = 0 => row.num[c] = BookedAs(x, c),
           NEW new, new = Update(row, x.text, x.num, a)
    PROVE  /\ new \in RowType /\ new.there /\ new.text = x.text /\ new.params = x.params
           /\ \A c \in NumCols : new.num[c] = BookedAs(x, c)
<1>1. row.text \in TextType /\ row.num \in NumType /\ x.text \in TextType /\ x.num \in NumType
  BY DEF RowType, TxType
<1> DEFINE f == [c \in DOMAIN row.text |-> IF x.text[c] = "" THEN row.text[c] ELSE x.text[c]]
           g == [c \in DOMAIN row.num |-> IF x.num[c] = 0 THEN row.num[c] ELSE x.num[c]]
<1>2. f = x.text
  BY <1>1, UpdatedText
<1>3. g \in NumType /\ \A c \in NumCols : g[c] = BookedAs(x, c)
  <2>1. g \in NumType /\ \A c \in NumCols : g[c] = IF x.num[c] = 0 THEN row.num[c] ELSE x.num[c]
    BY <1>1, UpdatedNum
  <2> HIDE DEF g
  <2> QED BY <2>1 DEF BookedAs
<1>4. Update(row, x.text, x.num, a) = [row EXCEPT !.text = f, !.num = g, !.ask = a]
  BY DEF Update
<1> HIDE DEF f, g
<1>5. Update(row, x.text, x.num, a) = [row EXCEPT !.text = x.text, !.num = g, !.ask = a]
  BY <1>2, <1>4
<1> QED BY <1>1, <1>3, <1>5 DEF RowType

\* End: the update makes the row the program's copy.
LEMMA EndStep == ASSUME TablesInv, NEW t \in Trades, End(t) PROVE TablesInv'
<1> DEFINE x == tx[t]
<1>0. TablesType /\ pc[t] \in Running /\ pc[t] # "idle" /\ UNCHANGED <<dirs, settled>>
  BY DEF TablesInv, End, Running
<1>1. x \in TxType /\ x.side \in Sides /\ x.sess \in Sess /\ TradeOK(t) /\ Row(t) \in RowType
  BY <1>0, Begun
<1>2. PICK st \in {"failed", "done"} : tx' = [tx EXCEPT ![t].text.status = st]
  BY DEF End
<1> DEFINE y == [x EXCEPT !.text = [x.text EXCEPT !.status = st]]
<1>3. tx' = [tx EXCEPT ![t] = y]
  BY <1>2
<1>4. [x.text EXCEPT !.status = st] \in TextType /\ x.text \in TextType
  BY <1>1 DEF TxType, TextType
<1>5. /\ y \in TxType /\ y.side = x.side /\ y.sess = x.sess /\ y.params = x.params
      /\ y.text = [x.text EXCEPT !.status = st] /\ y.want = x.want /\ y.num = x.num
  BY <1>1, <1>4 DEF TxType
<1>6. y.text.status = st /\ y.text.alice = x.text.alice /\ y.text.bob = x.text.bob /\ y.text.root = x.text.root
  <2> HIDE DEF y
  <2>1. \A v \in TextType : /\ [v EXCEPT !.status = st].status = st /\ [v EXCEPT !.status = st].alice = v.alice
                            /\ [v EXCEPT !.status = st].bob = v.bob /\ [v EXCEPT !.status = st].root = v.root
    BY DEF TextType
  <2> QED BY <1>4, <1>5, <2>1
<1> HIDE DEF y
<1>7. tx' \in [Trades -> TxType] /\ tx'[t] = y /\ \A u \in Trades : u # t => tx'[u] = tx[u]
  BY <1>0, <1>3, <1>5 DEF TablesType
<1>8. CASE Fault /\ txMap' = [txMap EXCEPT ![y.side] = @ \cup {y.sess}] /\ Goto(t, "unsaved") /\ UNCHANGED table
  <2>1. faults' \in 0..MaxFaults
    BY <1>0, <1>8, FaultBound DEF TablesType
  <2>2. /\ pc' \in [Trades -> Labels] /\ pc'[t] = "unsaved"
        /\ \A u \in Trades : u # t => pc'[u] = pc[u]
    BY <1>0, <1>8 DEF Goto, TablesType, Labels
  <2>3. txMap' \in [Sides -> SUBSET Sess]
    BY <1>0, <1>1, <1>5, <1>8 DEF TablesType
  <2>4. TablesType'
    BY <1>0, <1>7, <1>8, <2>1, <2>2, <2>3 DEF TablesType
  <2>5. Row(t)' = Row(t)
    BY <1>5, <1>7, <1>8 DEF Row
  <2>6. TradeOK(t)'
    BY <1>0, <1>1, <1>5, <1>6, <1>7, <2>2, <2>5 DEF TradeOK, Names, Running
  <2> QED BY <1>0, <1>5, <1>6, <1>7, <1>8, <2>2, <2>4, <2>6, OwnRowOnly
<1>9. CASE /\ table' = [table EXCEPT ![y.side][y.sess] =
                                IF y.side = "Alice" THEN updateAliceTxToDB(@, y) ELSE updateBobTxToDB(@, y)]
           /\ txMap' = [txMap EXCEPT ![y.side] = @ \ {y.sess}]
           /\ Goto(t, "ended")
           /\ UNCHANGED faults
  <2>1. PICK new : new = IF y.side = "Alice" THEN updateAliceTxToDB(Row(t), y) ELSE updateBobTxToDB(Row(t), y)
    OBVIOUS
  <2>2. /\ Row(t).there /\ Row(t).text = x.text /\ Row(t).params = x.params
        /\ \A c \in NumCols : x.num[c] = 0 => Row(t).num[c] = BookedAs(x, c)
    BY <1>0, <1>1 DEF TradeOK
  <2>3. /\ new \in RowType /\ new.there /\ new.text = y.text /\ new.params = y.params
        /\ \A c \in NumCols : new.num[c] = BookedAs(y, c)
    <3>1. PICK a \in Nat : new = Update(Row(t), y.text, y.num, a)
      BY <1>5, <2>1, AskType DEF updateAliceTxToDB, updateBobTxToDB
    <3>2. PICK row \in RowType : row = Row(t)
      BY <1>1
    <3>3. /\ y \in TxType /\ row.there /\ row.params = y.params
          /\ y.text.status = st /\ y.text.alice = row.text.alice /\ y.text.bob = row.text.bob
          /\ y.text.root = row.text.root /\ \A c \in NumCols : y.num[c] = 0 => row.num[c] = BookedAs(y, c)
      BY <1>5, <1>6, <2>2, <3>2 DEF BookedAs
    <3>4. new = Update(row, y.text, y.num, a)
      BY <3>1, <3>2
    <3> QED BY <3>3, <3>4, UpdatedRow
  <2>4. table' = [table EXCEPT ![x.side][x.sess] = new]
    BY <1>5, <1>9, <2>1 DEF Row
  <2>5. /\ table' \in [Sides -> [Sess -> RowType]] /\ table'[x.side][x.sess] = new
        /\ \A d \in Sides, s \in Sess : d # x.side \/ s # x.sess => table'[d][s] = table[d][s]
    BY <1>0, <1>1, <2>3, <2>4 DEF TablesType
  <2>6. /\ pc' \in [Trades -> Labels] /\ pc'[t] = "ended"
        /\ \A u \in Trades : u # t => pc'[u] = pc[u]
    BY <1>0, <1>9 DEF Goto, TablesType, Labels
  <2>7. txMap' \in [Sides -> SUBSET Sess]
    BY <1>0, <1>9 DEF TablesType
  <2>8. TablesType'
    BY <1>0, <1>7, <1>9, <2>5, <2>6, <2>7 DEF TablesType
  <2>9. Row(t)' = new
    BY <1>5, <1>7, <2>5 DEF Row
  <2>10. TradeOK(t)'
    BY <1>0, <1>1, <1>5, <1>7, <2>3, <2>6, <2>9, SMTT(40) DEF TradeOK, Names, Running
  <2> QED BY <1>0, <1>5, <1>6, <1>7, <2>5, <2>6, <2>8, <2>10, OwnRowOnly
<1> QED BY <1>7, <1>8, <1>9 DEF End

\* A settlement is made from a row, and the row belongs to a sale.
LEMMA WithdrawStep == ASSUME TablesInv, NEW s \in Sess, WithdrawFromTx(s) PROVE TablesInv'
<1> DEFINE row == table["Alice"][s]
           load == loadAliceFromDB(s)
<1>1. row \in RowType
  BY DEF TablesInv, TablesType, Sides
<1>2. /\ load.found = row.there /\ load.tx.text = row.text /\ load.tx.params = row.params
  <2>1. NoTx \in TxType
    BY NoTypes
  <2>2. /\ [NoTx EXCEPT !.side = "Alice", !.sess = s, !.text = row.text, !.num = row.num,
                        !.params = row.params].text = row.text
        /\ [NoTx EXCEPT !.side = "Alice", !.sess = s, !.text = row.text, !.num = row.num,
                        !.params = row.params].params = row.params
    BY <2>1 DEF TxType
  <2> QED BY <2>2 DEF loadAliceFromDB
<1> HIDE DEF load
<1>3. /\ row.there /\ row.params.subMode = "complaint"
      /\ settled' = settled \cup {[sess |-> s, alice |-> row.text.alice, bob |-> row.text.bob]}
      /\ UNCHANGED <<pc, tx, txMap, dirs, table, faults>>
  BY <1>2 DEF WithdrawFromTx, NeedsSettle, load
<1>4. PICK t \in Trades : pc[t] # "idle" /\ tx[t].side = "Alice" /\ tx[t].sess = s
  BY <1>3 DEF TablesInv, RowsOwned, Sides
<1>5. Names(row, tx[t])
  BY <1>3, <1>4 DEF TablesInv, TradeOK, Row
<1>6. SettlesItsSale'
  <2> SUFFICES ASSUME NEW c \in settled'
               PROVE  \E u \in Trades : /\ pc[u] # "idle" /\ tx[u].side = "Alice" /\ tx[u].sess = c.sess
                                        /\ tx[u].text.alice = c.alice /\ tx[u].text.bob = c.bob
                                        /\ tx[u].params.subMode = "complaint"
    BY <1>3 DEF SettlesItsSale
  <2>1. CASE c \in settled
    BY <2>1 DEF TablesInv, SettlesItsSale
  <2>2. CASE c = [sess |-> s, alice |-> row.text.alice, bob |-> row.text.bob]
    <3>1. c.sess = s /\ c.alice = row.text.alice /\ c.bob = row.text.bob
      BY <2>2
    <3> QED BY <1>3, <1>4, <1>5, <3>1 DEF Names
  <2> QED BY <1>3, <2>1, <2>2
<1>7. TablesType'
  <2>1. \A c \in settled' : c.sess \in Sess
    BY <1>3 DEF TablesInv, TablesType
  <2> QED BY <1>3, <2>1 DEF TablesInv, TablesType
<1> QED BY <1>3, <1>6, <1>7 DEF TablesInv, OneTradePerRow, TradeOK, RowsOwned, Row

\* Crash: the tables stay, and no trade becomes idle again.
LEMMA CrashStep == ASSUME TablesInv, Crash PROVE TablesInv'
<1>0. TablesType /\ UNCHANGED <<tx, dirs, table, settled>>
  BY DEF TablesInv, Crash
<1>1. pc' \in [Trades -> Labels]
  BY <1>0 DEF Crash, TablesType, Labels
<1>2. \A t \in Trades : (pc'[t] = pc[t] \/ pc'[t] = "lost") /\ (pc'[t] = "idle" <=> pc[t] = "idle")
  BY DEF Crash
<1>3. faults' \in 0..MaxFaults
  BY <1>0, FaultBound DEF Crash, TablesType
<1>4. TablesType'
  BY <1>0, <1>1, <1>3 DEF TablesType, Crash
<1>5. OneTradePerRow' /\ RowsOwned' /\ SettlesItsSale'
  BY <1>0, <1>2, SMTT(40) DEF TablesInv, OneTradePerRow, RowsOwned, SettlesItsSale
<1>6. ASSUME NEW t \in Trades PROVE TradeOK(t)'
  BY <1>0, <1>2 DEF TablesInv, TradeOK, Row, Running
<1> QED BY <1>4, <1>5, <1>6 DEF TablesInv

-----------------------------------------------------------------------------
\* Init establishes TablesInv and every step of a trade, of a settlement and of a
\* restart keeps it.
THEOREM TablesInvariant == Spec => []TablesInv
<1>1. Init => TablesInv
  <2> SUFFICES ASSUME Init PROVE TablesInv
    OBVIOUS
  <2>1. MaxFaults \in Nat
    BY TablesAssumption
  <2>2. 0 \in 0..MaxFaults
    BY <2>1
  <2>3. TablesType
    BY <2>2, NoTypes DEF Init, TablesType, Labels
  <2>4. \A d \in Sides, s \in Sess : ~table[d][s].there
    BY NoTypes DEF Init
  <2> QED BY <2>3, <2>4 DEF Init, TablesInv, OneTradePerRow, TradeOK, RowsOwned, SettlesItsSale
<1>2. TablesInv /\ [Next]_vars => TablesInv'
  <2> SUFFICES ASSUME TablesInv, [Next]_vars PROVE TablesInv'
    BY Zenon
  <2>1. CASE UNCHANGED vars
    BY <2>1 DEF vars, TablesInv, TablesType, OneTradePerRow, TradeOK, Row, RowsOwned, SettlesItsSale
  <2> QED
    BY <2>1, StartStep, InsertStep, NewSessStep, PriceStep, CountFailsStep, EndStep, WithdrawStep, CrashStep DEF Next
<1> QED BY <1>1, <1>2, PTL DEF Spec

\* The types of the variables.
THEOREM TablesTypes == Spec => []TypeOK
<1>1. TablesInv => TypeOK
  BY DEF TablesInv, TablesType, TypeOK, TxType, RowType
<1> QED BY <1>1, TablesInvariant, PTL

\* Two trades never write the same row of AliceTx or BobTx: os.Mkdir in preAliceTx and
\* preBobConn refuses an id that has a directory, also after a restart.
THEOREM RowsNotShared == Spec => []OneTradePerRow
<1>1. TablesInv => OneTradePerRow
  BY DEF TablesInv
<1> QED BY <1>1, TablesInvariant, PTL

\* updateAliceTxToDB and updateBobTxToDB: although zero columns are not updated, and the
\* buyer's row was inserted without the unit price, what is loaded after a program has
\* returned is the transaction as the program left it, but for a sale without a count,
\* whose row keeps the one it was inserted with.
THEOREM BooksAreTrue == Spec => []RowIsTrade
<1>1. TablesInv => RowIsTrade
  <2> SUFFICES ASSUME TablesInv, NEW t \in Trades, pc[t] = "ended",
                      NEW x, x = tx[t],
                      NEW y, y = IF x.side = "Bob" THEN loadBobTxFromDB(x.sess) ELSE loadAliceFromDB(x.sess).tx
               PROVE  /\ table[x.side][x.sess].there
                      /\ y.text = x.text /\ y.params = x.params
                      /\ \A c \in NumCols : y.num[c] = BookedAs(x, c)
                      /\ x.side = "Bob" => y \in loadBobTxListFromDB
    BY DEF RowIsTrade, NoNum, NumCols
  <2>1. x.side \in Sides /\ x.sess \in Sess /\ Row(t) \in RowType /\ TradeOK(t)
    BY Begun
  <2>2. /\ Row(t).there /\ Row(t).text = x.text /\ Row(t).params = x.params
        /\ \A c \in NumCols : Row(t).num[c] = BookedAs(x, c)
    BY <2>1 DEF TradeOK
  <2>3. NoTx \in TxType
    BY NoTypes
  <2>4. CASE x.side = "Bob"
    <3> DEFINE a == [g \in Programs |-> IF g = FieldsOf(Row(t).params) THEN Row(t).ask ELSE 0]
    <3> HIDE DEF a
    <3>1. y = [NoTx EXCEPT !.side = "Bob", !.sess = x.sess, !.text = Row(t).text, !.num = Row(t).num,
                           !.params = Row(t).params, !.asked = a]
      BY <2>4 DEF loadBobTxFromDB, Row, a
    <3>2. y.text = Row(t).text /\ y.num = Row(t).num /\ y.params = Row(t).params
      BY <2>3, <3>1 DEF TxType
    <3>3. y \in loadBobTxListFromDB
      BY <2>1, <2>2, <2>4 DEF loadBobTxListFromDB, Row
    <3> QED BY <2>2, <3>2, <3>3 DEF Row
  <2>5. CASE x.side # "Bob"
    <3>1. x.side = "Alice"
      BY <2>1, <2>5 DEF Sides
    <3>2. y = [NoTx EXCEPT !.side = "Alice", !.sess = x.sess, !.text = Row(t).text, !.num = Row(t).num,
                           !.params = Row(t).params]
      BY <2>5, <3>1 DEF loadAliceFromDB, Row
    <3>3. y.text = Row(t).text /\ y.num = Row(t).num /\ y.params = Row(t).params
      BY <2>3, <3>2 DEF TxType
    <3> QED BY <2>2, <2>5, <3>3 DEF Row
  <2> QED BY <2>4, <2>5
<1> QED BY <1>1, TablesInvariant, PTL

\* AliceWithdrawFromTxAPIHandler settles a complaint sale of this node with the parties
\* of that sale.
THEOREM SettlementsAreSales == Spec => []SettlesItsSale
<1>1. TablesInv => SettlesItsSale
  BY DEF TablesInv
<1> QED BY <1>1, TablesInvariant, PTL
=============================================================================
