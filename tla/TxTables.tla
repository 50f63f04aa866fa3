------------------------------ MODULE TxTables ------------------------------
(***************************************************************************)
(* The transaction tables of a node that sells and buys (db.go), and the   *)
(* settlement of a sale, which works from them                             *)
(* (AliceWithdrawFromTxAPIHandler).  A trade makes its directory, inserts  *)
(* its row, runs its program and updates the row from the program's copy   *)
(* of the transaction when the program returns.  The session id is the     *)
(* primary key of both tables; trades run concurrently, the database may   *)
(* fail and the process may stop.  A count may be zero: an empty demand,   *)
(* or a request that the seller cannot count.                              *)
(*                                                                         *)
(* What a buyer asked for (demands, phantoms, key values) is one value per *)
(* program's struct, 0 when the struct is empty.  Columns all functions    *)
(* treat alike stand together: text for the strings, num for the numbers.  *)
(***************************************************************************)
EXTENDS PodModes, FiniteSets

CONSTANTS
    Trades,       \* the trades of this node, by number
    Sess,         \* session ids
    Addrs,        \* addresses this node has had
    Peers,        \* addresses of others
    Asks,         \* what a buyer may ask for
    Prices,       \* unit prices
    Agreed,       \* modes, sub-modes and OT flags trades are agreed on
    MaxFaults

ASSUME TablesAssumption ==
    /\ Prices \subseteq Nat /\ Asks \subseteq Nat
    /\ Agreed \subseteq Params /\ (\A p \in Agreed : BobTxFor(p) # "")
    /\ MaxFaults \in Nat

Sides == {"Alice", "Bob"}

VARIABLES
    pc,        \* the step of each trade
    tx,        \* its copy of the transaction
    txMap,     \* AliceTxMap and BobTxMap: ids with an entry, in memory
    dirs,      \* dirs[side]: ids with a transaction directory
    table,     \* table[side]: AliceTx and BobTx, by session id
    settled,   \* SettleComplaintDeal transactions sent
    faults

vars == <<pc, tx, txMap, dirs, table, settled, faults>>

NoText == [status |-> "", alice |-> "", bob |-> "", root |-> ""]
NoNum == [price |-> 0, unit |-> 0, count |-> 0, expire |-> 0]
NoRow == [there |-> FALSE, text |-> NoText, num |-> NoNum, params |-> CHOOSE p \in Params : TRUE, ask |-> 0]
NoTx == [side |-> "", sess |-> 0, text |-> NoText, num |-> NoNum, params |-> NoRow.params,
         want |-> 0, asked |-> [g \in Programs |-> 0]]

Init ==
    /\ pc = [t \in Trades |-> "idle"]
    /\ tx = [t \in Trades |-> NoTx]
    /\ txMap = [d \in Sides |-> {}]
    /\ dirs = [d \in Sides |-> {}]
    /\ table = [d \in Sides |-> [s \in Sess |-> NoRow]]
    /\ settled = {}
    /\ faults = 0

Goto(t, label) == pc' = [pc EXCEPT ![t] = label]
Fault == faults < MaxFaults /\ faults' = faults + 1

-----------------------------------------------------------------------------
(***************************************************************************)
(* db.go                                                                   *)
(***************************************************************************)
\* The struct whose fields the functions of BobTx read and write.
FieldsOf(p) ==
    IF p.mode = "table"
    THEN CASE p.subMode = "complaint"      -> IF p.ot THEN "POC" ELSE "PC"
           [] p.subMode = "atomic_swap"    -> "PAS"
           [] p.subMode = "atomic_swap_vc" -> "PASVC"
           [] OTHER                        -> ""
    ELSE CASE p.subMode = "complaint"      -> IF p.ot THEN "TOC" ELSE "TC"
           [] p.subMode = "atomic_swap"    -> "TAS"
           [] p.subMode = "atomic_swap_vc" -> "TASVC"
           [] p.subMode = "vrf"            -> IF p.ot THEN "TOQ" ELSE "TQ"

Ask(x) == IF FieldsOf(x.params) = "" THEN 0 ELSE x.asked[FieldsOf(x.params)]

\* The row of a new purchase; the unit price is not copied.
insertBobTxToDB(x) ==
    [there |-> TRUE, text |-> x.text, num |-> [x.num EXCEPT !.unit = 0],
     params |-> x.params, ask |-> Ask(x)]

insertAliceTxToDB(x) ==
    [there |-> TRUE, text |-> x.text, num |-> x.num, params |-> x.params, ask |-> 0]

\* Update of the library (external): columns whose new value is zero keep the old one,
\* and nothing happens without a row.
Update(row, text, num, ask) ==
    IF row.there
    THEN [row EXCEPT
            !.text = [c \in DOMAIN @ |-> IF text[c] = "" THEN @[c] ELSE text[c]],
            !.num = [c \in DOMAIN @ |-> IF num[c] = 0 THEN @[c] ELSE num[c]],
            !.ask = ask]
    ELSE row

updateBobTxToDB(row, x) == Update(row, x.text, x.num, Ask(x))

\* Mutant of updateAliceTxToDB: the price is not copied.
updateAliceTxToDBNoPrice(row, x) == Update(row, x.text, [x.num EXCEPT !.price = 0], 0)

updateAliceTxToDB(row, x) == Update(row, x.text, x.num, 0)

\* A transaction read from a row of BobTx.
loadBobTxFromDB(s) ==
    LET row == table["Bob"][s]
    IN  [NoTx EXCEPT !.side = "Bob", !.sess = s, !.text = row.text, !.num = row.num,
                     !.params = row.params,
                     !.asked = [g \in Programs |-> IF g = FieldsOf(row.params) THEN row.ask ELSE 0]]

\* All of them.
loadBobTxListFromDB == {loadBobTxFromDB(s) : s \in {i \in Sess : table["Bob"][i].there}}

\* A transaction read from a row of AliceTx, and whether there is one.
loadAliceFromDB(s) ==
    LET row == table["Alice"][s]
    IN  [found |-> row.there,
         tx |-> [NoTx EXCEPT !.side = "Alice", !.sess = s, !.text = row.text, !.num = row.num,
                             !.params = row.params]]

-----------------------------------------------------------------------------
(***************************************************************************)
(* A trade.                                                                *)
(***************************************************************************)
\* Mutant of MakeDir: a directory that exists is used.
MakeDirAll(side, s) == TRUE

\* os.Mkdir, in preAliceTx and in preBobConn
MakeDir(side, s) == s \notin dirs[side]

\* A session is established: the parties, the parameters and the unit price are
\* known; the seller lists the trade before its row is inserted.
Start(t) ==
    /\ pc[t] = "idle"
    /\ \E side \in Sides, s \in Sess, own \in Addrs, peer \in Peers, p \in Agreed, u \in Prices, a \in Asks :
            /\ MakeDir(side, s)
            /\ dirs' = [dirs EXCEPT ![side] = @ \cup {s}]
            /\ txMap' = IF side = "Alice" THEN [txMap EXCEPT ![side] = @ \cup {s}] ELSE txMap
            /\ tx' = [tx EXCEPT ![t] = [NoTx EXCEPT
                    !.side = side, !.sess = s, !.params = p, !.want = a,
                    !.text = [status |-> "start", root |-> "root",
                              alice |-> IF side = "Alice" THEN own ELSE peer,
                              bob |-> IF side = "Alice" THEN peer ELSE own],
                    !.num = [NoNum EXCEPT !.unit = u, !.count = IF side = "Alice" THEN 1 ELSE 0]]]
    /\ Goto(t, "insert")
    /\ UNCHANGED <<table, settled, faults>>

\* A query is counted as one, whatever it asks for.
Counted(x) == x.params.subMode # "vrf"

\* The row is inserted (Insert fails on a key that is there); the buyer's handler
\* then counts what is asked for.  A failure ends the trade before its program.
Insert(t) ==
    /\ pc[t] = "insert"
    /\ LET x == tx[t]
       IN  \/ /\ table' = [table EXCEPT ![x.side][x.sess] =
                    IF @.there THEN @
                    ELSE IF x.side = "Alice" THEN insertAliceTxToDB(x) ELSE insertBobTxToDB(x)]
              /\ tx' = IF x.side = "Bob" THEN [tx EXCEPT ![t].num.count = IF Counted(x) THEN x.want ELSE 1] ELSE tx
              /\ Goto(t, IF table[x.side][x.sess].there THEN "refused" ELSE "program")
              /\ UNCHANGED faults
           \/ /\ Fault
              /\ Goto(t, "refused")
              /\ UNCHANGED <<tx, table>>
    /\ UNCHANGED <<txMap, dirs, settled>>

\* ..NewSess..: what is asked for is kept in the program's struct.  The buyer's program
\* makes its session itself; the seller's is made before the program, which does not
\* run when that fails: the row and the entry stay as they are.
NewSess(t) ==
    /\ pc[t] = "program"
    /\ \/ /\ tx' = [tx EXCEPT ![t].asked[BobTxFor(tx[t].params)] =
                            IF tx[t].side = "Bob" THEN tx[t].want ELSE 0]
          /\ Goto(t, "session")
       \/ /\ tx[t].side = "Alice"
          /\ Goto(t, "refused")
          /\ UNCHANGED tx
    /\ UNCHANGED <<txMap, dirs, table, settled, faults>>

\* The request is sent or received, the seller counts it, both price it and agree on
\* the expiry of the receipt.  (A query's price is the unit price, one times it.)
Price(t) ==
    /\ pc[t] = "session"
    /\ \E n \in IF tx[t].side = "Alice" /\ Counted(tx[t]) THEN Asks ELSE {tx[t].num.count} :
            tx' = [tx EXCEPT ![t].num = [price |-> n * tx[t].num.unit, unit |-> tx[t].num.unit,
                                         count |-> n, expire |-> 1]]
    /\ txMap' = [txMap EXCEPT ![tx[t].side] = @ \cup {tx[t].sess}]
    /\ Goto(t, "priced")
    /\ UNCHANGED <<dirs, table, settled, faults>>

\* calcuCntfor..: a request that cannot be read or counted leaves the count at zero,
\* and the seller's program returns.
CountFails(t) ==
    /\ pc[t] = "session" /\ tx[t].side = "Alice" /\ Counted(tx[t])
    /\ tx' = [tx EXCEPT ![t].num.count = 0]
    /\ Goto(t, "uncounted")
    /\ UNCHANGED <<txMap, dirs, table, settled, faults>>

\* The program returns, at any step; its row is updated unless the database fails,
\* and only then its entry deleted.
End(t) ==
    /\ pc[t] \in {"session", "uncounted", "priced"} \/ (pc[t] = "program" /\ tx[t].side = "Bob")
    /\ \E status \in {"failed", "done"} :
            /\ status = "done" => pc[t] = "priced"
            /\ tx' = [tx EXCEPT ![t].text.status = status]
    /\ LET x == tx'[t]
       IN  \/ /\ table' = [table EXCEPT ![x.side][x.sess] =
                                IF x.side = "Alice" THEN updateAliceTxToDB(@, x) ELSE updateBobTxToDB(@, x)]
              /\ txMap' = [txMap EXCEPT ![x.side] = @ \ {x.sess}]
              /\ Goto(t, "ended")
              /\ UNCHANGED faults
           \/ /\ Fault
              /\ txMap' = [txMap EXCEPT ![x.side] = @ \cup {x.sess}]
              /\ Goto(t, "unsaved")
              /\ UNCHANGED table
    /\ UNCHANGED <<dirs, settled>>

\* Mutant of NeedsSettle: every sale is settled.
NeedsSettleAny(x) == TRUE

\* Only complaint trades are settled by a call of the seller.
NeedsSettle(x) == x.params.subMode = "complaint"

\* AliceWithdrawFromTxAPIHandler, settleDealForComplaint
WithdrawFromTx(s) ==
    LET load == loadAliceFromDB(s)
    IN  /\ load.found /\ NeedsSettle(load.tx)
        /\ settled' = settled \cup {[sess |-> s, alice |-> load.tx.text.alice, bob |-> load.tx.text.bob]}
        /\ UNCHANGED <<pc, tx, txMap, dirs, table, faults>>

\* The process stops and is started again: trades under way and the maps are gone.
Crash ==
    /\ Fault
    /\ pc' = [t \in Trades |-> IF pc[t] \in {"insert", "program", "session", "uncounted", "priced"} THEN "lost" ELSE pc[t]]
    /\ txMap' = [d \in Sides |-> {}]
    /\ UNCHANGED <<tx, dirs, table, settled>>

Next ==
    \/ \E t \in Trades : Start(t) \/ Insert(t) \/ NewSess(t) \/ Price(t) \/ CountFails(t) \/ End(t)
    \/ \E s \in Sess : WithdrawFromTx(s)
    \/ Crash

Spec == Init /\ [][Next]_vars

-----------------------------------------------------------------------------
Labels == {"idle", "insert", "program", "session", "uncounted", "priced", "ended", "unsaved", "refused", "lost"}
TextType == [status : {"", "start", "failed", "done"}, alice : Addrs \cup Peers \cup {""},
             bob : Addrs \cup Peers \cup {""}, root : {"", "root"}]
NumType == [price : Nat, unit : Nat, count : Nat, expire : Nat]

\* Types of the variables.
TypeOK ==
    /\ pc \in [Trades -> Labels]
    /\ \A t \in Trades : tx[t].text \in TextType /\ tx[t].num \in NumType /\ tx[t].params \in Params
    /\ txMap \in [Sides -> SUBSET Sess]
    /\ dirs \in [Sides -> SUBSET Sess]
    /\ \A d \in Sides, s \in Sess : table[d][s].text \in TextType /\ table[d][s].num \in NumType
    /\ \A c \in settled : c.sess \in Sess
    /\ faults \in 0..MaxFaults

\* Two trades never write the same row: an id is used by one trade of each side,
\* whatever ran before and after a restart.  (The update goes by session id alone.)
OneTradePerRow ==
    \A t, u \in Trades : t # u /\ pc[t] # "idle" /\ pc[u] # "idle" /\ tx[t].side = tx[u].side
                            => tx[t].sess # tx[u].sess

\* What the books say of a number: the update skips zeros, so that a sale without a
\* count, failed or of an empty demand, keeps the count of one it was inserted with.
BookedAs(x, c) == IF x.side = "Alice" /\ c = "count" /\ x.num[c] = 0 THEN 1 ELSE x.num[c]

\* The row of a trade whose program has returned is the transaction as the program
\* left it, although zero columns are not updated and some were not inserted: a
\* seller's or a buyer's books name the parties, the status, the price, the expiry
\* and, but for a sale that came to none, the count of the trade.
RowIsTrade ==
    \A t \in Trades : pc[t] = "ended" =>
        LET x == tx[t]
            y == IF x.side = "Bob" THEN loadBobTxFromDB(x.sess) ELSE loadAliceFromDB(x.sess).tx
        IN  /\ table[x.side][x.sess].there
            /\ y.text = x.text /\ y.params = x.params
            /\ \A c \in DOMAIN NoNum : y.num[c] = BookedAs(x, c)
            /\ x.side = "Bob" => y \in loadBobTxListFromDB

\* A settlement names a complaint sale of this node, with its parties, and not a
\* purchase of the same id, also after restarts and key changes.
SettlesItsSale ==
    \A c \in settled : \E t \in Trades :
        /\ pc[t] # "idle" /\ tx[t].side = "Alice" /\ tx[t].sess = c.sess
        /\ tx[t].text.alice = c.alice /\ tx[t].text.bob = c.bob
        /\ tx[t].params.subMode = "complaint"
=============================================================================
