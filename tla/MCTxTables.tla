---------------------------- MODULE MCTxTables ------------------------------
(***************************************************************************)
(* Instance of TxTables: a complaint and a query trade, two ids.           *)
(***************************************************************************)
EXTENDS TxTables, TLC

CONSTANTS t1, t2

MCTrades == {t1, t2}
MCAgreed == {[mode |-> "plain", subMode |-> "complaint", ot |-> FALSE],
             [mode |-> "table", subMode |-> "vrf", ot |-> TRUE]}
Symm == Permutations(MCTrades)
=============================================================================
