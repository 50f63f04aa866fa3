------------------------------ MODULE PodModes ------------------------------
(***************************************************************************)
(* Trading modes.  A trade is described by a mode, a sub-mode and the OT   *)
(* flag; the session messages carry the three as one number.  This module  *)
(* holds the two conversions, the choice Alice makes from a request and    *)
(* the dispatch of both sides to the transaction program of a mode         *)
(* (connection.go, seller_tx.go, api.go, net/node.go).                     *)
(***************************************************************************)
EXTENDS Naturals, Sequences

DataModes == {"plain", "table"}
SubModes == {"complaint", "atomic_swap", "atomic_swap_vc", "vrf"}

\* What both sides keep of the trade once it is agreed on.
Params == [mode : DataModes, subMode : SubModes, ot : BOOLEAN]

\* The ten values ModePlainComplaintPoD .. ModeTableAtomicSwapVcPoD; modeMax
\* stands for the error modeToInt returns.
NetModes == 0..9
modeMax == 10

-----------------------------------------------------------------------------
modeToInt(p) ==
    IF p.mode = "plain"
    THEN CASE p.subMode = "complaint"      -> IF p.ot THEN 1 ELSE 0
           [] p.subMode = "atomic_swap"    -> 2
           [] p.subMode = "atomic_swap_vc" -> 3
           [] OTHER                        -> modeMax
    ELSE CASE p.subMode = "complaint"      -> IF p.ot THEN 7 ELSE 6
           [] p.subMode = "atomic_swap"    -> 8
           [] p.subMode = "atomic_swap_vc" -> 9
           [] p.subMode = "vrf"            -> IF p.ot THEN 5 ELSE 4

modeFromInt(n) ==
    [mode    |-> IF n \in 0..3 THEN "plain" ELSE "table",
     subMode |-> CASE n \in {0, 1, 6, 7} -> "complaint"
                   [] n \in {2, 8}       -> "atomic_swap"
                   [] n \in {3, 9}       -> "atomic_swap_vc"
                   [] n \in {4, 5}       -> "vrf",
     ot      |-> n \in {1, 5, 7}]

\* Node.isOTMode: the modes that negotiate keys before the request.
isOTMode(n) == n \in {1, 5, 7}

-----------------------------------------------------------------------------
(***************************************************************************)
(* preAliceTx.  offer is what Alice published (bulletin and extra.json:    *)
(* data mode, the list of sub-modes, the lowest unit price, whether the    *)
(* contract still reports the data as "OK"); re is the buyer's request.    *)
(***************************************************************************)
Offer == [mode : DataModes, subModes : Seq(SubModes), floor : Nat, onSale : BOOLEAN]
Request == [price : Nat, subMode : SubModes \cup {""}, ot : BOOLEAN]

Acceptable(offer, re) ==
    /\ offer.floor <= re.price
    /\ offer.subModes # << >>
    /\ offer.onSale

\* Mutant of preAliceTx: the OT flag of the request survives an atomic swap.
preAliceTxKeepsOT(offer, re) ==
    LET offered == {offer.subModes[i] : i \in DOMAIN offer.subModes}
    IN  [mode    |-> offer.mode,
         subMode |-> IF re.subMode \in offered THEN re.subMode ELSE offer.subModes[1],
         ot      |-> re.ot]

\* The requested sub-mode when it is offered, the first one offered otherwise;
\* the atomic-swap sub-modes have no OT variant.
preAliceTx(offer, re) ==
    LET offered == {offer.subModes[i] : i \in DOMAIN offer.subModes}
        sub     == IF re.subMode \in offered THEN re.subMode ELSE offer.subModes[1]
    IN  [mode    |-> offer.mode,
         subMode |-> sub,
         ot      |-> re.ot /\ sub \notin {"atomic_swap", "atomic_swap_vc"}]

-----------------------------------------------------------------------------
\* The transaction programs AliceTxFor.. and BobTxFor..; "" is the fall-through
\* of the dispatch.
Programs == {"PC", "POC", "PAS", "PASVC", "TC", "TOC", "TAS", "TASVC", "TQ", "TOQ"}

\* Mutant of AliceTxFor: the OT query is dispatched to the plain query.
AliceTxForNoTOQ(p) ==
    CASE p.subMode = "complaint"      -> IF p.mode = "plain" THEN IF p.ot THEN "POC" ELSE "PC"
                                         ELSE IF p.ot THEN "TOC" ELSE "TC"
      [] p.subMode = "atomic_swap"    -> IF p.mode = "plain" THEN "PAS" ELSE "TAS"
      [] p.subMode = "atomic_swap_vc" -> IF p.mode = "plain" THEN "PASVC" ELSE "TASVC"
      [] OTHER                        -> IF p.mode = "plain" THEN "" ELSE "TQ"

\* AliceAcceptTx
AliceTxFor(p) ==
    IF p.mode = "plain"
    THEN CASE p.subMode = "complaint"      -> IF p.ot THEN "POC" ELSE "PC"
           [] p.subMode = "atomic_swap"    -> "PAS"
           [] p.subMode = "atomic_swap_vc" -> "PASVC"
           [] OTHER                        -> ""
    ELSE CASE p.subMode = "complaint"      -> IF p.ot THEN "TOC" ELSE "TC"
           [] p.subMode = "atomic_swap"    -> "TAS"
           [] p.subMode = "atomic_swap_vc" -> "TASVC"
           [] p.subMode = "vrf"            -> IF p.ot THEN "TOQ" ELSE "TQ"

\* BobPurchaseDataAPIHandler
BobTxFor(p) ==
    IF p.mode = "plain"
    THEN CASE p.subMode = "complaint"      -> IF p.ot THEN "POC" ELSE "PC"
           [] p.subMode = "atomic_swap"    -> "PAS"
           [] p.subMode = "atomic_swap_vc" -> "PASVC"
           [] OTHER                        -> ""
    ELSE CASE p.subMode = "complaint"      -> IF p.ot THEN "TOC" ELSE "TC"
           [] p.subMode = "atomic_swap"    -> "TAS"
           [] p.subMode = "atomic_swap_vc" -> "TASVC"
           [] p.subMode = "vrf"            -> IF p.ot THEN "TOQ" ELSE "TQ"

OTPrograms == {"POC", "TOC", "TOQ"}
=============================================================================
