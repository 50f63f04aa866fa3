---------------------------- MODULE FairExchange ----------------------------
(***************************************************************************)
(* What one trade promises, without its programs, messages, statuses and   *)
(* deposit (README.md, requirements {1} and {2}): a key is revealed once,  *)
(* to a buyer who has promised its price and not refused the trade, by a   *)
(* seller who has not withdrawn from it; what a side records at its end is *)
(* so then, stays recorded and stays so.  Module PodTrade implements it.   *)
(* Nothing is promised about when a key is mined, or that it is.           *)
(***************************************************************************)
VARIABLES
    promised,   \* a receipt over the seller's price has left the buyer
    key,        \* the key: "none", "pending" once revealed, "mined" or "reverted"
    good,       \* the key opens what the buyer was sent
    sale,       \* "open", or what the seller records: "delivered" or "withdrawn"
    purchase    \* "open", or what the buyer records: "delivered", "claimed",
                \* "paid" with neither of the two, or "refused"

exchange == <<promised, key, good, sale, purchase>>

Init ==
    /\ promised = FALSE /\ key = "none" /\ good \in BOOLEAN
    /\ sale = "open" /\ purchase = "open"

Promise ==
    /\ ~promised /\ purchase = "open"
    /\ promised' = TRUE
    /\ UNCHANGED <<key, good, sale, purchase>>

Reveal ==
    /\ key = "none" /\ promised
    /\ sale = "open" /\ purchase # "refused"
    /\ key' = "pending"
    /\ UNCHANGED <<promised, good, sale, purchase>>

Settle ==
    /\ key = "pending"
    /\ key' \in {"mined", "reverted"}
    /\ UNCHANGED <<promised, good, sale, purchase>>

SellerEnds ==
    /\ sale = "open"
    /\ \/ key = "mined" /\ sale' = "delivered"
       \/ key = "none" /\ sale' = "withdrawn"
    /\ UNCHANGED <<promised, key, good, purchase>>

BuyerEnds ==
    /\ purchase = "open"
    /\ \/ key = "mined" /\ good /\ purchase' = "delivered"
       \/ key = "mined" /\ ~good /\ purchase' = "claimed"
       \/ key = "mined" /\ purchase' = "paid"
       \/ ~promised /\ purchase' = "refused"
    /\ UNCHANGED <<promised, key, good, sale>>

Next == Promise \/ Reveal \/ Settle \/ SellerEnds \/ BuyerEnds

Spec == Init /\ [][Next]_exchange
=============================================================================
