------------------------------ MODULE MCPodNet ------------------------------
(***************************************************************************)
(* Small instances of PodNet.  MCOffers publishes every data mode with     *)
(* every list of up to two sub-modes, one offer that has been taken off    *)
(* sale and one without sub-modes; MCWants asks for every sub-mode or      *)
(* none, with and without OT, below and at the lowest price.               *)
(***************************************************************************)
EXTENDS PodNet

MCSessNums == {0, 9, 10, 2048}

MCSubModeLists == {<<s>> : s \in SubModes} \cup {<<s, t>> : s, t \in {"complaint", "atomic_swap", "vrf"}}

MCOffers ==
    [mode : DataModes, subModes : MCSubModeLists, floor : {1}, onSale : {TRUE}]
        \cup [mode : {"plain"}, subModes : {<<>>}, floor : {1}, onSale : {TRUE}]
        \cup [mode : {"table"}, subModes : {<<"vrf">>}, floor : {1}, onSale : {FALSE}]

MCWants == [price : {0, 1}, subMode : SubModes \cup {""}, ot : BOOLEAN]
=============================================================================
