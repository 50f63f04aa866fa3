----------------------------- MODULE MCPodTrade -----------------------------
(***************************************************************************)
(* Small instances of PodTrade: all ten programs, a deposit that covers    *)
(* the price or does not, a receipt over another price than Alice's, and   *)
(* a clock that reaches the end of the undeposit period and the expiry of  *)
(* a receipt.                                                              *)
(***************************************************************************)
EXTENDS PodTrade

MCProgs == Programs
=============================================================================
