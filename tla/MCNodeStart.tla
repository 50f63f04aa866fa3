---------------------------- MODULE MCNodeStart -----------------------------
(***************************************************************************)
(* Instance of NodeStart: two addresses, two keystore files, two keys.     *)
(***************************************************************************)
EXTENDS NodeStart
=============================================================================
