---------------------------- MODULE MCRlpxConn ------------------------------
(***************************************************************************)
(* Instance of RlpxConn.  The sizes of a header, of an encoded size and of *)
(* a code are the real ones; packets are cut to what the smallest frame    *)
(* that holds a size allows, as tight as 16777210 is in 24 bits.           *)
(***************************************************************************)
EXTENDS RlpxConn

CONSTANTS k1, k2, k3

MCKeys == {<<"key", k1>>, <<"key", k2>>, <<"key", k3>>}
=============================================================================
