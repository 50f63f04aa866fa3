--------------------------- MODULE MCPodPublish -----------------------------
(***************************************************************************)
(* Small instances of PodPublish: four requests of any kind on one data    *)
(* file, of every mode, with sub-modes that fit it and that do not.        *)
(***************************************************************************)
EXTENDS PodPublish, TLC

CONSTANTS h1, h2, h3, h4

MCReqs == {h1, h2, h3, h4}
MCSubModeLists == {<<"complaint">>, <<"vrf", "atomic_swap">>}
MCSymmetry == Permutations(MCReqs)
=============================================================================
