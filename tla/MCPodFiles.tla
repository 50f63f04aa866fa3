---------------------------- MODULE MCPodFiles ------------------------------
(***************************************************************************)
(* Instance of PodFiles: two trades in each of the ten programs, with one  *)
(* seller or two and one buyer or two, that draw the same session id.      *)
(***************************************************************************)
EXTENDS PodFiles

CONSTANTS A1, A2, B1, B2

MCSellers == {A1, A2}
MCBuyers == {B1, B2}

\* Neither the contract nor the programs tell two sellers, or two buyers, apart: the
\* first trade is that of the first ones.  A rejected secret concerns one trade only: two
\* trades with no party in common are taken with accepted ones.
MCInit == /\ Init /\ seller[1] = A1 /\ buyer[1] = B1
          /\ genuine \/ seller[2] = A1 \/ buyer[2] = B1
MCSpec == MCInit /\ [][Next]_vars /\ Fairness

MCDemands == {<<<<0, 2>>, <<5, 1>>>>}
MCPhantoms == {<<<<0, 2>>, <<5, 1>>, <<7, 3>>>>}
=============================================================================
