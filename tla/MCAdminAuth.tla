---------------------------- MODULE MCAdminAuth -----------------------------
(***************************************************************************)
(* Instance of AdminAuth: three calls, two amounts.                        *)
(***************************************************************************)
EXTENDS AdminAuth, TLC

CONSTANTS c1, c2, c3

MCCalls == {c1, c2, c3}
Symm == Permutations(MCCalls)
=============================================================================
