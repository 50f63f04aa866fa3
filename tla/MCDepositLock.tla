--------------------------- MODULE MCDepositLock ----------------------------
(***************************************************************************)
(* Small instances of DepositLock: three trades of two different prices    *)
(* and a deposit that covers some of them, not all.                        *)
(***************************************************************************)
EXTENDS DepositLock, FiniteSetsExt

CONSTANTS s1, s2, s3

MCSessions == {s1, s2, s3}
MCPrice == [s \in MCSessions |-> IF s = s3 THEN 2 ELSE 1]
MCTotal == [T \in SUBSET MCSessions |-> MapThenSumSet(LAMBDA s : MCPrice[s], T)]
=============================================================================
