------------------------------ MODULE MCLedger ------------------------------
(* A small instance of Ledger: two uploads replay one grant and f3 has its    *)
(* own; the quota has room for some of them but not all.                      *)
EXTENDS Ledger, FiniteSetsExt, TLC

CONSTANTS f3, n1, n2

ReplayNonce == [f \in Files |-> IF f = f3 THEN n2 ELSE n1]
UnequalSize == [f \in Files |-> IF f = f3 THEN 2 ELSE 1]
SumOfSizes == [S \in SUBSET Files |-> MapThenSumSet(LAMBDA f : UnequalSize[f], S)]
=============================================================================
