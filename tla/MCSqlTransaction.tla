-------------------------- MODULE MCSqlTransaction --------------------------
(* Instance of SqlTransaction for TLC.                                      *)
EXTENDS SqlTransaction, TLC

CONSTANTS t1, t2, t3, d1, d2

ThreeTxns == {t1, t2, t3}
TwoConns == {d1, d2}

Symmetry == Permutations(Txns) \cup Permutations(Conns)
=============================================================================
