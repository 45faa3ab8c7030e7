------------------------ MODULE MCSqlConnectionPool ------------------------
(* Instances of SqlConnectionPool for TLC.                                  *)
EXTENDS SqlConnectionPool, TLC

CONSTANTS c1, c2, c3, w1, w2, w3, w4, h1, h2, h3, h4, f1

TwoCalls == {c1, c2}
ThreeCalls == {c1, c2, c3}
ThreeConns == {w1, w2, w3}
FourConns == {w1, w2, w3, w4}
TwoHandles == {h1, h2}
ThreeHandles == {h1, h2, h3}
FourHandles == {h1, h2, h3, h4}
OneFile == {f1}

Symmetry == Permutations(Calls) \cup Permutations(Conns)
              \cup Permutations(Handles) \cup Permutations(Files)
=============================================================================
