------------------------ MODULE MCConnectionManager ------------------------
(* Instances of ConnectionManager for TLC.                                  *)
EXTENDS ConnectionManager

CONSTANTS r1, r2, o1, o2, main, log1, s1, s2, s3, x0, x1, x2, x3, x4

TwoRequests == {r1, r2}
OneOp == {o1}
TwoOps == {o1, o2}
BothNames == {main, log1}
\* one connection to main, one for every request to the other database
ThreeSessions == {s1, s2, s3}
ScarceMain == [s \in {s1, s2, s3} |-> IF s = s1 THEN main ELSE log1]
Dictionaries == {x0, x1, x2, x3, x4}
=============================================================================
