------------------------------- MODULE MCHome -------------------------------
EXTENDS Home, TLC
CONSTANTS p1, p2, a, b, c, u1, u2
McProcs == {p1, p2}
McNames == {a, b, c}
McUrls == {u1, u2}
McCaps == {0, 2}
Symmetry == Permutations(McProcs) \cup Permutations(McNames) \cup Permutations(McUrls)
=============================================================================
