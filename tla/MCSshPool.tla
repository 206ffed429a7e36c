----------------------------- MODULE MCSshPool -----------------------------
(* SshPool with two callers on two hosts; a third for the instance in which  *)
(* a drain meets a connect.                                                  *)
EXTENDS SshPool, TLC

CONSTANTS c1, c2, c3
MCCallers == {c1, c2, c3}
MCPair == {c1, c2}
MCSessions == 1..4
MCArrays == 1..5
CallerSymmetry == Permutations(MCCallers)
=============================================================================
