----------------------------- MODULE MCTailnet -----------------------------
(* Tailnet with two addresses: a host that leaves and joins again may get a   *)
(* new one, and old plans and overrides name the other.                       *)
EXTENDS Tailnet, TLC

CONSTANTS p1, i1, i2
MCIps == {i1, i2}
MCProcs == {p1}
IpSymmetry == Permutations(MCIps)
=============================================================================
