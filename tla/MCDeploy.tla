------------------------------ MODULE MCDeploy ------------------------------
EXTENDS Deploy, TLC
CONSTANTS p1, p2, here, there, small, large, gpu
McProcs == {p1, p2}
McScripts == {p1, p2, Boot}
McRequest(size, version, ssh, gateway, publish) ==
  [size |-> size, version |-> version, ssh |-> ssh, gateway |-> gateway, publish |-> publish]
McRequests ==
  {McRequest(small, "v1", FALSE, FALSE, "loopback"), McRequest(large, "v2", TRUE, TRUE, "all"),
   McRequest(gpu, "stable", TRUE, TRUE, "loopback")}
McSizes == {small, large, gpu}
McAllowed == {small, large}
McPlaces == {here, there}
Symmetry == Permutations(McProcs) \cup Permutations(McPlaces)
=============================================================================
