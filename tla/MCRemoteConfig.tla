--------------------------- MODULE MCRemoteConfig ---------------------------
(* Two runs with good edits, and one whose edit the schema refuses.           *)
EXTENDS RemoteConfig, TLC

CONSTANTS w1, w2, w3
MCWriters == {w1, w2, w3}
MCInvalid == {w3}
GoodWriters == Permutations({w1, w2})
=============================================================================
