------------------------------- MODULE Leases -------------------------------
(* What a session pool promises its callers, and nothing about how: a session *)
(* is lent to one caller at a time, and lent until that caller gives it back. *)
CONSTANTS Callers, Sessions, None

VARIABLE lent    \* the session each caller has, or None

LeaseTypeOK == lent \in [Callers -> Sessions \union {None}]

Exclusive ==
  \A c, d \in Callers : lent[c] = lent[d] /\ lent[c] # None => c = d

LeaseInit == lent = [c \in Callers |-> None]

Lend(c, s) ==
  /\ lent[c] = None
  /\ \A d \in Callers : lent[d] # s
  /\ lent' = [lent EXCEPT ![c] = s]

GiveBack(c) ==
  /\ lent[c] # None
  /\ lent' = [lent EXCEPT ![c] = None]

LeaseNext ==
  \E c \in Callers : GiveBack(c) \/ \E s \in Sessions : Lend(c, s)

LeaseSpec == LeaseInit /\ [][LeaseNext]_lent
=============================================================================
