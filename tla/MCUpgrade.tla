----------------------------- MODULE MCUpgrade -----------------------------
(* Upgrade with an older, an equal and a newer target release.                *)
EXTENDS Upgrade
=============================================================================
