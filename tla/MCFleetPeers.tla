---------------------------- MODULE MCFleetPeers ----------------------------
EXTENDS FleetPeers
=============================================================================
