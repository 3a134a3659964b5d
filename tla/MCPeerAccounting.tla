-------------------------- MODULE MCPeerAccounting --------------------------
EXTENDS PeerAccounting, TLC

KeySymmetry == Permutations(Pub)
=============================================================================
