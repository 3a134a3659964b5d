-------------------------------- MODULE MCTui --------------------------------
EXTENDS Tui
(* Every peer is on the first interface. *)
MCHome == [p \in Peer |-> 1]
==============================================================================
