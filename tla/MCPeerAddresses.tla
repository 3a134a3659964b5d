--------------------------- MODULE MCPeerAddresses ---------------------------
EXTENDS PeerAddresses, TLC

KeySymmetry == Permutations(Pub) \cup Permutations(Handler) \cup Permutations(Editor)

Net(fam, ip, bits) == [fam |-> fam, ip |-> ip, bits |-> bits, linkLocal |-> FALSE]

(* A /30 at the top of the space; two pools of each family, the IPv6 one    *)
(* first; an address without room, with a link-local one.                   *)
MCAddresses == {
    <<Net("v4", 13, 2)>>,
    <<Net("v6", 9, 3), Net("v4", 1, 2)>>,
    <<Net("v6", 14, 2)>>,
    <<Net("v4", 4, 1), [Net("v6", 2, 2) EXCEPT !.linkLocal = TRUE]>> }

(* None, a host of a pool, a host route to it, a subnet around a pool.      *)
MCAssigned == {{}, {[fam |-> "v4", ip |-> 2]}}
MCAllowed == {{}, {Net("v4", 2, 0)}, {Net("v4", 12, 2)}}
==============================================================================
