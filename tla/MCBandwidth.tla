---------------------------- MODULE MCBandwidth ----------------------------
(* Two keys whose hashes collide on the last minor, so the second probes   *)
(* around to the first one.  With 10 minors the preferences that clearing  *)
(* the peer at the first minor deletes reach the filters of the one at the *)
(* last, but not the other way round.                                      *)
EXTENDS Bandwidth

CONSTANTS p1, p2

MCPeers == <<p1, p2>>

Colliding == [p \in {p1, p2} |-> Slots - 1]

MCLimits ==
    {NoLimit,
     [tx |-> 1, rx |-> 0, n |-> 2],   \* TX only, two addresses
     [tx |-> 2, rx |-> 2, n |-> 1],   \* another rate, both directions
     [tx |-> 2, rx |-> 1, n |-> 0]}   \* no host-sized address

(* tc_limits.go:72 to the letter, "applies full per-peer bandwidth limits": *)
(* LimitsSettle without its exceptions but the ready flags.                 *)
FullLimits ==
    <>[]~ReadyIsStale =>
        <>[](backend # "none" =>
                \A p \in Peer : Limited(want[p]) /\ want[p].n > 0 => Enforced(p))

(* ... "and removes stale peers", with no filter excepted. *)
StaleRemoved ==
    <>[](\A p \in Peer : ~Limited(want[p]) => \A f \in filters : f.ip[1] # p)
=============================================================================
