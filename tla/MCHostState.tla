---------------------------- MODULE MCHostState ----------------------------
(* A default-route tunnel in auto mode and a second interface, switching   *)
(* between off and its own table, with one host peer each way.             *)
EXTENDS HostState

CONSTANTS wg0, wg1, any, h0, h1

Peers(d0, d1, d2) == [d \in Dst |-> CASE d = any -> d0 [] d = h0 -> d1 [] d = h1 -> d2]

Row(enabled, mode, peers, entries) ==
    [exists |-> TRUE, enabled |-> enabled, mode |-> mode, peers |-> peers, dns |-> entries]

S1 == {<<"server", 1>>}
S2D == {<<"server", 2>>, <<"domain", 1>>}

MCRows ==
    [i \in Iface |->
        IF i = wg0
        THEN {Row(TRUE, "auto", Peers("active", "absent", "absent"), S1),
              Row(TRUE, "auto", Peers("active", "active", "absent"), S2D),
              Row(TRUE, "auto", Peers("absent", "suspended", "absent"), {}),
              Row(FALSE, "auto", Peers("active", "active", "absent"), S1)}
        ELSE {Row(TRUE, "off", Peers("absent", "absent", "active"), {}),
              Row(TRUE, "number", Peers("absent", "absent", "active"), {}),
              Row(TRUE, "off", Peers("absent", "absent", "suspended"), {})}]

(* MemoryIsExact is claimed of interfaces that do not share routes. *)
ASSUME RowsApart == Apart
=============================================================================
