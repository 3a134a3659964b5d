------------------------------ MODULE HostState ------------------------------
(***************************************************************************)
(* What HostBackend puts on the host for an interface besides the link:    *)
(* routes for AllowedIPs, policy rules, black holes for suspended peers,   *)
(* DNS.  The backend remembers in memory what it installed and only issues *)
(* commands for the difference, so memory and host must agree although     *)
(* commands fail, the daemon restarts and the kernel drops state itself.   *)
(*                                                                         *)
(* A reconcile of one interface is one step: everything that touches the   *)
(* backend holds Reconciler.mu, and a command that fails in it, or a       *)
(* restart after it, stands for the ways it can be cut short.  A peer is   *)
(* its one AllowedIP.  Address families are distinct destinations.         *)
(***************************************************************************)
EXTENDS Naturals, FiniteSets

CONSTANTS
    Iface,      \* interfaces
    NoIface,    \* "no route"
    Default,    \* destinations that are 0.0.0.0/0 or ::/0
    Host,       \* host-sized destinations (/32, /128)
    Canonical,  \* the hosts written the way `ip route` prints them
    Rows,       \* Rows[i]: the configurations state.db may hold for i
    MaxEdits,   \* bound: API writes
    MaxFaults,  \* bound: failing commands, lost links and restarts
    Faults      \* the faults of an instance

Dst == Default \cup Host

AllFaults == {"add", "del", "list", "apply", "clear", "linkLost", "restart"}

ASSUME DstAssumption == Default \cap Host = {} /\ Canonical \subseteq Host
ASSUME IfaceAssumption ==
    NoIface \notin Iface /\ "blackhole" \notin Iface /\ NoIface # "blackhole"
ASSUME RowsAssumption ==
    \A i \in Iface : \A row \in Rows[i] :
        /\ row.enabled \in BOOLEAN
        /\ \A e \in row.dns : e[1] \in {"server", "domain"}
ASSUME HostBoundsAssumption ==
    MaxEdits \in Nat /\ MaxFaults \in Nat /\ Faults \subseteq AllFaults

VARIABLES
    rows,       \* state.db: rows[i], NoRow when there is none
    edits, faults,
    (* the host *)
    link,       \* link[i]: "absent", "down" or "up"
    kroute,     \* kroute[r]: the interface r leads to, Blackhole or NoIface
    krules,     \* policy rules, each with its priority
    kdns,       \* kdns[i]: the link's DNS settings
    (* HostBackend *)
    routes,     \* ifaceRouteState.routes
    rules,      \* ifaceRouteState.rules
    dns,        \* ifaceDNSState
    blackholes, \* the cached listing of black holes, NotListed when there is none
    (* observation only *)
    lost,       \* interfaces whose link was lost while they were enabled
    doubt       \* what a failure, a lost link or a restart left unknown

hostVars == <<link, kroute, krules, kdns>>
memVars  == <<routes, rules, dns, blackholes>>
vars     == <<rows, edits, faults, hostVars, memVars, lost, doubt>>

NoRow == [exists |-> FALSE, enabled |-> FALSE, mode |-> "off",
          peers |-> [d \in Dst |-> "absent"], dns |-> {}]

Blackhole == "blackhole"

(* Routing tables: main, per interface the one of its fwmark and the one of *)
(* TableID.                                                                 *)
Main == <<"main", NoIface>>

Table == {Main} \cup ({"mark", "custom"} \X Iface)

RouteKey == Dst \X Table

(* Policy rules; the suppress rule has no interface in it. *)
Suppress == <<"suppress", NoIface>>

RuleKey == {Suppress} \cup ({"unmarked", "from", "iif"} \X Iface)

rulePrioBase == 32764

Prio == rulePrioBase .. rulePrioBase + 1

NoDNS == [active |-> FALSE, cfg |-> {}]

(* No listing of black holes is cached, or it is older than its TTL. *)
NotListed == {<<"none", "not listed">>}
-----------------------------------------------------------------------------
(* What a row asks for. *)

Active(row) == {d \in Dst : row.peers[d] = "active"}

ActiveHosts(row) == Active(row) \cap Host

SuspendedHosts(row) == {d \in Host : row.peers[d] = "suspended"}

TableFor(i, row, d) ==
    CASE row.mode = "number" -> <<"custom", i>>
      [] row.mode = "auto" /\ d \in Default -> <<"mark", i>>
      [] OTHER -> Main

(* Routes are managed for enabled interfaces whose mode is not off. *)
Managed(row) == row.enabled /\ row.mode # "off"

wantRoutes(i, row) ==
    {<<d, TableFor(i, row, d)>> : d \in IF Managed(row) THEN Active(row) ELSE {}}

wantRules(i, row) ==
    IF ~Managed(row) THEN {}
    ELSE IF row.mode = "number" THEN {<<"from", i>>, <<"iif", i>>}
    ELSE IF Active(row) \cap Default = {} THEN {}
    ELSE {<<"unmarked", i>>, Suppress}

wantDNS(row) == IF row.enabled THEN row.dns ELSE {}
-----------------------------------------------------------------------------
(* Commands; one that fails leaves the host as it is. *)

(* `ip route replace ... dev i` takes the place of whatever had the key. *)
addRoutes(kr, i, keys) == [r \in RouteKey |-> IF r \in keys THEN i ELSE kr[r]]

(* `ip route del ... dev i` finds only i's own route. *)
delRoutes(kr, i, keys) ==
    [r \in RouteKey |-> IF r \in keys /\ kr[r] = i THEN NoIface ELSE kr[r]]

(* The kernel drops the routes of a link that goes down or away. *)
FlushRoutes(kr, i) == delRoutes(kr, i, RouteKey)

(* `ip rule add` of a rule that exists with its priority changes nothing. *)
addRules(kr, prioOf) ==
    kr \cup {[key |-> k, prio |-> prioOf[k]] : k \in DOMAIN prioOf}

(* `ip rule del` names no priority: the first match goes. *)
delRules(kr, keys) ==
    {x \in kr : x.key \in keys => \E y \in kr : y.key = x.key /\ y.prio < x.prio}

(* Missing rules are added in map order; a failing one uses no priority up. *)
Priorities(keys) ==
    {f \in [keys -> Prio] : \A k, l \in keys :
        /\ k # l => f[k] # f[l]
        /\ f[k] < rulePrioBase + Cardinality(keys)}

(* The key blackholeRouteMissing looks up: the text of the row, which is    *)
(* what the listing shows only when it is written canonically.              *)
hostRouteKey(d) == <<d, IF d \in Canonical THEN "listed" ELSE "text">>

(* `ip route show type blackhole`. *)
listBlackholes(kr) == {<<d, "listed">> : d \in {h \in Host : kr[<<h, Main>>] = Blackhole}}

(* The commands a reconcile of i may issue, each with what it is about. *)
Commands(i) ==
    LET row == rows[i] IN
    {<<"list", "black">>}
    \cup {<<"add", "black", d>> : d \in SuspendedHosts(row)}
    \cup {<<"del", "black", d>> : d \in ActiveHosts(row)}
    \cup {<<"add", "route", r>> : r \in wantRoutes(i, row) \ routes[i]}
    \cup {<<"del", "route", r>> : r \in routes[i] \ wantRoutes(i, row)}
    \cup {<<"add", "rule", k>> : k \in wantRules(i, row) \ rules[i]}
    \cup {<<"del", "rule", k>> : k \in rules[i] \ wantRules(i, row)}
    \cup {<<"clear", "dns">>, <<"apply", "server">>, <<"apply", "domain">>}

(* In one step at most one command fails. *)
FailureSets(commands) ==
    {{}} \cup {{c} : c \in {x \in commands : x[1] \in Faults /\ faults < MaxFaults}}
-----------------------------------------------------------------------------
(* ApplySuspendRoutes, for every peer of the interface. *)

(* blackholeRouteMissing's listing: the cached one or a fresh one. *)
Listing(kr, failed) ==
    IF blackholes # NotListed THEN blackholes
    ELSE IF <<"list", "black">> \in failed THEN NotListed
    ELSE listBlackholes(kr)

(* A failed listing answers "not missing": an unnecessary delete is issued. *)
blackholeRouteMissing(seen, d) == seen # NotListed /\ hostRouteKey(d) \notin seen

(* Mutant: a new black hole is not entered into the cached listing. *)
CacheForgetsAdds(seen, deleted, added) ==
    IF seen = NotListed THEN NotListed ELSE seen \ {hostRouteKey(d) : d \in deleted}

CacheAfter(seen, deleted, added) ==
    IF seen = NotListed THEN NotListed
    ELSE (seen \ {hostRouteKey(d) : d \in deleted}) \cup {hostRouteKey(d) : d \in added}

(* A suspended host gets a black hole in main, in the place of its route;   *)
(* an active one loses its black hole unless there is said to be none.      *)
ApplySuspendRoutes(i, failed) ==
    LET added   == {d \in SuspendedHosts(rows[i]) : <<"add", "black", d>> \notin failed}
        seen    == IF ActiveHosts(rows[i]) = {} THEN blackholes ELSE Listing(kroute, failed)
        deleted == {d \in ActiveHosts(rows[i]) :
                       ~blackholeRouteMissing(seen, d) /\ <<"del", "black", d>> \notin failed}
    IN
    [kroute |-> [r \in RouteKey |->
                    IF r[2] = Main /\ r[1] \in added THEN Blackhole
                    ELSE IF r[2] = Main /\ r[1] \in deleted /\ kroute[r] = Blackhole THEN NoIface
                    ELSE kroute[r]],
     blackholes |-> CacheAfter(seen, deleted, added)]
-----------------------------------------------------------------------------
(* routeState.sync *)

(* Mutants: a disabled interface keeps its remembered routes, although the  *)
(* kernel dropped them with the link; a route is remembered although its    *)
(* command failed.                                                          *)
RoutesKeptWhenDisabled(i, failed) ==
    IF rows[i].enabled
    THEN {r \in wantRoutes(i, rows[i]) : r \in routes[i] \/ <<"add", "route", r>> \notin failed}
    ELSE routes[i]

RoutesRememberedAlways(i, failed) == wantRoutes(i, rows[i])

(* What the interface has installed afterwards, as far as it knows: a       *)
(* failed add is tried again, a failed delete is forgotten.                 *)
RoutesRemembered(i, failed) ==
    {r \in wantRoutes(i, rows[i]) : r \in routes[i] \/ <<"add", "route", r>> \notin failed}

RulesRemembered(i, failed) ==
    {k \in wantRules(i, rows[i]) : k \in rules[i] \/ <<"add", "rule", k>> \notin failed}

SyncRoutes(kr, i, failed) ==
    LET stale == {r \in routes[i] \ wantRoutes(i, rows[i]) : <<"del", "route", r>> \notin failed}
        new   == {r \in wantRoutes(i, rows[i]) \ routes[i] : <<"add", "route", r>> \notin failed}
    IN  addRoutes(delRoutes(kr, i, stale), i, new)

SyncRules(i, failed, prioOf) ==
    addRules(delRules(krules, {k \in rules[i] \ wantRules(i, rows[i]) :
                                  <<"del", "rule", k>> \notin failed}), prioOf)
-----------------------------------------------------------------------------
(* dnsState.sync, with resolvectl: servers and domains are two commands. *)

ofKind(kind, cfg) == {e \in cfg : e[1] = kind}

setKind(kind, cfg, now) ==
    IF ofKind(kind, cfg) = {} THEN now ELSE (now \ ofKind(kind, now)) \cup ofKind(kind, cfg)

(* applyDNS fails where a command it needs fails. *)
applyFails(cfg, failed) ==
    \E kind \in {"server", "domain"} : ofKind(kind, cfg) # {} /\ <<"apply", kind>> \in failed

applyDNS(cfg, failed, now) ==
    LET servers == setKind("server", cfg, now) IN
    IF ofKind("server", cfg) # {} /\ <<"apply", "server">> \in failed THEN now
    ELSE IF ofKind("domain", cfg) # {} /\ <<"apply", "domain">> \in failed THEN servers
    ELSE setKind("domain", cfg, servers)

Unchanged(i) == dns[i].active /\ dns[i].cfg = wantDNS(rows[i])

(* The old settings are reverted first when there are any. *)
SyncDNS(i, failed) ==
    LET want    == wantDNS(rows[i])
        cleared == IF dns[i].active /\ <<"clear", "dns">> \notin failed THEN {} ELSE kdns[i]
    IN
    IF want = {} THEN cleared
    ELSE IF Unchanged(i) THEN kdns[i]
    ELSE applyDNS(want, failed, cleared)

DNSRemembered(i, failed) ==
    LET want == wantDNS(rows[i]) IN
    IF want = {} THEN NoDNS
    ELSE IF applyFails(want, failed) /\ ~Unchanged(i) THEN dns[i]
    ELSE [active |-> TRUE, cfg |-> want]
-----------------------------------------------------------------------------
(* What the memory of i no longer tells exactly after these failures: a     *)
(* failed delete is forgotten, a failed replacement of DNS leaves the old   *)
(* settings remembered or the new ones half applied.                        *)
Doubts(i, failed) ==
    {<<i, "routes">> : c \in {f \in failed : f[1] = "del" /\ f[2] = "route"}}
    \cup {<<i, "rules">> : c \in {f \in failed : f[1] = "del" /\ f[2] = "rule"}}
    \cup {<<i, "dns">> : c \in {f \in failed : f[1] \in {"clear", "apply"}}}

(* One interface in Reconciler.run, from ApplySuspendRoutes to SyncDNS. *)
Reconcile(i) ==
    /\ rows[i].exists
    /\ \E failed \in FailureSets(Commands(i)) :
          LET missing == {k \in wantRules(i, rows[i]) \ rules[i] :
                             <<"add", "rule", k>> \notin failed}
              suspend == ApplySuspendRoutes(i, failed)
              afterUp == IF rows[i].enabled THEN suspend.kroute
                         ELSE FlushRoutes(suspend.kroute, i)
          IN
          /\ faults' = faults + Cardinality(failed)
          /\ link' = [link EXCEPT ![i] = IF rows[i].enabled THEN "up" ELSE "down"]
          /\ kroute' = SyncRoutes(afterUp, i, failed)
          /\ \E prioOf \in Priorities(missing) : krules' = SyncRules(i, failed, prioOf)
          /\ kdns' = [kdns EXCEPT ![i] = SyncDNS(i, failed)]
          /\ routes' = [routes EXCEPT ![i] = RoutesRemembered(i, failed)]
          /\ rules' = [rules EXCEPT ![i] = RulesRemembered(i, failed)]
          /\ dns' = [dns EXCEPT ![i] = DNSRemembered(i, failed)]
          /\ blackholes' = suspend.blackholes
          /\ doubt' = doubt \cup Doubts(i, failed)
    /\ lost' = IF rows[i].enabled THEN lost ELSE lost \ {i}
    /\ UNCHANGED <<rows, edits>>

(* A run that lists no interface. *)
RunEmpty ==
    /\ \A i \in Iface : ~rows[i].exists
    /\ UNCHANGED vars

(* DELETE: the row, then RemoveInterface, which clears DNS, routes and      *)
(* rules and forgets them whatever the commands return; the routes and the  *)
(* link's DNS go with the link.                                             *)
DeleteInterface(i) ==
    /\ rows[i].exists
    /\ edits < MaxEdits
    /\ edits' = edits + 1
    /\ \E failed \in FailureSets({<<"del", "rule", k>> : k \in rules[i]}) :
          /\ faults' = faults + Cardinality(failed)
          /\ krules' = delRules(krules, {k \in rules[i] : <<"del", "rule", k>> \notin failed})
          /\ doubt' = doubt \cup Doubts(i, failed)
    /\ rows' = [rows EXCEPT ![i] = NoRow]
    /\ link' = [link EXCEPT ![i] = "absent"]
    /\ kroute' = FlushRoutes(kroute, i)
    /\ kdns' = [kdns EXCEPT ![i] = {}]
    /\ routes' = [routes EXCEPT ![i] = {}]
    /\ rules' = [rules EXCEPT ![i] = {}]
    /\ dns' = [dns EXCEPT ![i] = NoDNS]
    /\ lost' = lost \ {i}
    /\ UNCHANGED blackholes

(* Handlers write rows: interfaces created and changed, peers added,        *)
(* suspended, resumed and deleted.                                          *)
WriteRow(i, row) ==
    /\ edits < MaxEdits
    /\ row # rows[i]
    /\ rows' = [rows EXCEPT ![i] = row]
    /\ edits' = edits + 1
    /\ UNCHANGED <<faults, hostVars, memVars, lost, doubt>>

(* blackholeListTTL passes. *)
ListingExpires ==
    /\ blackholes # NotListed
    /\ blackholes' = NotListed
    /\ UNCHANGED <<rows, edits, faults, hostVars, routes, rules, dns, lost, doubt>>

Fault(kind) ==
    /\ kind \in Faults
    /\ faults < MaxFaults
    /\ faults' = faults + 1

(* The link is deleted behind the daemon; the next EnsureInterface makes a  *)
(* new one.                                                                 *)
LinkLost(i) ==
    /\ Fault("linkLost")
    /\ link[i] # "absent"
    /\ link' = [link EXCEPT ![i] = "absent"]
    /\ kroute' = FlushRoutes(kroute, i)
    /\ kdns' = [kdns EXCEPT ![i] = {}]
    /\ lost' = lost \cup {i}
    /\ doubt' = doubt \cup {<<i, "routes">>, <<i, "dns">>}
    /\ UNCHANGED <<rows, edits, krules, memVars>>

(* The daemon stops and starts: its memory is lost, the host keeps all. *)
Restart ==
    /\ Fault("restart")
    /\ routes' = [i \in Iface |-> {}]
    /\ rules' = [i \in Iface |-> {}]
    /\ dns' = [i \in Iface |-> NoDNS]
    /\ blackholes' = NotListed
    /\ lost' = {}
    /\ doubt' = Iface \X {"routes", "rules", "dns"}
    /\ UNCHANGED <<rows, edits, hostVars>>

Init ==
    /\ rows = [i \in Iface |-> NoRow]
    /\ edits = 0
    /\ faults = 0
    /\ link = [i \in Iface |-> "absent"]
    /\ kroute = [r \in RouteKey |-> NoIface]
    /\ krules = {}
    /\ kdns = [i \in Iface |-> {}]
    /\ routes = [i \in Iface |-> {}]
    /\ rules = [i \in Iface |-> {}]
    /\ dns = [i \in Iface |-> NoDNS]
    /\ blackholes = NotListed
    /\ lost = {}
    /\ doubt = {}

Next ==
    \/ \E i \in Iface : Reconcile(i)
    \/ RunEmpty
    \/ \E i \in Iface : DeleteInterface(i)
    \/ \E i \in Iface : \E row \in Rows[i] : WriteRow(i, row)
    \/ ListingExpires
    \/ \E i \in Iface : LinkLost(i)
    \/ Restart

Spec == Init /\ [][Next]_vars

(* The ticker of Loop: every listed interface is reconciled again and again. *)
FairSpec == Spec /\ \A i \in Iface : WF_vars(Reconcile(i))
-----------------------------------------------------------------------------
(* The values the variables take. *)
TypeOK ==
    /\ rows \in [Iface -> [exists: BOOLEAN, enabled: BOOLEAN,
                           mode: {"off", "auto", "number"},
                           peers: [Dst -> {"absent", "active", "suspended"}],
                           dns: SUBSET UNION {row.dns : row \in UNION {Rows[i] : i \in Iface}}]]
    /\ edits \in 0..MaxEdits /\ faults \in 0..MaxFaults
    /\ link \in [Iface -> {"absent", "down", "up"}]
    /\ kroute \in [RouteKey -> Iface \cup {NoIface, Blackhole}]
    /\ krules \subseteq [key: RuleKey, prio: Prio]
    /\ \A i \in Iface : kdns[i] \cup dns[i].cfg \subseteq UNION {row.dns : row \in Rows[i]}
    /\ routes \in [Iface -> SUBSET RouteKey]
    /\ rules \in [Iface -> SUBSET RuleKey]
    /\ lost \subseteq Iface
    /\ doubt \subseteq Iface \X {"routes", "rules", "dns"}

(* The difference the backend works from is true.  As long as no delete, no *)
(* DNS command and no link was lost and the daemon did not restart - failed *)
(* additions do not matter - the routes, rules and DNS settings it          *)
(* remembers are the ones on the host: none it believes installed is        *)
(* missing, none it installed is forgotten.                                 *)
MemoryIsExact ==
    /\ \A i \in Iface :
          /\ <<i, "routes">> \notin doubt => routes[i] = {r \in RouteKey : kroute[r] = i}
          /\ <<i, "dns">> \notin doubt => kdns[i] = dns[i].cfg
          /\ <<i, "rules">> \notin doubt => rules[i] \subseteq {x.key : x \in krules}
    /\ (\A i \in Iface : <<i, "rules">> \notin doubt)
          => {x.key : x \in krules} = UNION {rules[i] : i \in Iface}

(* No two interfaces ask for one route or one rule, or one for a black hole *)
(* where the other asks for a route.                                        *)
Apart ==
    \A i, j \in Iface : i # j =>
        \A row \in Rows[i], other \in Rows[j] :
            /\ wantRoutes(i, row) \cap wantRoutes(j, other) = {}
            /\ wantRules(i, row) \cap wantRules(j, other) = {}
            /\ \A d \in SuspendedHosts(row) : <<d, Main>> \notin wantRoutes(j, other)

Installed(i) ==
    /\ \A r \in wantRoutes(i, rows[i]) : kroute[r] = i
    /\ wantRules(i, rows[i]) \subseteq {x.key : x \in krules}

(* Failed commands and restarts included, the routes and rules a row asks   *)
(* for are installed in the end (docs/ARCHITECTURE.md: "routes as           *)
(* configured").  The exception is the hazard of the remembered state: an   *)
(* interface that lost its link has its routes back only after it was       *)
(* disabled, deleted or the daemon restarted.                               *)
RoutesSettle == \A i \in Iface : <>[](i \notin lost) => <>[]Installed(i)

(* A peer that is active again does not stay black-holed, whatever the      *)
(* cached listing said when it was resumed and whichever deletes failed.    *)
ResumedIsReachable ==
    <>[](\A i \in Iface : \A d \in ActiveHosts(rows[i]) : kroute[<<d, Main>>] # Blackhole)
=============================================================================
