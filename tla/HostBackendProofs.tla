-------------------------- MODULE HostBackendProofs --------------------------
(***************************************************************************)
(* HostBackend for any interfaces and any peers.  Routes, rules and DNS,   *)
(* for interfaces that do not share routes: as long as nothing made the    *)
(* memory of the backend doubtful, what it remembers is what is on the     *)
(* host.  Bandwidth limits, whichever commands fail: no two peers are put  *)
(* in one class, and a sync without a failure leaves the limits in force   *)
(* that state.db asks for and no others, but for what is excepted by name. *)
(***************************************************************************)
EXTENDS HostState, Bandwidth, Integers, FiniteSetTheorems, WellFoundedInduction, TLAPS

(* What an interface may ever ask for. *)
RoutesEver(i) == UNION {wantRoutes(i, row) : row \in Rows[i]}

RulesEver(i) == UNION {wantRules(i, row) : row \in Rows[i]}

KernelRules == {x.key : x \in krules}

RoutesExact(i) == <<i, "routes">> \notin doubt => routes[i] = {r \in RouteKey : kroute[r] = i}

RulesPresent(i) == <<i, "rules">> \notin doubt => rules[i] \subseteq KernelRules

DNSExact(i) == <<i, "dns">> \notin doubt => kdns[i] = dns[i].cfg

(* Rows are ones the interface may have, and memory holds nothing that no   *)
(* row of it asks for.                                                      *)
RowsOK ==
    /\ DOMAIN rows = Iface /\ DOMAIN routes = Iface /\ DOMAIN rules = Iface
    /\ DOMAIN dns = Iface /\ DOMAIN kdns = Iface
    /\ \A i \in Iface :
          /\ rows[i] \in Rows[i] \cup {NoRow}
          /\ routes[i] \subseteq RoutesEver(i)
          /\ rules[i] \subseteq RulesEver(i)
          /\ dns[i].active \/ dns[i].cfg = {}

(* The memory of rules is exact for all interfaces together: a rule says    *)
(* nothing of the interface it was added for.                               *)
RulesKnown == \A i \in Iface : <<i, "rules">> \notin doubt

(* Then each rule is there once, so that one delete removes it. *)
RulesExact ==
    RulesKnown => /\ KernelRules = UNION {rules[i] : i \in Iface}
                  /\ \A x, y \in krules : x.key = y.key => x = y

IInv ==
    /\ RowsOK
    /\ krules \subseteq [key: RuleKey, prio: Prio]
    /\ \A i \in Iface : RoutesExact(i) /\ RulesPresent(i) /\ DNSExact(i)
    /\ RulesExact
-----------------------------------------------------------------------------
(* What one interface may ask for, no other one has. *)
LEMMA OthersRoutes ==
    ASSUME Apart, IInv, NEW i \in Iface, NEW j \in Iface, i # j, rows[i] \in Rows[i]
    PROVE  /\ wantRoutes(i, rows[i]) \cap routes[j] = {}
           /\ \A d \in SuspendedHosts(rows[i]) : <<d, Main>> \notin routes[j]
<1>1. routes[j] \subseteq RoutesEver(j)
  BY DEF IInv, RowsOK
<1>2. \A r \in routes[j] : \E other \in Rows[j] : r \in wantRoutes(j, other)
  BY <1>1 DEF RoutesEver
<1> QED
  BY <1>2 DEF Apart

LEMMA OthersRules ==
    ASSUME Apart, IInv, NEW i \in Iface, NEW j \in Iface, i # j
    PROVE  /\ rules[i] \cap rules[j] = {}
           /\ rows[i] \in Rows[i] => wantRules(i, rows[i]) \cap rules[j] = {}
<1>1. rules[i] \subseteq RulesEver(i) /\ rules[j] \subseteq RulesEver(j)
  BY DEF IInv, RowsOK
<1>2. /\ \A k \in rules[j] : \E other \in Rows[j] : k \in wantRules(j, other)
      /\ \A k \in rules[i] : \E row \in Rows[i] : k \in wantRules(i, row)
  BY <1>1 DEF RulesEver
<1> QED
  BY <1>2 DEF Apart

LEMMA Existing ==
    ASSUME IInv, NEW i \in Iface, rows[i].exists
    PROVE  rows[i] \in Rows[i] /\ rows[i].enabled \in BOOLEAN
<1>1. rows[i] \in Rows[i] \cup {NoRow} /\ ~NoRow.exists
  BY DEF IInv, RowsOK, NoRow
<1>2. rows[i] \in Rows[i]
  BY <1>1
<1> QED
  BY <1>2, RowsAssumption
-----------------------------------------------------------------------------
(* Routes *)

(* Black holes take only routes of suspended hosts away, and never an       *)
(* interface's place but for one.                                           *)
LEMMA SuspendRoutes ==
    ASSUME NEW i \in Iface, NEW failed, NEW r \in RouteKey, NEW j \in Iface
    PROVE  LET kr == ApplySuspendRoutes(i, failed).kroute IN
           /\ kr[r] = j => kroute[r] = j
           /\ kroute[r] = j /\ (r[2] = Main => r[1] \notin SuspendedHosts(rows[i]))
                  => kr[r] = j
<1> DEFINE kr == ApplySuspendRoutes(i, failed).kroute
<1>1. PICK added, deleted :
          /\ added \subseteq SuspendedHosts(rows[i])
          /\ kr = [x \in RouteKey |->
                     IF x[2] = Main /\ x[1] \in added THEN Blackhole
                     ELSE IF x[2] = Main /\ x[1] \in deleted /\ kroute[x] = Blackhole THEN NoIface
                     ELSE kroute[x]]
  BY DEF ApplySuspendRoutes
<1> HIDE DEF kr
<1>2. j # Blackhole /\ j # NoIface
  BY IfaceAssumption DEF Blackhole
<1>3. kr[r] = IF r[2] = Main /\ r[1] \in added THEN Blackhole
              ELSE IF r[2] = Main /\ r[1] \in deleted /\ kroute[r] = Blackhole THEN NoIface
              ELSE kroute[r]
  BY <1>1
<1>4. kr[r] = j => kroute[r] = j
  BY <1>2, <1>3
<1>5. kroute[r] = j /\ (r[2] = Main => r[1] \notin SuspendedHosts(rows[i])) => kr[r] = j
  BY <1>1, <1>2, <1>3
<1> QED
  BY <1>4, <1>5 DEF kr

(* A wanted route is to an active destination, never to a suspended host. *)
LEMMA WantedActive ==
    ASSUME NEW i, NEW row, NEW r \in wantRoutes(i, row)
    PROVE  r[1] \notin SuspendedHosts(row) /\ Managed(row)
<1>1. Managed(row) /\ \E d \in Active(row) : r = <<d, TableFor(i, row, d)>>
  BY DEF wantRoutes
<1>2. r[1] \in Active(row)
  BY <1>1
<1> QED
  BY <1>1, <1>2 DEF Active, SuspendedHosts

AfterUp(i, failed) ==
    LET kr == ApplySuspendRoutes(i, failed).kroute
    IN  IF rows[i].enabled THEN kr ELSE FlushRoutes(kr, i)

(* The kernel's routes after the suspend routes and the link's state. *)
LEMMA UpRoutes ==
    ASSUME NEW i \in Iface, NEW failed, NEW r \in RouteKey, NEW j \in Iface,
           rows[i].enabled \in BOOLEAN
    PROVE  /\ AfterUp(i, failed)[r] = j => kroute[r] = j
           /\ AfterUp(i, failed)[r] = i => rows[i].enabled
           /\ /\ kroute[r] = j /\ (j = i => rows[i].enabled)
              /\ r[2] = Main => r[1] \notin SuspendedHosts(rows[i])
              => AfterUp(i, failed)[r] = j
<1> DEFINE kr == ApplySuspendRoutes(i, failed).kroute
<1>1. /\ kr[r] = j => kroute[r] = j
      /\ kroute[r] = j /\ (r[2] = Main => r[1] \notin SuspendedHosts(rows[i])) => kr[r] = j
  BY SuspendRoutes
<1>2. i # NoIface /\ j # NoIface
  BY IfaceAssumption
<1>3. FlushRoutes(kr, i)[r] = IF kr[r] = i THEN NoIface ELSE kr[r]
  BY DEF FlushRoutes, delRoutes
<1> HIDE DEF kr
<1>4. AfterUp(i, failed)[r] = IF rows[i].enabled THEN kr[r]
                              ELSE IF kr[r] = i THEN NoIface ELSE kr[r]
  BY <1>3 DEF AfterUp, kr
<1> QED
  BY <1>1, <1>2, <1>4

LEMMA SyncedRoutes ==
    ASSUME Apart, IInv, NEW i \in Iface, rows[i].exists, NEW failed,
           kroute' = SyncRoutes(AfterUp(i, failed), i, failed),
           routes' = [routes EXCEPT ![i] = RoutesRemembered(i, failed)],
           doubt' = doubt \cup Doubts(i, failed)
    PROVE  \A j \in Iface : RoutesExact(j)'
<1> DEFINE asked == wantRoutes(i, rows[i])
           new == {r \in asked \ routes[i] : <<"add", "route", r>> \notin failed}
           stale == {r \in routes[i] \ asked : <<"del", "route", r>> \notin failed}
<1>1. rows[i] \in Rows[i] /\ rows[i].enabled \in BOOLEAN
  BY Existing
<1>2. \A r \in RouteKey : kroute'[r] = IF r \in new THEN i
                                       ELSE IF r \in stale /\ AfterUp(i, failed)[r] = i THEN NoIface
                                       ELSE AfterUp(i, failed)[r]
  BY DEF SyncRoutes, addRoutes, delRoutes
<1>3. NoIface \notin Iface
  BY IfaceAssumption
<1>4. SUFFICES ASSUME NEW j \in Iface, <<j, "routes">> \notin doubt'
               PROVE  routes'[j] = {r \in RouteKey : kroute'[r] = j}
  BY DEF RoutesExact
<1>5. <<j, "routes">> \notin doubt /\ routes[j] = {r \in RouteKey : kroute[r] = j}
  BY <1>4 DEF IInv, RoutesExact
<1>6. CASE j = i
  <2>1. \A r : <<"del", "route", r>> \notin failed
    <3>1. SUFFICES ASSUME NEW r, <<"del", "route", r>> \in failed PROVE FALSE
      OBVIOUS
    <3>2. <<"del", "route", r>>[1] = "del" /\ <<"del", "route", r>>[2] = "route"
      OBVIOUS
    <3>3. <<i, "routes">> \in Doubts(i, failed)
      BY <3>1, <3>2 DEF Doubts
    <3> QED
      BY <1>4, <1>6, <3>3
  <2>2. routes'[i] = {r \in asked : r \in routes[i] \/ <<"add", "route", r>> \notin failed}
    BY DEF IInv, RowsOK, RoutesRemembered
  <2>3. asked \subseteq RouteKey
    BY DEF wantRoutes, RouteKey, TableFor, Table, Main, Active
  <2>4. ASSUME NEW r \in routes'[i] PROVE r \in RouteKey /\ kroute'[r] = i
    <3>1. r \in asked /\ r \in RouteKey
      BY <2>2, <2>3, <2>4
    <3>2. CASE r \in new
      BY <1>2, <3>1, <3>2
    <3>3. CASE r \notin new
      <4>1. r \in routes[i] /\ kroute[r] = i
        BY <1>5, <1>6, <2>2, <2>4, <3>1, <3>3
      <4>2. r[1] \notin SuspendedHosts(rows[i]) /\ rows[i].enabled
        BY <3>1, WantedActive DEF Managed
      <4>3. AfterUp(i, failed)[r] = i
        <5>1. /\ kroute[r] = i /\ (i = i => rows[i].enabled)
              /\ r[2] = Main => r[1] \notin SuspendedHosts(rows[i])
              => AfterUp(i, failed)[r] = i
          BY <1>1, <3>1, UpRoutes
        <5> QED
          BY <4>1, <4>2, <5>1
      <4> QED
        BY <1>2, <3>1, <3>3, <4>3
    <3> QED
      BY <3>2, <3>3
  <2>5. ASSUME NEW r \in RouteKey, kroute'[r] = i PROVE r \in routes'[i]
    <3>1. CASE r \in new
      BY <2>2, <3>1
    <3>2. CASE r \notin new
      <4>1. AfterUp(i, failed)[r] = i /\ r \notin stale
        BY <1>2, <1>3, <2>5, <3>2
      <4>2. r \in routes[i]
        BY <1>1, <1>5, <1>6, <4>1, UpRoutes
      <4> QED
        BY <2>1, <2>2, <4>1, <4>2
    <3> QED
      BY <3>1, <3>2
  <2> QED
    BY <1>6, <2>4, <2>5
<1>7. CASE j # i
  <2>1. routes'[j] = routes[j]
    BY <1>7 DEF IInv, RowsOK
  <2>2. asked \cap routes[j] = {} /\ \A d \in SuspendedHosts(rows[i]) : <<d, Main>> \notin routes[j]
    BY <1>1, <1>7, OthersRoutes
  <2>3. ASSUME NEW r \in RouteKey, kroute'[r] = j PROVE kroute[r] = j
    <3>1. AfterUp(i, failed)[r] = j
      BY <1>2, <1>3, <1>7, <2>3
    <3> QED
      BY <1>1, <3>1, UpRoutes
  <2>4. ASSUME NEW r \in RouteKey, kroute[r] = j PROVE kroute'[r] = j
    <3>1. r \in routes[j] /\ r \notin new
      BY <1>5, <2>2, <2>4
    <3>2. r = <<r[1], r[2]>>
      BY DEF RouteKey
    <3>3. r[2] = Main => r[1] \notin SuspendedHosts(rows[i])
      BY <2>2, <3>1, <3>2
    <3>4. AfterUp(i, failed)[r] = j
      BY <1>1, <1>7, <2>4, <3>3, UpRoutes
    <3> QED
      BY <1>2, <1>7, <3>1, <3>4
  <2> QED
    BY <1>5, <2>1, <2>3, <2>4
<1> QED
  BY <1>6, <1>7
-----------------------------------------------------------------------------
(* Rules *)

(* The rules of another interface are left alone, and those that are known  *)
(* are there once.                                                          *)
LEMMA DeletedRules ==
    ASSUME NEW kr, kr \subseteq [key: RuleKey, prio: Prio], NEW keys
    PROVE  /\ delRules(kr, keys) \subseteq kr
           /\ \A x \in kr : x.key \notin keys => x \in delRules(kr, keys)
           /\ (\A x, y \in kr : x.key = y.key => x = y)
                  => \A x \in delRules(kr, keys) : x.key \notin keys
<1>1. \A x \in kr : ~(x.prio < x.prio)
  BY DEF Prio, rulePrioBase
<1> QED
  BY <1>1 DEF delRules

LEMMA AddedRules ==
    ASSUME NEW kr, NEW keys, NEW prioOf \in [keys -> Prio]
    PROVE  /\ {x.key : x \in addRules(kr, prioOf)} = {x.key : x \in kr} \cup keys
           /\ kr \subseteq addRules(kr, prioOf)
           /\ \A x \in addRules(kr, prioOf) :
                 x \in kr \/ x \in [key: keys, prio: Prio]
           /\ \A x, y \in addRules(kr, prioOf) \ kr : x.key = y.key => x = y
<1> DEFINE rule(k) == [key |-> k, prio |-> prioOf[k]]
           new == {rule(k) : k \in keys}
<1>1. addRules(kr, prioOf) = kr \cup new
  BY DEF addRules
<1>2. \A k \in keys : rule(k) \in [key: keys, prio: Prio] /\ rule(k).key = k
  OBVIOUS
<1>3. \A x \in new : \E k \in keys : x = rule(k)
  OBVIOUS
<1>4. \A k \in keys : rule(k) \in new
  OBVIOUS
<1> HIDE DEF new, rule
<1>5. \A x \in new : x.key \in keys /\ x = rule(x.key) /\ x \in [key: keys, prio: Prio]
  BY <1>2, <1>3
<1>6. {x.key : x \in kr \cup new} = {x.key : x \in kr} \cup keys
  <2>1. \A k \in keys : \E x \in kr \cup new : x.key = k
    BY <1>2, <1>4
  <2> QED
    BY <1>5, <2>1
<1>7. \A x, y \in new : x.key = y.key => x = y
  BY <1>5
<1> QED
  BY <1>1, <1>5, <1>6, <1>7

LEMMA SyncedRules ==
    ASSUME Apart, IInv, NEW i \in Iface, rows[i].exists, NEW failed,
           NEW prioOf \in [{k \in wantRules(i, rows[i]) \ rules[i] :
                               <<"add", "rule", k>> \notin failed} -> Prio],
           krules' = SyncRules(i, failed, prioOf),
           rules' = [rules EXCEPT ![i] = RulesRemembered(i, failed)],
           doubt' = doubt \cup Doubts(i, failed)
    PROVE  /\ krules' \subseteq [key: RuleKey, prio: Prio]
           /\ \A j \in Iface : RulesPresent(j)'
           /\ RulesExact'
<1> DEFINE asked == wantRules(i, rows[i])
           missing == {k \in asked \ rules[i] : <<"add", "rule", k>> \notin failed}
           gone == {k \in rules[i] \ asked : <<"del", "rule", k>> \notin failed}
           kept == delRules(krules, gone)
<1>1. rows[i] \in Rows[i]
  BY Existing
<1>2. krules \subseteq [key: RuleKey, prio: Prio]
  BY DEF IInv
<1>3. krules' = addRules(kept, prioOf)
  BY DEF SyncRules
<1>4. asked \subseteq RuleKey
  BY DEF wantRules, RuleKey
<1>5. /\ kept \subseteq krules
      /\ \A x \in krules : x.key \notin gone => x \in kept
      /\ (\A x, y \in krules : x.key = y.key => x = y) => \A x \in kept : x.key \notin gone
  BY <1>2, DeletedRules
<1>6. prioOf \in [missing -> Prio]
  OBVIOUS
<1> HIDE DEF kept, missing
<1>7. /\ KernelRules' = {x.key : x \in kept} \cup missing
      /\ \A x \in krules' : x \in kept \/ x \in [key: missing, prio: Prio]
      /\ \A x, y \in krules' \ kept : x.key = y.key => x = y
  BY <1>3, <1>6, AddedRules DEF KernelRules
<1>8. krules' \subseteq [key: RuleKey, prio: Prio]
  <2>1. missing \subseteq RuleKey
    BY <1>4 DEF missing
  <2>2. [key: missing, prio: Prio] \subseteq [key: RuleKey, prio: Prio]
    BY <2>1
  <2> QED
    BY <1>2, <1>5, <1>7, <2>2
<1>9. /\ rules'[i] = {k \in asked : k \in rules[i] \/ k \in missing}
      /\ \A j \in Iface \ {i} : rules'[j] = rules[j]
  BY DEF IInv, RowsOK, RulesRemembered, missing
<1>10. \A j \in Iface \ {i} : rules[j] \cap gone = {} /\ rules[j] \cap missing = {}
  BY <1>1, OthersRules DEF missing
<1>11. ASSUME NEW j \in Iface, <<j, "rules">> \notin doubt' PROVE rules'[j] \subseteq KernelRules'
  <2>1. rules[j] \subseteq KernelRules
    BY <1>11 DEF IInv, RulesPresent
  <2>2. \A k \in rules[j] : k \notin gone => k \in KernelRules'
    <3>1. SUFFICES ASSUME NEW k \in rules[j], k \notin gone PROVE k \in KernelRules'
      OBVIOUS
    <3>2. PICK x \in krules : x.key = k
      BY <2>1 DEF KernelRules
    <3>3. x \in kept
      BY <1>5, <3>1, <3>2
    <3> QED
      BY <1>7, <3>2, <3>3
  <2>3. CASE j = i
    BY <1>7, <1>9, <2>2, <2>3
  <2>4. CASE j # i
    BY <1>9, <1>10, <2>2, <2>4
  <2> QED
    BY <2>3, <2>4
<1>12. ASSUME \A j \in Iface : <<j, "rules">> \notin doubt'
       PROVE  /\ KernelRules' = UNION {rules'[j] : j \in Iface}
              /\ \A x, y \in krules' : x.key = y.key => x = y
  <2>1. /\ KernelRules = UNION {rules[j] : j \in Iface}
        /\ \A x, y \in krules : x.key = y.key => x = y
    <3>1. RulesKnown
      BY <1>12 DEF RulesKnown
    <3> QED
      BY <3>1 DEF IInv, RulesExact
  <2>2. gone = rules[i] \ asked
    <3>1. SUFFICES ASSUME NEW k, <<"del", "rule", k>> \in failed PROVE FALSE
      OBVIOUS
    <3>2. <<"del", "rule", k>>[1] = "del" /\ <<"del", "rule", k>>[2] = "rule"
      OBVIOUS
    <3>3. <<i, "rules">> \in Doubts(i, failed)
      BY <3>1, <3>2 DEF Doubts
    <3> QED
      BY <1>12, <3>3
  <2>3. {x.key : x \in kept} = KernelRules \ gone
    <3>1. \A x \in kept : x \in krules /\ x.key \notin gone
      BY <1>5, <2>1
    <3>2. \A x \in krules : x.key \notin gone => x \in kept
      BY <1>5
    <3> QED
      BY <3>1, <3>2 DEF KernelRules
  <2>4. missing \cap KernelRules = {}
    BY <1>10, <2>1 DEF missing
  <2>5. \A x, y \in krules' : x.key = y.key => x = y
    <3>1. \A x \in kept : x \in krules /\ x.key \in KernelRules /\ x.key \notin missing
      BY <1>5, <2>4 DEF KernelRules
    <3>2. \A x \in krules' : x \in kept \/ x.key \in missing
      BY <1>7
    <3> QED
      BY <1>7, <2>1, <3>1, <3>2
  <2>6. ASSUME NEW k \in KernelRules' PROVE \E j \in Iface : k \in rules'[j]
    <3>1. CASE k \in missing
      BY <1>9, <3>1 DEF missing
    <3>2. CASE k \in KernelRules \ gone
      <4>1. PICK j \in Iface : k \in rules[j]
        BY <2>1, <3>2
      <4>2. CASE j = i
        BY <1>9, <2>2, <3>2, <4>1, <4>2
      <4>3. CASE j # i
        BY <1>9, <4>1, <4>3
      <4> QED
        BY <4>2, <4>3
    <3> QED
      BY <1>7, <2>3, <2>6, <3>1, <3>2
  <2>7. ASSUME NEW j \in Iface, NEW k \in rules'[j] PROVE k \in KernelRules'
    BY <1>11, <1>12, <2>7
  <2> QED
    BY <2>5, <2>6, <2>7
<1> QED
  BY <1>8, <1>11, <1>12 DEF RulesPresent, RulesExact, RulesKnown
-----------------------------------------------------------------------------
(* DNS: servers and domains replace the old ones of their kind. *)
LEMMA AppliedDNS ==
    ASSUME NEW cfg, \A e \in cfg : e[1] \in {"server", "domain"},
           NEW failed, \A k : <<"apply", k>> \notin failed
    PROVE  applyDNS(cfg, failed, {}) = cfg
<1> DEFINE servers == setKind("server", cfg, {})
<1>1. servers = ofKind("server", cfg)
  BY DEF setKind, ofKind
<1>2. ofKind("domain", servers) = {}
  BY <1>1 DEF ofKind
<1>3. setKind("domain", cfg, servers) = servers \cup ofKind("domain", cfg)
  BY <1>2 DEF setKind
<1>4. ofKind("server", cfg) \cup ofKind("domain", cfg) = cfg
  BY DEF ofKind
<1> HIDE DEF servers
<1>5. applyDNS(cfg, failed, {}) = setKind("domain", cfg, servers)
  BY DEF applyDNS, servers
<1> QED
  BY <1>1, <1>3, <1>4, <1>5

LEMMA SyncedDNS ==
    ASSUME IInv, NEW i \in Iface, rows[i].exists, NEW failed,
           kdns' = [kdns EXCEPT ![i] = SyncDNS(i, failed)],
           dns' = [dns EXCEPT ![i] = DNSRemembered(i, failed)],
           doubt' = doubt \cup Doubts(i, failed)
    PROVE  /\ dns'[i].active \/ dns'[i].cfg = {}
           /\ \A j \in Iface : DNSExact(j)'
<1> DEFINE asked == wantDNS(rows[i])
<1>1. /\ kdns'[i] = SyncDNS(i, failed) /\ dns'[i] = DNSRemembered(i, failed)
      /\ \A j \in Iface \ {i} : kdns'[j] = kdns[j] /\ dns'[j] = dns[j]
      /\ dns[i].active \/ dns[i].cfg = {}
  BY DEF IInv, RowsOK
<1>2. DNSRemembered(i, failed) \in {NoDNS, dns[i], [active |-> TRUE, cfg |-> asked]}
  BY DEF DNSRemembered
<1>3. dns'[i].active \/ dns'[i].cfg = {}
  BY <1>1, <1>2 DEF NoDNS
<1>4. ASSUME <<i, "dns">> \notin doubt' PROVE kdns'[i] = dns'[i].cfg
  <2>1. kdns[i] = dns[i].cfg
    BY <1>4 DEF IInv, DNSExact
  <2>2. \A f \in failed : f[1] \notin {"clear", "apply"}
    BY <1>4 DEF Doubts
  <2>3. <<"clear", "dns">> \notin failed /\ \A k : <<"apply", k>> \notin failed
    <3>1. <<"clear", "dns">>[1] = "clear" /\ \A k : <<"apply", k>>[1] = "apply"
      OBVIOUS
    <3> QED
      BY <2>2, <3>1
  <2>4. \A e \in asked : e[1] \in {"server", "domain"}
    BY Existing, RowsAssumption DEF wantDNS
  <2>5. ~applyFails(asked, failed)
    BY <2>3 DEF applyFails
  <2>6. CASE asked = {}
    <3>1. DNSRemembered(i, failed) = NoDNS
      BY <2>6 DEF DNSRemembered
    <3>2. SyncDNS(i, failed) = IF dns[i].active /\ <<"clear", "dns">> \notin failed
                               THEN {} ELSE kdns[i]
      BY <2>6 DEF SyncDNS
    <3>3. SyncDNS(i, failed) = {}
      BY <1>1, <2>1, <2>3, <3>2
    <3> QED
      BY <1>1, <3>1, <3>3 DEF NoDNS
  <2>7. CASE asked # {}
    <3>1. DNSRemembered(i, failed) = [active |-> TRUE, cfg |-> asked]
      BY <2>5, <2>7 DEF DNSRemembered
    <3>2. CASE Unchanged(i)
      <4>1. SyncDNS(i, failed) = kdns[i] /\ dns[i].cfg = asked
        BY <2>7, <3>2 DEF SyncDNS, Unchanged
      <4> QED
        BY <1>1, <2>1, <3>1, <4>1
    <3>3. CASE ~Unchanged(i)
      <4>1. SyncDNS(i, failed) = applyDNS(asked, failed, {})
        BY <1>1, <2>1, <2>3, <2>7, <3>3 DEF SyncDNS
      <4>2. applyDNS(asked, failed, {}) = asked
        BY <2>3, <2>4, AppliedDNS
      <4> QED
        BY <1>1, <3>1, <4>1, <4>2
    <3> QED
      BY <3>2, <3>3
  <2> QED
    BY <2>6, <2>7
<1>5. ASSUME NEW j \in Iface \ {i}, <<j, "dns">> \notin doubt' PROVE kdns'[j] = dns'[j].cfg
  BY <1>1, <1>5 DEF IInv, DNSExact
<1> QED
  BY <1>3, <1>4, <1>5 DEF DNSExact
-----------------------------------------------------------------------------
(* The actions *)

LEMMA InitExact == Init => IInv
<1> SUFFICES ASSUME Init PROVE IInv
  OBVIOUS
<1>1. RowsOK
  BY DEF Init, RowsOK, NoDNS
<1>2. krules = {} /\ KernelRules = {}
  BY DEF Init, KernelRules
<1>3. \A i \in Iface : RoutesExact(i) /\ RulesPresent(i) /\ DNSExact(i)
  <2>1. \A i \in Iface : routes[i] = {} /\ rules[i] = {} /\ dns[i].cfg = {} /\ kdns[i] = {}
    BY DEF Init, NoDNS
  <2>2. \A r \in RouteKey : kroute[r] = NoIface
    BY DEF Init
  <2>3. NoIface \notin Iface
    BY IfaceAssumption
  <2> QED
    BY <2>1, <2>2, <2>3 DEF RoutesExact, RulesPresent, DNSExact
<1>4. RulesExact
  <2>1. \A i \in Iface : rules[i] = {}
    BY DEF Init
  <2> QED
    BY <1>2, <2>1 DEF RulesExact
<1> QED
  BY <1>1, <1>2, <1>3, <1>4 DEF IInv

LEMMA ReconcileKeeps ==
    ASSUME Apart, IInv, NEW i \in Iface, Reconcile(i)
    PROVE  IInv'
<1>1. rows[i].exists /\ rows' = rows
  BY DEF Reconcile
<1>2. PICK failed :
          /\ kroute' = SyncRoutes(AfterUp(i, failed), i, failed)
          /\ \E prioOf \in Priorities({k \in wantRules(i, rows[i]) \ rules[i] :
                                          <<"add", "rule", k>> \notin failed}) :
                krules' = SyncRules(i, failed, prioOf)
          /\ kdns' = [kdns EXCEPT ![i] = SyncDNS(i, failed)]
          /\ routes' = [routes EXCEPT ![i] = RoutesRemembered(i, failed)]
          /\ rules' = [rules EXCEPT ![i] = RulesRemembered(i, failed)]
          /\ dns' = [dns EXCEPT ![i] = DNSRemembered(i, failed)]
          /\ doubt' = doubt \cup Doubts(i, failed)
  BY DEF Reconcile, AfterUp
<1>3. PICK prioOf \in [{k \in wantRules(i, rows[i]) \ rules[i] :
                           <<"add", "rule", k>> \notin failed} -> Prio] :
          krules' = SyncRules(i, failed, prioOf)
  BY <1>2 DEF Priorities
<1>4. \A j \in Iface : RoutesExact(j)'
  BY <1>1, <1>2, SyncedRoutes
<1>5. /\ krules' \subseteq [key: RuleKey, prio: Prio]
      /\ \A j \in Iface : RulesPresent(j)'
      /\ RulesExact'
  BY <1>1, <1>2, <1>3, SyncedRules
<1>6. /\ dns'[i].active \/ dns'[i].cfg = {}
      /\ \A j \in Iface : DNSExact(j)'
  BY <1>1, <1>2, SyncedDNS
<1>7. RowsOK'
  <2>1. RowsOK /\ rows[i] \in Rows[i]
    BY <1>1, Existing DEF IInv
  <2>2. RoutesRemembered(i, failed) \subseteq RoutesEver(i)
    BY <2>1 DEF RoutesRemembered, RoutesEver
  <2>3. RulesRemembered(i, failed) \subseteq RulesEver(i)
    BY <2>1 DEF RulesRemembered, RulesEver
  <2>4. /\ routes'[i] \subseteq RoutesEver(i) /\ rules'[i] \subseteq RulesEver(i)
        /\ \A j \in Iface \ {i} : /\ routes'[j] = routes[j] /\ rules'[j] = rules[j]
                                  /\ dns'[j] = dns[j]
        /\ DOMAIN routes' = Iface /\ DOMAIN rules' = Iface /\ DOMAIN dns' = Iface
        /\ DOMAIN kdns' = Iface
    BY <1>2, <2>1, <2>2, <2>3 DEF RowsOK
  <2>5. \A j \in Iface :
           /\ rows'[j] \in Rows[j] \cup {NoRow}
           /\ routes'[j] \subseteq RoutesEver(j)
           /\ rules'[j] \subseteq RulesEver(j)
           /\ dns'[j].active \/ dns'[j].cfg = {}
    <3> SUFFICES ASSUME NEW j \in Iface
                 PROVE  /\ rows'[j] \in Rows[j] \cup {NoRow}
                        /\ routes'[j] \subseteq RoutesEver(j)
                        /\ rules'[j] \subseteq RulesEver(j)
                        /\ dns'[j].active \/ dns'[j].cfg = {}
      OBVIOUS
    <3>1. CASE j = i
      BY <1>1, <1>6, <2>1, <2>4, <3>1 DEF RowsOK
    <3>2. CASE j # i
      BY <1>1, <2>1, <2>4, <3>2 DEF RowsOK
    <3> QED
      BY <3>1, <3>2
  <2> QED
    BY <1>1, <2>1, <2>4, <2>5 DEF RowsOK
<1> QED
  BY <1>4, <1>5, <1>6, <1>7 DEF IInv

(* The routes of the other links stay when one link goes. *)
LEMMA FlushedRoutes ==
    ASSUME IInv, NEW i \in Iface, kroute' = FlushRoutes(kroute, i),
           NEW j \in Iface, j # i, routes'[j] = routes[j], doubt \subseteq doubt'
    PROVE  RoutesExact(j)'
<1>1. \A r \in RouteKey : kroute'[r] = IF kroute[r] = i THEN NoIface ELSE kroute[r]
  BY DEF FlushRoutes, delRoutes
<1>2. j # NoIface
  BY IfaceAssumption
<1>3. \A r \in RouteKey : kroute'[r] = j <=> kroute[r] = j
  BY <1>1, <1>2
<1> QED
  BY <1>3 DEF IInv, RoutesExact

LEMMA DeleteKeeps ==
    ASSUME Apart, IInv, NEW i \in Iface, DeleteInterface(i)
    PROVE  IInv'
<1>1. PICK failed :
          /\ krules' = delRules(krules, {k \in rules[i] : <<"del", "rule", k>> \notin failed})
          /\ doubt' = doubt \cup Doubts(i, failed)
  BY DEF DeleteInterface
<1> DEFINE gone == {k \in rules[i] : <<"del", "rule", k>> \notin failed}
<1>2. /\ rows'[i] = NoRow /\ kdns'[i] = {} /\ routes'[i] = {} /\ rules'[i] = {}
      /\ dns'[i].active = FALSE /\ dns'[i].cfg = {}
      /\ \A j \in Iface \ {i} : /\ rows'[j] = rows[j] /\ kdns'[j] = kdns[j]
                                /\ routes'[j] = routes[j] /\ rules'[j] = rules[j]
                                /\ dns'[j] = dns[j]
      /\ DOMAIN rows' = Iface /\ DOMAIN routes' = Iface /\ DOMAIN rules' = Iface
      /\ DOMAIN dns' = Iface /\ DOMAIN kdns' = Iface
  BY DEF IInv, RowsOK, DeleteInterface, NoDNS
<1>3. RowsOK'
  BY <1>2 DEF IInv, RowsOK
<1>4. krules \subseteq [key: RuleKey, prio: Prio]
  BY DEF IInv
<1>5. /\ krules' \subseteq krules
      /\ \A x \in krules : x.key \notin gone => x \in krules'
      /\ (\A x, y \in krules : x.key = y.key => x = y) => \A x \in krules' : x.key \notin gone
  BY <1>1, <1>4, DeletedRules
<1>6. \A j \in Iface : RoutesExact(j)'
  <2>1. kroute' = FlushRoutes(kroute, i) /\ doubt \subseteq doubt'
    BY <1>1 DEF DeleteInterface
  <2>2. \A r \in RouteKey : kroute'[r] # i
    BY <2>1, IfaceAssumption DEF FlushRoutes, delRoutes
  <2>3. RoutesExact(i)'
    BY <1>2, <2>2 DEF RoutesExact
  <2> QED
    BY <1>2, <2>1, <2>3, FlushedRoutes
<1>7. \A j \in Iface : DNSExact(j)'
  <2>1. SUFFICES ASSUME NEW j \in Iface, <<j, "dns">> \notin doubt' PROVE kdns'[j] = dns'[j].cfg
    BY DEF DNSExact
  <2>2. DNSExact(j) /\ <<j, "dns">> \notin doubt
    BY <1>1, <2>1 DEF IInv
  <2> QED
    BY <1>2, <2>2 DEF DNSExact
<1>8. \A j \in Iface \ {i} : rules[j] \cap gone = {}
  BY OthersRules
<1>9. \A j \in Iface : RulesPresent(j)'
  <2>1. SUFFICES ASSUME NEW j \in Iface, <<j, "rules">> \notin doubt', NEW k \in rules'[j]
                 PROVE  \E x \in krules' : x.key = k
    BY DEF RulesPresent, KernelRules
  <2>2. j # i /\ k \in rules[j]
    BY <1>2, <2>1
  <2>3. <<j, "rules">> \notin doubt
    BY <1>1, <2>1
  <2>4. PICK x \in krules : x.key = k
    BY <2>2, <2>3 DEF IInv, RulesPresent, KernelRules
  <2> QED
    BY <1>5, <1>8, <2>2, <2>4
<1>10. RulesExact'
  <2>1. SUFFICES ASSUME \A j \in Iface : <<j, "rules">> \notin doubt'
                 PROVE  /\ KernelRules' = UNION {rules'[j] : j \in Iface}
                        /\ \A x, y \in krules' : x.key = y.key => x = y
    BY DEF RulesExact, RulesKnown
  <2>2. /\ KernelRules = UNION {rules[j] : j \in Iface}
        /\ \A x, y \in krules : x.key = y.key => x = y
    <3>1. RulesKnown
      BY <1>1, <2>1 DEF RulesKnown
    <3> QED
      BY <3>1 DEF IInv, RulesExact
  <2>3. gone = rules[i]
    <3>1. SUFFICES ASSUME NEW k, <<"del", "rule", k>> \in failed PROVE FALSE
      OBVIOUS
    <3>2. <<"del", "rule", k>>[1] = "del" /\ <<"del", "rule", k>>[2] = "rule"
      OBVIOUS
    <3>3. <<i, "rules">> \in Doubts(i, failed)
      BY <3>1, <3>2 DEF Doubts
    <3> QED
      BY <1>1, <2>1, <3>3
  <2>4. ASSUME NEW x \in krules' PROVE \E j \in Iface : x.key \in rules'[j]
    <3>1. x \in krules /\ x.key \notin rules[i]
      BY <1>5, <2>2, <2>3, <2>4
    <3>2. PICK j \in Iface : x.key \in rules[j]
      BY <2>2, <3>1 DEF KernelRules
    <3> QED
      BY <1>2, <3>1, <3>2
  <2>5. ASSUME NEW j \in Iface, NEW k \in rules'[j] PROVE \E x \in krules' : x.key = k
    BY <1>9, <2>1, <2>5 DEF RulesPresent, KernelRules
  <2>6. KernelRules' = UNION {rules'[j] : j \in Iface}
    <3>1. KernelRules' \subseteq UNION {rules'[j] : j \in Iface}
      BY <2>4 DEF KernelRules
    <3>2. UNION {rules'[j] : j \in Iface} \subseteq KernelRules'
      BY <2>5 DEF KernelRules
    <3> QED
      BY <3>1, <3>2
  <2> QED
    BY <1>5, <2>2, <2>6
<1> QED
  BY <1>3, <1>4, <1>5, <1>6, <1>7, <1>9, <1>10 DEF IInv

LEMMA WriteKeeps ==
    ASSUME IInv, NEW i \in Iface, NEW row \in Rows[i], WriteRow(i, row)
    PROVE  IInv'
<1>1. /\ \A j \in Iface : rows'[j] \in Rows[j] \cup {NoRow}
      /\ DOMAIN rows' = Iface
  BY DEF IInv, RowsOK, WriteRow
<1>2. /\ krules' = krules /\ kroute' = kroute /\ kdns' = kdns /\ doubt' = doubt
      /\ routes' = routes /\ rules' = rules /\ dns' = dns
  BY DEF WriteRow, hostVars, memVars
<1> QED
  BY <1>1, <1>2 DEF IInv, RowsOK, RoutesExact, RulesPresent, DNSExact, RulesExact, RulesKnown,
                    KernelRules

LEMMA LostKeeps ==
    ASSUME IInv, NEW i \in Iface, LinkLost(i)
    PROVE  IInv'
<1>1. /\ rows' = rows /\ krules' = krules /\ routes' = routes /\ rules' = rules /\ dns' = dns
      /\ kroute' = FlushRoutes(kroute, i) /\ kdns' = [kdns EXCEPT ![i] = {}]
      /\ doubt' = doubt \cup {<<i, "routes">>, <<i, "dns">>}
  BY DEF LinkLost, memVars
<1>2. RowsOK'
  BY <1>1 DEF IInv, RowsOK
<1>3. \A j \in Iface : RoutesExact(j)'
  <2>1. RoutesExact(i)'
    BY <1>1 DEF RoutesExact
  <2> QED
    BY <1>1, <2>1, FlushedRoutes
<1>4. \A j \in Iface : DNSExact(j)'
  <2>1. \A j \in Iface \ {i} : kdns'[j] = kdns[j]
    BY <1>1 DEF IInv, RowsOK
  <2> QED
    BY <1>1, <2>1 DEF IInv, DNSExact
<1>5. \A j \in Iface : <<j, "rules">> \notin doubt' <=> <<j, "rules">> \notin doubt
  BY <1>1
<1>6. (\A j \in Iface : RulesPresent(j)') /\ RulesExact'
  BY <1>1, <1>5 DEF IInv, RulesPresent, RulesExact, RulesKnown, KernelRules
<1> QED
  BY <1>1, <1>2, <1>3, <1>4, <1>6 DEF IInv

LEMMA RestartKeeps == ASSUME IInv, Restart PROVE IInv'
<1>1. /\ rows' = rows /\ krules' = krules /\ kdns' = kdns
      /\ routes' = [i \in Iface |-> {}] /\ rules' = [i \in Iface |-> {}]
      /\ dns' = [i \in Iface |-> NoDNS] /\ doubt' = Iface \X {"routes", "rules", "dns"}
  BY DEF Restart, hostVars
<1>2. RowsOK'
  BY <1>1 DEF IInv, RowsOK, NoDNS
<1>3. \A i \in Iface : RoutesExact(i)' /\ RulesPresent(i)' /\ DNSExact(i)'
  BY <1>1 DEF RoutesExact, RulesPresent, DNSExact
<1>4. RulesExact'
  <2>1. CASE Iface = {}
    <3>1. KernelRules = {}
      BY <2>1 DEF IInv, RulesExact, RulesKnown
    <3> QED
      BY <1>1, <2>1, <3>1 DEF IInv, RulesExact, RulesKnown, KernelRules
  <2>2. CASE Iface # {}
    BY <1>1, <2>2 DEF RulesExact, RulesKnown
  <2> QED
    BY <2>1, <2>2
<1> QED
  BY <1>1, <1>2, <1>3, <1>4 DEF IInv

LEMMA StepKeeps == ASSUME Apart, IInv, [Next]_vars PROVE IInv'
<1>1. ASSUME NEW i \in Iface, Reconcile(i) PROVE IInv'
  BY <1>1, ReconcileKeeps
<1>2. ASSUME NEW i \in Iface, DeleteInterface(i) PROVE IInv'
  BY <1>2, DeleteKeeps
<1>3. ASSUME NEW i \in Iface, NEW row \in Rows[i], WriteRow(i, row) PROVE IInv'
  BY <1>3, WriteKeeps
<1>4. ASSUME NEW i \in Iface, LinkLost(i) PROVE IInv'
  BY <1>4, LostKeeps
<1>5. CASE Restart
  BY <1>5, RestartKeeps
<1>6. CASE ListingExpires \/ RunEmpty \/ UNCHANGED vars
  <2>1. /\ rows' = rows /\ krules' = krules /\ kroute' = kroute /\ kdns' = kdns
        /\ doubt' = doubt /\ routes' = routes /\ rules' = rules /\ dns' = dns
    BY <1>6 DEF ListingExpires, RunEmpty, vars, hostVars, memVars
  <2> QED
    BY <2>1 DEF IInv, RowsOK, RoutesExact, RulesPresent, DNSExact, RulesExact, RulesKnown,
                KernelRules
<1> QED
  BY <1>1, <1>2, <1>3, <1>4, <1>5, <1>6 DEF Next

(* The backend's memory is what is on the host, for any interfaces, rows    *)
(* and number of failures, when no two interfaces want one route or rule    *)
(* (routeState.sync, dnsState.sync and ApplySuspendRoutes work on the       *)
(* difference to that memory).                                              *)
THEOREM MemoryStaysExact == Apart => (Spec => []MemoryIsExact)
<1>1. Init => IInv
  BY InitExact
<1>2. Apart /\ IInv /\ [Next]_vars => IInv'
  BY StepKeeps
<1>3. IInv => MemoryIsExact
  BY DEF IInv, MemoryIsExact, RoutesExact, RulesPresent, DNSExact, RulesExact, RulesKnown,
         KernelRules
<1> SUFFICES ASSUME Apart PROVE Spec => []MemoryIsExact
  OBVIOUS
<1>4. IInv /\ [Next]_vars => IInv'
  BY <1>2
<1> QED
  BY <1>1, <1>3, <1>4, PTL DEF Spec
-----------------------------------------------------------------------------
(* Bandwidth limits. *)

(* Every set of naturals has a least member. *)
Less == {ss \in Nat \X Nat : ss[1] < ss[2]}

LEMMA LessWellFounded == IsWellFoundedOn(Less, Nat)
BY NatLessThanWellFounded DEF OpToRel, Less

LEMMA Least ==
    ASSUME NEW S, S \subseteq Nat, S # {}
    PROVE  \E x \in S : \A y \in S : x <= y
<1>1. PICK x \in S : \A y \in S : <<y, x>> \notin Less
  BY WFMin, LessWellFounded
<1>2. \A y \in Nat, z \in Nat : y < z => <<y, z>> \in Less
  <2> SUFFICES ASSUME NEW y \in Nat, NEW z \in Nat, y < z PROVE <<y, z>> \in Less
    OBVIOUS
  <2>1. <<y, z>> \in Nat \X Nat /\ <<y, z>>[1] < <<y, z>>[2]
    OBVIOUS
  <2> QED
    BY <2>1 DEF Less
<1>3. \A y \in S : ~(y < x)
  BY <1>1, <1>2
<1>4. x \in Nat /\ \A y \in S : y \in Nat
  OBVIOUS
<1> QED
  BY <1>3, <1>4

(* Less than a whole turn further is somewhere else on the circle. *)
LEMMA TurnsElsewhere ==
    ASSUME NEW s \in Nat, s > 0, NEW x \in Nat, NEW d \in 1..(s - 1)
    PROVE  (x + d) % s # x % s
<1> SUFFICES ASSUME (x + d) % s = x % s PROVE FALSE
  OBVIOUS
<1> PICK r, q, t : r = x % s /\ q = x \div s /\ t = (x + d) \div s
  OBVIOUS
<1>1. q \in Int /\ t \in Int /\ r \in 0..(s - 1)
  OBVIOUS
<1>2. x = s * q + r /\ x + d = s * t + r
  OBVIOUS
<1>3. d = s * (t - q)
  BY <1>1, <1>2
<1>4. CASE t - q >= 1
  <2>1. s * (t - q) >= s
    BY <1>1, <1>4
  <2> QED
    BY <1>3, <2>1
<1>5. CASE t - q <= 0
  <2>1. s * (t - q) <= 0
    BY <1>1, <1>5
  <2> QED
    BY <1>3, <2>1
<1> QED
  BY <1>1, <1>4, <1>5

Slot(p, k) == tcMinorMin + ((Hint[p] + k) % Slots)

LEMMA SlotsApart ==
    ASSUME NEW p \in Peer, Slots > 0, NEW j \in 0..Slots - 1, NEW k \in 0..Slots - 1,
           Slot(p, j) = Slot(p, k)
    PROVE  j = k
<1>1. Slots \in Nat /\ Hint[p] \in Nat
  BY SlotsAssumption, HintAssumption
<1> PICK s, h : s = Slots /\ h = Hint[p]
  OBVIOUS
<1>2. (h + j) % s = (h + k) % s
  <2>1. (h + j) % s \in Int /\ (h + k) % s \in Int
    BY <1>1
  <2> QED
    BY <2>1 DEF Slot, tcMinorMin
<1>3. ASSUME NEW a \in 0..s - 1, NEW b \in 0..s - 1, a < b, (h + a) % s = (h + b) % s
      PROVE  FALSE
  <2>1. h + a \in Nat /\ b - a \in 1..(s - 1) /\ (h + a) + (b - a) = h + b
    BY <1>1, <1>3
  <2> PICK x, d : x = h + a /\ d = b - a
    OBVIOUS
  <2>2. (x + d) % s # x % s
    BY <1>1, <2>1, TurnsElsewhere
  <2> QED
    BY <1>3, <2>1, <2>2
<1> QED
  BY <1>1, <1>2, <1>3

LEMMA SlotsAreMinors ==
    ASSUME NEW p \in Peer, Slots > 0, NEW k \in 0..Slots - 1
    PROVE  Slot(p, k) \in Minor
<1>1. Slots \in Nat /\ Hint[p] + k \in Nat
  BY SlotsAssumption, HintAssumption
<1>2. (Hint[p] + k) % Slots \in 0..Slots - 1
  BY <1>1
<1> QED
  BY <1>1, <1>2 DEF Slot, Minor, tcMinorMin

(* There are no more peers than slots, so one of them is left for a peer.   *)
LEMMA FewPeers ==
    ASSUME NEW p \in Peer
    PROVE  /\ Slots > 0 /\ IsFiniteSet(Peer \ {p}) /\ Cardinality(Peer \ {p}) < Slots
<1>1. Len(Peers) \in Nat /\ DOMAIN Peers = 1..Len(Peers) /\ Slots \in Nat /\ Len(Peers) <= Slots
  BY PeersAssumption, SlotsAssumption
<1>2. Len(Peers) > 0
  BY <1>1 DEF Peer, Range
<1>3. Peers \in Surjection(1..Len(Peers), Peer)
  <2>1. Peers \in [1..Len(Peers) -> Peer]
    BY PeersAssumption
  <2>2. \A x \in Peer : \E i \in 1..Len(Peers) : Peers[i] = x
    BY <1>1 DEF Peer, Range
  <2> QED
    BY <2>1, <2>2 DEF Surjection
<1>4. IsFiniteSet(1..Len(Peers)) /\ Cardinality(1..Len(Peers)) = Len(Peers)
  <2> PICK n : n = Len(Peers)
    OBVIOUS
  <2>0. 1 \in Int /\ n \in Int
    BY <1>1
  <2>1. IsFiniteSet(1..n) /\ Cardinality(1..n) = IF 1 > n THEN 0 ELSE n - 1 + 1
    BY <2>0, FS_Interval
  <2> QED
    BY <1>1, <2>1
<1>5. IsFiniteSet(Peer) /\ Cardinality(Peer) <= Len(Peers)
  BY <1>3, <1>4, FS_Surjection
<1>6. IsFiniteSet(Peer \ {p}) /\ Cardinality(Peer \ {p}) = Cardinality(Peer) - 1
  BY <1>5, FS_RemoveElement
<1>7. Cardinality(Peer) \in Nat
  BY <1>5, FS_CardinalityType
<1> QED
  BY <1>1, <1>2, <1>5, <1>6, <1>7

LEMMA SomeSlotFree ==
    ASSUME NEW S, NEW p \in Peer
    PROVE  \E k \in 0..Slots - 1 : Slot(p, k) \notin MinorsUsed(S, p)
<1>1. Slots \in Nat /\ Slots > 0 /\ IsFiniteSet(Peer \ {p}) /\ Cardinality(Peer \ {p}) < Slots
  BY FewPeers, SlotsAssumption
<1> SUFFICES ASSUME \A k \in 0..Slots - 1 : Slot(p, k) \in MinorsUsed(S, p) PROVE FALSE
  OBVIOUS
<1> DEFINE Holder(k) == CHOOSE q \in Peer \ {p} : S.peers[q].minor = Slot(p, k)
           holder == [k \in 0..Slots - 1 |-> Holder(k)]
<1>2. \A k \in 0..Slots - 1 : Holder(k) \in Peer \ {p} /\ S.peers[Holder(k)].minor = Slot(p, k)
  BY DEF MinorsUsed
<1> HIDE DEF Holder
<1>3. holder \in [0..Slots - 1 -> Peer \ {p}]
  BY <1>2
<1>4. \A j, k \in 0..Slots - 1 : holder[j] = holder[k] => j = k
  <2> SUFFICES ASSUME NEW j \in 0..Slots - 1, NEW k \in 0..Slots - 1, Holder(j) = Holder(k)
               PROVE  j = k
    OBVIOUS
  <2>1. Slot(p, j) = Slot(p, k)
    BY <1>2
  <2> QED
    BY <1>1, <2>1, SlotsApart
<1>5. holder \in Injection(0..Slots - 1, Peer \ {p})
  BY <1>3, <1>4 DEF Injection, IsInjective
<1>6. Cardinality(0..Slots - 1) = Slots
  <2>1. Slots - 1 \in Int
    BY <1>1
  <2>2. Cardinality(0..Slots - 1) = IF 0 > Slots - 1 THEN 0 ELSE (Slots - 1) - 0 + 1
    BY <2>1, FS_Interval
  <2> QED
    BY <1>1, <2>2
<1> HIDE DEF holder
<1>7. Cardinality(0..Slots - 1) <= Cardinality(Peer \ {p})
  BY <1>1, <1>5, FS_Injection
<1>8. Cardinality(Peer \ {p}) \in Nat
  BY <1>1, FS_CardinalityType
<1> QED
  BY <1>1, <1>6, <1>7, <1>8

(* The probe finds a minor in the reserved range that nobody else uses. *)
LEMMA MinorAllocated ==
    ASSUME NEW S, NEW p \in Peer
    PROVE  allocateMinor(S, p) \in Minor /\ allocateMinor(S, p) \notin MinorsUsed(S, p)
<1> DEFINE used == MinorsUsed(S, p)
           slot(k) == tcMinorMin + ((Hint[p] + k) % Slots)
           free(k) == slot(k) \notin used
           Found(i) == free(i) /\ \A j \in 0..i - 1 : ~free(j)
           i == CHOOSE i \in 0..Slots - 1 : Found(i)
           Free == {k \in 0..Slots - 1 : free(k)}
<1>1. Free \subseteq Nat /\ Free # {}
  BY SomeSlotFree DEF Slot
<1>2. PICK k \in Free : \A j \in Free : k <= j
  <2> HIDE DEF Free
  <2> QED
    BY <1>1, Least
<1>3. \A j \in 0..k - 1 : j \in 0..Slots - 1 /\ ~(k <= j)
  BY SlotsAssumption
<1>4. k \in 0..Slots - 1 /\ Found(k)
  BY <1>2, <1>3
<1>5. i \in 0..Slots - 1 /\ free(i)
  <2> HIDE DEF free
  <2> QED
    BY <1>4
<1>6. allocateMinor(S, p) = slot(i)
  BY DEF allocateMinor
<1> HIDE DEF i
<1>7. slot(i) \in Minor
  BY <1>5, SlotsAreMinors, FewPeers DEF Slot
<1> QED
  BY <1>5, <1>6, <1>7
-----------------------------------------------------------------------------
(* One peer of a tc sync *)

PeerStates == [active: BOOLEAN, minor: Minor \cup {0}, lim: Limits]

Rates == {w.tx : w \in Limits}

FilterOK(f) == f.ip[1] \in Peer /\ (f.dir = "tx" => f.to \in Minor)

Known(S) == S.filters \ S.strays

(* What a sync threads through its peers: those with a limit have a minor   *)
(* each, and not the same one.                                              *)
TableOK(S) ==
    /\ S.peers \in [Peer -> PeerStates]
    /\ S.classes \in [Minor -> Rates]
    /\ \A f \in S.filters : FilterOK(f)
    /\ S.strays \subseteq S.filters /\ S.hit \subseteq Peer
    /\ \A p \in Peer : S.peers[p].active => S.peers[p].minor \in Minor
    /\ \A p, q \in Peer : S.peers[p].active /\ S.peers[q].active /\ p # q
                            => S.peers[p].minor # S.peers[q].minor

(* Every filter but a stray is one that its peer's limit asks for. *)
Owned(S) ==
    \A f \in Known(S) : \E p \in Peer : S.peers[p].active /\ f \in FiltersOf(p, S.peers[p])

(* A limit that is remembered as applied is on the link, unless clearing    *)
(* another peer took filters of it.                                         *)
InForce(S, p) ==
    S.peers[p].active /\ p \notin S.hit =>
        /\ FiltersOf(p, S.peers[p]) \subseteq Known(S)
        /\ S.peers[p].lim.tx > 0 => S.classes[S.peers[p].minor] = S.peers[p].lim.tx

(* Keys that hash far enough apart for no window to reach another peer's    *)
(* filters, whatever the limits.                                            *)
Reach(p, w) == Window([minor |-> Slot(p, 0), lim |-> w])

KeysApart ==
    \A p, q \in Peer : p # q => \A v, w \in Limits : Reach(p, v) \cap Reach(q, w) = {}

AtHome(S) == \A p \in Peer : S.peers[p].active => S.peers[p].minor = Slot(p, 0)

(* What a sync keeps of it; the limits are in force unless the qdiscs are   *)
(* gone.                                                                    *)
Kept(S, hasQdisc) ==
    /\ TableOK(S) /\ Owned(S)
    /\ hasQdisc => \A p \in Peer : InForce(S, p)
    /\ KeysApart => AtHome(S) /\ S.hit = {}

LEMMA LimitIs ==
    ASSUME NEW w \in Limits
    PROVE  w.tx \in Nat /\ w.rx \in Nat /\ w.n \in Nat
BY LimitsAssumption

LEMMA NoRate == NoLimit \in Limits /\ 0 \in Rates
<1>1. NoLimit \in Limits /\ NoLimit.tx = 0
  BY LimitsAssumption DEF NoLimit
<1> QED
  BY <1>1 DEF Rates

LEMMA NothingApplied == NoTC \in PeerStates /\ ~NoTC.active
BY NoRate DEF NoTC, PeerStates

LEMMA MinorIs == \A m \in Minor : m \in Nat /\ m # 0
BY SlotsAssumption DEF Minor, tcMinorMin

(* The preferences of a peer's filters are in the window that clearing it   *)
(* deletes.                                                                 *)
LEMMA FiltersInWindow ==
    ASSUME NEW p \in Peer, NEW st \in PeerStates, NEW f \in FiltersOf(p, st)
    PROVE  /\ f.pref \in Window(st) /\ f.ip[1] = p /\ f.dir \in {"tx", "rx"}
           /\ f.dir = "tx" => f.to = st.minor
<1>1. st.minor \in Nat /\ st.lim.tx \in Nat /\ st.lim.n \in Nat
  BY LimitIs, MinorIs DEF PeerStates
<1> PICK n, m, txs : n = st.lim.n /\ m = st.minor /\ txs = IF st.lim.tx > 0 THEN n ELSE 0
  OBVIOUS
<1>2. n \in Nat /\ m \in Nat /\ txs \in 0..n
  BY <1>1
<1>3. CASE \E k \in 1..txs : f = [dir |-> "tx", pref |-> m + k - 1, ip |-> <<p, k>>, to |-> m]
  BY <1>2, <1>3 DEF Window
<1>4. CASE \E k \in 1..n : f = [dir |-> "rx", pref |-> m + txs + k - 1, ip |-> <<p, k>>,
                                to |-> st.lim.rx]
  BY <1>2, <1>4 DEF Window
<1>5. CASE \E k \in 1..(IF st.lim.rx > 0 THEN n ELSE 0) :
              f = [dir |-> "rx", pref |-> m + txs + k - 1, ip |-> <<p, k>>, to |-> st.lim.rx]
  <2>1. CASE st.lim.rx > 0
    BY <1>4, <1>5, <2>1
  <2>2. CASE ~(st.lim.rx > 0)
    BY <1>5, <2>2
  <2> QED
    BY <2>1, <2>2
<1> QED
  BY <1>3, <1>5 DEF FiltersOf

(* Whichever deletions fail: some filters in the windows are gone, and what *)
(* is left of the cleared peers has become a stray.                         *)
ClearedTo(S, ps, T, gone, freed) ==
    /\ gone \subseteq {f \in S.filters : \E p \in ps : f.pref \in Window(S.peers[p])}
    /\ freed \subseteq {S.peers[p].minor : p \in ps}
    /\ T.peers = [p \in Peer |-> IF p \in ps THEN NoTC ELSE S.peers[p]]
    /\ T.classes = [m \in Minor |-> IF m \in freed THEN 0 ELSE S.classes[m]]
    /\ T.filters = S.filters \ gone
    /\ T.strays = (S.strays \cup {f \in S.filters : /\ f.ip[1] \in ps
                                                    /\ \E p \in ps : f.pref \in Window(S.peers[p])})
                     \ gone
    /\ T.hit = (S.hit \cup {f.ip[1] : f \in gone \ S.strays}) \ ps

LEMMA ClearingIs ==
    ASSUME NEW S, NEW ps, NEW faulty, NEW T \in clearPeerTC(S, ps, faulty)
    PROVE  \E gone, freed : ClearedTo(S, ps, T, gone, freed)
<1> DEFINE tried  == {f \in S.filters : \E p \in ps : f.pref \in Window(S.peers[p])}
           minors == {S.peers[p].minor : p \in ps}
           keys   == {<<f.dir, f.pref>> : f \in tried}
           Taken(done) == {f \in tried : <<f.dir, f.pref>> \in done}
           Left(done, freed) ==
               [peers   |-> S.peers,
                classes |-> [m \in Minor |-> IF m \in freed THEN 0 ELSE S.classes[m]],
                filters |-> S.filters \ Taken(done),
                strays  |-> (S.strays \cup {f \in tried : f.ip[1] \in ps}) \ Taken(done),
                hit     |-> (S.hit \cup {f.ip[1] : f \in Taken(done) \ S.strays}) \ ps]
<1>1. PICK U \in Deletions(S, ps, faulty) :
          T = [U EXCEPT !.peers = [p \in Peer |-> IF p \in ps THEN NoTC ELSE S.peers[p]]]
  BY DEF clearPeerTC
<1>2. Deletions(S, ps, faulty)
        = {Left(done, freed) : done  \in IF faulty THEN SUBSET keys ELSE {keys},
                               freed \in IF faulty THEN SUBSET minors ELSE {minors}}
  BY DEF Deletions
<1>3. PICK done, freed : freed \subseteq minors /\ U = Left(done, freed)
  <2> HIDE DEF Left, keys, minors
  <2> QED
    BY <1>1, <1>2
<1>4. PICK gone : gone = Taken(done)
  OBVIOUS
<1>5. ClearedTo(S, ps, T, gone, freed)
  <2>1. /\ T.peers = [p \in Peer |-> IF p \in ps THEN NoTC ELSE S.peers[p]]
        /\ T.classes = [m \in Minor |-> IF m \in freed THEN 0 ELSE S.classes[m]]
        /\ T.filters = S.filters \ gone
        /\ T.strays = (S.strays \cup {f \in tried : f.ip[1] \in ps}) \ gone
        /\ T.hit = (S.hit \cup {f.ip[1] : f \in gone \ S.strays}) \ ps
    <3> HIDE DEF Taken, tried
    <3> QED
      BY <1>1, <1>3, <1>4
  <2>2. {f \in tried : f.ip[1] \in ps}
          = {f \in S.filters : /\ f.ip[1] \in ps
                               /\ \E p \in ps : f.pref \in Window(S.peers[p])}
    OBVIOUS
  <2>3. gone \subseteq tried
    BY <1>4
  <2> QED
    BY <1>3, <2>1, <2>2, <2>3 DEF ClearedTo
<1> QED
  BY <1>5

(* Clearing peers takes everything of theirs or leaves it as strays; what   *)
(* it takes of another peer, that peer has lost.                            *)
LEMMA ClearingKeeps ==
    ASSUME NEW S, TableOK(S), Owned(S), NEW ps, ps \subseteq Peer,
           \A p \in ps : S.peers[p].active, NEW faulty, NEW T \in clearPeerTC(S, ps, faulty)
    PROVE  /\ TableOK(T) /\ Owned(T)
           /\ T.peers = [p \in Peer |-> IF p \in ps THEN NoTC ELSE S.peers[p]]
           /\ \A q \in Peer : InForce(S, q) \/ q \in ps => InForce(T, q)
           /\ KeysApart /\ AtHome(S) /\ S.hit = {} => T.hit = {}
<1>1. PICK gone, freed : ClearedTo(S, ps, T, gone, freed)
  BY ClearingIs
<1> DEFINE tried == {f \in S.filters : \E p \in ps : f.pref \in Window(S.peers[p])}
<1>2. /\ gone \subseteq tried
      /\ T.peers = [p \in Peer |-> IF p \in ps THEN NoTC ELSE S.peers[p]]
      /\ T.classes = [m \in Minor |-> IF m \in freed THEN 0 ELSE S.classes[m]]
      /\ T.filters = S.filters \ gone
      /\ T.strays = (S.strays \cup {f \in tried : f.ip[1] \in ps}) \ gone
      /\ T.hit = (S.hit \cup {f.ip[1] : f \in gone \ S.strays}) \ ps
  BY <1>1 DEF ClearedTo
<1>3. freed \subseteq {S.peers[p].minor : p \in ps}
  BY <1>1 DEF ClearedTo
<1>4. tried \subseteq S.filters /\ \A f \in gone : f.ip[1] \in Peer
  BY <1>2 DEF TableOK, FilterOK
<1>5. TableOK(T)
  <2>1. T.peers \in [Peer -> PeerStates]
    BY <1>2, NothingApplied DEF TableOK
  <2>2. T.classes \in [Minor -> Rates]
    BY <1>2, NoRate DEF TableOK
  <2>3. \A p \in Peer : T.peers[p].active => T.peers[p] = S.peers[p]
    BY <1>2, NothingApplied
  <2>4. T.strays \subseteq T.filters /\ T.hit \subseteq Peer
    <3> HIDE DEF tried
    <3> QED
      BY <1>2, <1>4 DEF TableOK
  <2>5. \A f \in T.filters : FilterOK(f)
    BY <1>2 DEF TableOK
  <2>6. /\ \A p \in Peer : T.peers[p].active => T.peers[p].minor \in Minor
        /\ \A p, q \in Peer : T.peers[p].active /\ T.peers[q].active /\ p # q
                                => T.peers[p].minor # T.peers[q].minor
    <3>1. \A p \in Peer : T.peers[p].active => S.peers[p].active
      BY <2>3
    <3>2. \A p, q \in Peer : S.peers[p].active /\ S.peers[q].active /\ p # q
                               => S.peers[p].minor # S.peers[q].minor
      BY DEF TableOK
    <3>3. \A p \in Peer : S.peers[p].active => S.peers[p].minor \in Minor
      BY DEF TableOK
    <3> QED
      BY <2>3, <3>1, <3>2, <3>3
  <2> QED
    BY <2>1, <2>2, <2>4, <2>5, <2>6 DEF TableOK
<1>6. Owned(T)
  <2> SUFFICES ASSUME NEW f \in Known(T)
               PROVE  \E q \in Peer : T.peers[q].active /\ f \in FiltersOf(q, T.peers[q])
    BY DEF Owned
  <2>1. f \in Known(S) /\ ~(f \in tried /\ f.ip[1] \in ps)
    <3> HIDE DEF tried
    <3> QED
      BY <1>2 DEF Known
  <2>2. PICK q \in Peer : S.peers[q].active /\ f \in FiltersOf(q, S.peers[q])
    BY <2>1 DEF Owned
  <2>3. S.peers[q] \in PeerStates
    BY DEF TableOK
  <2>4. f.ip[1] = q /\ f.pref \in Window(S.peers[q])
    BY <2>2, <2>3, FiltersInWindow
  <2>5. q \notin ps
    BY <2>1, <2>4 DEF Known
  <2>6. T.peers[q] = S.peers[q]
    BY <1>2, <2>5
  <2> QED
    BY <2>2, <2>6
<1>7. ASSUME NEW q \in Peer, InForce(S, q) \/ q \in ps PROVE InForce(T, q)
  <2> SUFFICES ASSUME T.peers[q].active, q \notin T.hit
               PROVE  /\ FiltersOf(q, T.peers[q]) \subseteq Known(T)
                      /\ T.peers[q].lim.tx > 0 => T.classes[T.peers[q].minor] = T.peers[q].lim.tx
    BY DEF InForce
  <2>1. q \notin ps /\ T.peers[q] = S.peers[q]
    BY <1>2, NothingApplied
  <2>2. S.peers[q].active /\ q \notin S.hit /\ \A f \in gone \ S.strays : f.ip[1] # q
    BY <1>2, <2>1
  <2>3. /\ FiltersOf(q, S.peers[q]) \subseteq Known(S)
        /\ S.peers[q].lim.tx > 0 => S.classes[S.peers[q].minor] = S.peers[q].lim.tx
    BY <1>7, <2>1, <2>2 DEF InForce
  <2>4. S.peers[q] \in PeerStates /\ S.peers[q].minor \in Minor
    BY <2>2 DEF TableOK
  <2>5. ASSUME NEW f \in FiltersOf(q, S.peers[q]) PROVE f \in Known(T)
    <3>1. f.ip[1] = q /\ f \in S.filters /\ f \notin S.strays
      BY <2>3, <2>4, FiltersInWindow DEF Known
    <3>2. f \notin gone
      BY <2>2, <3>1
    <3> HIDE DEF tried
    <3> QED
      BY <1>2, <2>1, <3>1, <3>2 DEF Known
  <2>6. S.peers[q].minor \notin freed
    BY <1>3, <2>1, <2>2 DEF TableOK
  <2>7. T.classes[S.peers[q].minor] = S.classes[S.peers[q].minor]
    BY <1>2, <2>4, <2>6
  <2> QED
    BY <2>1, <2>3, <2>5, <2>7
<1>8. ASSUME KeysApart, AtHome(S), S.hit = {} PROVE T.hit = {}
  <2> SUFFICES ASSUME NEW f \in gone \ S.strays, f.ip[1] \notin ps PROVE FALSE
    BY <1>2, <1>8
  <2>1. f \in Known(S) /\ \E p \in ps : f.pref \in Window(S.peers[p])
    BY <1>2 DEF Known
  <2>2. PICK q \in Peer : S.peers[q].active /\ f \in FiltersOf(q, S.peers[q])
    BY <2>1 DEF Owned
  <2>3. PICK p \in ps : f.pref \in Window(S.peers[p])
    BY <2>1
  <2>4. S.peers[q] \in PeerStates /\ S.peers[p] \in PeerStates /\ p \in Peer
    BY DEF TableOK
  <2>5. f.ip[1] = q /\ f.pref \in Window(S.peers[q])
    BY <2>2, <2>4, FiltersInWindow
  <2>6. p # q /\ S.peers[p].active
    BY <2>5
  <2>7. /\ Window(S.peers[p]) = Reach(p, S.peers[p].lim)
        /\ Window(S.peers[q]) = Reach(q, S.peers[q].lim)
    BY <1>8, <2>2, <2>4, <2>6 DEF AtHome, Reach, Window
  <2>8. S.peers[p].lim \in Limits /\ S.peers[q].lim \in Limits
    BY <2>4 DEF PeerStates
  <2>9. Reach(p, S.peers[p].lim) \cap Reach(q, S.peers[q].lim) = {}
    BY <1>8, <2>4, <2>6, <2>8 DEF KeysApart
  <2> QED
    BY <2>3, <2>5, <2>7, <2>9
<1> QED
  BY <1>2, <1>5, <1>6, <1>7, <1>8

(* A class and some filters for a peer that has nothing, at a minor no one  *)
(* else has.                                                                *)
AppliedTo(S, p, st, rate, made, T) ==
    /\ TableOK(S) /\ Owned(S)
    /\ p \in Peer /\ ~S.peers[p].active
    /\ st \in PeerStates /\ st.active /\ st.minor \in Minor /\ st.minor \notin MinorsUsed(S, p)
    /\ made \subseteq FiltersOf(p, st)
    /\ rate \in {S.classes[st.minor], ClassRate(S, st)}
    /\ T = Applied(S, p, st, rate, made)

LEMMA ApplyingKeeps ==
    ASSUME NEW S, NEW p, NEW st, NEW rate, NEW made, NEW T,
           AppliedTo(S, p, st, rate, made, T)
    PROVE  /\ TableOK(T) /\ Owned(T)
           /\ T.peers[p] = st /\ (\A q \in Peer \ {p} : T.peers[q] = S.peers[q])
           /\ T.hit \subseteq S.hit
           /\ \A q \in Peer \ {p} : InForce(S, q) => InForce(T, q)
           /\ rate = ClassRate(S, st) /\ made = FiltersOf(p, st) => InForce(T, p)
<1>0. /\ TableOK(S) /\ Owned(S) /\ p \in Peer /\ ~S.peers[p].active
      /\ st \in PeerStates /\ st.active /\ st.minor \in Minor /\ st.minor \notin MinorsUsed(S, p)
      /\ made \subseteq FiltersOf(p, st) /\ T = Applied(S, p, st, rate, made)
      /\ rate \in {S.classes[st.minor], ClassRate(S, st)}
  BY DEF AppliedTo
<1> USE <1>0
<1>1. /\ T.peers = [S.peers EXCEPT ![p] = st]
      /\ T.classes = [S.classes EXCEPT ![st.minor] = rate]
      /\ T.filters = S.filters \cup made
      /\ T.strays = S.strays \ made
      /\ T.hit = S.hit \ {p}
  BY DEF Applied
<1>2. T.classes \in [Minor -> Rates]
  <2>1. st.lim.tx \in Rates /\ rate \in {S.classes[st.minor], st.lim.tx}
    BY DEF PeerStates, Rates, ClassRate
  <2> QED
    BY <1>1, <2>1 DEF TableOK
<1>3. T.peers \in [Peer -> PeerStates] /\ T.peers[p] = st
      /\ \A q \in Peer \ {p} : T.peers[q] = S.peers[q]
  BY <1>1 DEF TableOK
<1>4. \A q \in Peer \ {p} : S.peers[q].active => S.peers[q].minor # st.minor
  BY DEF MinorsUsed
<1>5. \A f \in T.filters : FilterOK(f)
  BY <1>1, FiltersInWindow DEF TableOK, FilterOK
<1>6. TableOK(T)
  <2>1. \A q \in Peer : T.peers[q].active => T.peers[q].minor \in Minor
    BY <1>3 DEF TableOK
  <2>2. \A q, r \in Peer : T.peers[q].active /\ T.peers[r].active /\ q # r
                             => T.peers[q].minor # T.peers[r].minor
    BY <1>3, <1>4 DEF TableOK
  <2>3. T.strays \subseteq T.filters /\ T.hit \subseteq Peer
    BY <1>1 DEF TableOK
  <2> QED
    BY <1>2, <1>3, <1>5, <2>1, <2>2, <2>3 DEF TableOK
<1>7. Known(T) = Known(S) \cup made
  BY <1>1 DEF Known, TableOK
<1>8. Owned(T)
  <2> SUFFICES ASSUME NEW f \in Known(T)
               PROVE  \E q \in Peer : T.peers[q].active /\ f \in FiltersOf(q, T.peers[q])
    BY DEF Owned
  <2>1. CASE f \in made
    BY <1>3, <2>1
  <2>2. CASE f \in Known(S)
    <3>1. PICK q \in Peer : S.peers[q].active /\ f \in FiltersOf(q, S.peers[q])
      BY <2>2 DEF Owned
    <3> QED
      BY <1>3, <3>1
  <2> QED
    BY <1>7, <2>1, <2>2
<1>9. ASSUME NEW q \in Peer \ {p}, InForce(S, q) PROVE InForce(T, q)
  <2> SUFFICES ASSUME T.peers[q].active, q \notin T.hit
               PROVE  /\ FiltersOf(q, T.peers[q]) \subseteq Known(T)
                      /\ T.peers[q].lim.tx > 0 => T.classes[T.peers[q].minor] = T.peers[q].lim.tx
    BY DEF InForce
  <2>1. T.peers[q] = S.peers[q] /\ S.peers[q].active /\ q \notin S.hit
    BY <1>1, <1>3
  <2>2. /\ FiltersOf(q, S.peers[q]) \subseteq Known(S)
        /\ S.peers[q].lim.tx > 0 => S.classes[S.peers[q].minor] = S.peers[q].lim.tx
    BY <1>9, <2>1 DEF InForce
  <2>3. S.peers[q].minor \in Minor /\ S.peers[q].minor # st.minor
    BY <1>4, <2>1 DEF TableOK
  <2>4. T.classes[S.peers[q].minor] = S.classes[S.peers[q].minor]
    BY <1>1, <2>3 DEF TableOK
  <2> QED
    BY <1>7, <2>1, <2>2, <2>4
<1>10. ASSUME rate = ClassRate(S, st), made = FiltersOf(p, st) PROVE InForce(T, p)
  <2>1. st.lim.tx > 0 => T.classes[st.minor] = st.lim.tx
    BY <1>1, <1>10 DEF TableOK, ClassRate
  <2> QED
    BY <1>3, <1>7, <1>10, <2>1 DEF InForce
<1> QED
  BY <1>1, <1>3, <1>6, <1>8, <1>9, <1>10

LEMMA ReachIs ==
    ASSUME KeysApart, NEW p \in Peer, NEW q \in Peer, p # q
    PROVE  Slot(p, 0) # Slot(q, 0)
<1>1. NoLimit \in Limits /\ NoLimit.n \in Nat
  BY NoRate, LimitIs
<1>2. Reach(p, NoLimit) \cap Reach(q, NoLimit) = {}
  BY <1>1 DEF KeysApart
<1>3. \A r \in Peer : Slot(r, 0) \in Reach(r, NoLimit)
  <2> SUFFICES ASSUME NEW r \in Peer PROVE Slot(r, 0) \in Reach(r, NoLimit)
    OBVIOUS
  <2>1. Slots > 0
    BY FewPeers
  <2>2. 0 \in 0..Slots - 1
    BY <2>1, SlotsAssumption
  <2>3. Slot(r, 0) \in Nat
    BY <2>1, <2>2, SlotsAreMinors, MinorIs
  <2>4. \A m \in Nat, n \in Nat : m \in m .. m + 2 * n + 7
    OBVIOUS
  <2>5. Reach(r, NoLimit) = Slot(r, 0) .. Slot(r, 0) + 2 * NoLimit.n + 7
    BY DEF Reach, Window
  <2> QED
    BY <1>1, <2>3, <2>4, <2>5
<1> QED
  BY <1>2, <1>3

(* With keys apart the probe never has to go further than the hash. *)
LEMMA HomeMinor ==
    ASSUME KeysApart, NEW S, AtHome(S), NEW p \in Peer
    PROVE  allocateMinor(S, p) = Slot(p, 0)
<1>1. Slot(p, 0) \notin MinorsUsed(S, p)
  <2> SUFFICES ASSUME NEW q \in Peer \ {p}, S.peers[q].active, S.peers[q].minor = Slot(p, 0)
               PROVE  FALSE
    BY DEF MinorsUsed
  <2>1. S.peers[q].minor = Slot(q, 0)
    BY DEF AtHome
  <2> QED
    BY <2>1, ReachIs
<1> DEFINE used == MinorsUsed(S, p)
           slot(k) == tcMinorMin + ((Hint[p] + k) % Slots)
           free(k) == slot(k) \notin used
           Found(i) == free(i) /\ \A j \in 0..i - 1 : ~free(j)
           i == CHOOSE i \in 0..Slots - 1 : Found(i)
<1>2. 0 \in 0..Slots - 1 /\ free(0)
  <2>1. Slots > 0 /\ Slots \in Nat
    BY FewPeers, SlotsAssumption
  <2> QED
    BY <1>1, <2>1 DEF Slot
<1>3. Found(0)
  <2>1. \A j \in 0..0 - 1 : FALSE
    OBVIOUS
  <2> QED
    BY <1>2, <2>1
<1>4. i \in 0..Slots - 1 /\ Found(i)
  <2> HIDE DEF Found
  <2> QED
    BY <1>2, <1>3
<1>5. allocateMinor(S, p) = slot(i)
  BY DEF allocateMinor
<1> HIDE DEF i
<1>6. i = 0
  <2> SUFFICES ASSUME i # 0 PROVE FALSE
    OBVIOUS
  <2>1. 0 \in 0..i - 1
    BY <1>4, SlotsAssumption
  <2> QED
    BY <1>2, <1>4, <2>1
<1> QED
  BY <1>5, <1>6 DEF Slot

(* Clearing as part of a sync. *)
LEMMA ClearedKept ==
    ASSUME NEW S, NEW hasQdisc, Kept(S, hasQdisc), NEW ps, ps \subseteq Peer,
           \A p \in ps : S.peers[p].active, NEW faulty, NEW T \in clearPeerTC(S, ps, faulty)
    PROVE  /\ Kept(T, hasQdisc)
           /\ T.peers = [p \in Peer |-> IF p \in ps THEN NoTC ELSE S.peers[p]]
<1>1. TableOK(S) /\ Owned(S) /\ (hasQdisc => \A p \in Peer : InForce(S, p))
      /\ (KeysApart => AtHome(S) /\ S.hit = {})
  BY DEF Kept
<1>2. /\ TableOK(T) /\ Owned(T)
      /\ T.peers = [p \in Peer |-> IF p \in ps THEN NoTC ELSE S.peers[p]]
      /\ \A q \in Peer : InForce(S, q) \/ q \in ps => InForce(T, q)
      /\ KeysApart /\ AtHome(S) /\ S.hit = {} => T.hit = {}
  BY <1>1, ClearingKeeps
<1>3. AtHome(S) => AtHome(T)
  BY <1>2, NothingApplied DEF AtHome
<1> QED
  BY <1>1, <1>2, <1>3 DEF Kept

(* A failed apply is cleaned up, and leaves the peer without a limit.  The  *)
(* qdiscs are there or not; the other peers' limits are as they were.       *)
FailedTo(S, hasQdisc, p, st, U, faulty, T) ==
    /\ Kept(S, hasQdisc)
    /\ p \in Peer /\ ~S.peers[p].active
    /\ st \in PeerStates /\ st.active /\ st.minor = allocateMinor(S, p)
    /\ U \in FailedApplies(S, p, st, hasQdisc)
    /\ T \in clearPeerTC(U, {p}, faulty)

LEMMA FailingKeeps ==
    ASSUME NEW S, NEW hasQdisc, NEW p, NEW st, NEW U, NEW faulty, NEW T,
           FailedTo(S, hasQdisc, p, st, U, faulty, T)
    PROVE  /\ Kept(T, hasQdisc)
           /\ \A q \in Peer \ {p} : T.peers[q] = S.peers[q]
<1>0. /\ Kept(S, hasQdisc) /\ p \in Peer /\ ~S.peers[p].active
      /\ st \in PeerStates /\ st.active /\ st.minor = allocateMinor(S, p)
      /\ U \in FailedApplies(S, p, st, hasQdisc) /\ T \in clearPeerTC(U, {p}, faulty)
  BY DEF FailedTo
<1> USE <1>0
<1>1. TableOK(S) /\ Owned(S) /\ (hasQdisc => \A q \in Peer : InForce(S, q))
      /\ (KeysApart => AtHome(S) /\ S.hit = {})
  BY DEF Kept
<1>2. PICK rate, made : /\ rate \in {S.classes[st.minor], ClassRate(S, st)}
                        /\ made \subseteq FiltersOf(p, st)
                        /\ U = Applied(S, p, st, rate, made)
  <2>1. CASE U = Applied(S, p, st, S.classes[st.minor], {})
    BY <2>1
  <2>2. ASSUME NEW g \in FiltersOf(p, st),
               U = Applied(S, p, st, ClassRate(S, st), {f \in FiltersOf(p, st) : f.pref < g.pref})
        PROVE  \E rate, made : /\ rate \in {S.classes[st.minor], ClassRate(S, st)}
                               /\ made \subseteq FiltersOf(p, st)
                               /\ U = Applied(S, p, st, rate, made)
    <3>1. {f \in FiltersOf(p, st) : f.pref < g.pref} \subseteq FiltersOf(p, st)
      OBVIOUS
    <3> QED
      BY <2>2, <3>1
  <2> QED
    BY <2>1, <2>2 DEF FailedApplies
<1>3. st.minor \in Minor /\ st.minor \notin MinorsUsed(S, p)
  BY MinorAllocated
<1>4. /\ TableOK(U) /\ Owned(U)
      /\ U.peers[p] = st /\ (\A q \in Peer \ {p} : U.peers[q] = S.peers[q])
      /\ U.hit \subseteq S.hit
      /\ \A q \in Peer \ {p} : InForce(S, q) => InForce(U, q)
  <2>1. AppliedTo(S, p, st, rate, made, U)
    BY <1>1, <1>2, <1>3 DEF AppliedTo
  <2> QED
    BY <2>1, ApplyingKeeps
<1>5. U.peers[p] = st /\ \A q \in Peer \ {p} : U.peers[q] = S.peers[q]
  BY <1>4
<1>6. /\ TableOK(T) /\ Owned(T)
      /\ T.peers = [q \in Peer |-> IF q \in {p} THEN NoTC ELSE U.peers[q]]
      /\ \A q \in Peer : InForce(U, q) \/ q \in {p} => InForce(T, q)
      /\ KeysApart /\ AtHome(U) /\ U.hit = {} => T.hit = {}
  <2>1. {p} \subseteq Peer /\ \A q \in {p} : U.peers[q].active
    BY <1>5
  <2> QED
    BY <1>4, <2>1, ClearingKeeps
<1>7. KeysApart => AtHome(U) /\ AtHome(T)
  <2>1. KeysApart => st.minor = Slot(p, 0)
    BY <1>1, HomeMinor
  <2>2. KeysApart => AtHome(U)
    BY <1>1, <1>5, <2>1 DEF AtHome
  <2>3. AtHome(U) => AtHome(T)
    BY <1>6, NothingApplied DEF AtHome
  <2> QED
    BY <2>2, <2>3
<1>8. \A q \in Peer \ {p} : T.peers[q] = S.peers[q]
  BY <1>5, <1>6
<1>9. hasQdisc => \A q \in Peer : InForce(T, q)
  BY <1>1, <1>4, <1>6
<1>10. KeysApart => T.hit = {}
  BY <1>1, <1>4, <1>6, <1>7
<1> QED
  BY <1>6, <1>7, <1>8, <1>9, <1>10 DEF Kept

(* Whichever way the sync of one peer goes. *)
LEMMA PeerSyncKeeps ==
    ASSUME NEW S, NEW hasQdisc, Kept(S, hasQdisc), NEW p \in Peer, want \in [Peer -> Limits],
           NEW faulty, NEW T \in SyncPeerTC(S, p, hasQdisc, faulty)
    PROVE  /\ Kept(T, hasQdisc)
           /\ \A q \in Peer \ {p} : T.peers[q] = S.peers[q]
           /\ ~Limited(want[p]) => T = S
           /\ hasQdisc /\ ~faulty /\ Limited(want[p]) /\ want[p].n # 0
                => T.peers[p].active /\ T.peers[p].lim = want[p]
<1> DEFINE bares == IF S.peers[p].active THEN clearPeerTC(S, {p}, faulty) ELSE {S}
           St(U) == [active |-> TRUE, minor |-> allocateMinor(U, p), lim |-> want[p]]
<1>1. ASSUME NEW U \in bares
      PROVE  /\ Kept(U, hasQdisc) /\ ~U.peers[p].active
             /\ \A q \in Peer \ {p} : U.peers[q] = S.peers[q]
  <2>1. CASE S.peers[p].active
    <3>1. {p} \subseteq Peer /\ \A q \in {p} : S.peers[q].active
      BY <2>1
    <3>2. U \in clearPeerTC(S, {p}, faulty)
      BY <1>1, <2>1
    <3>3. Kept(U, hasQdisc) /\ U.peers = [q \in Peer |-> IF q \in {p} THEN NoTC ELSE S.peers[q]]
      BY <3>1, <3>2, ClearedKept
    <3> QED
      BY <3>3, NothingApplied
  <2>2. CASE ~S.peers[p].active
    BY <1>1, <2>2
  <2> QED
    BY <2>1, <2>2
<1>2. \/ /\ T = S
         /\ ~Limited(want[p]) \/ want[p].n = 0 \/ (S.peers[p].active /\ S.peers[p].lim = want[p])
      \/ /\ Limited(want[p])
         /\ \E U \in bares :
               \/ hasQdisc /\ T = applyPeerTC(U, p, St(U))
               \/ /\ faulty \/ ~hasQdisc
                  /\ \E V \in FailedApplies(U, p, St(U), hasQdisc) : T \in clearPeerTC(V, {p}, faulty)
  <2> DEFINE Skip == \/ ~Limited(want[p]) \/ want[p].n = 0
                     \/ (S.peers[p].active /\ S.peers[p].lim = want[p])
             Failed(U) == IF faulty \/ ~hasQdisc THEN FailedApplies(U, p, St(U), hasQdisc) ELSE {}
             Outcomes(U) == (IF hasQdisc THEN {applyPeerTC(U, p, St(U))} ELSE {})
                            \cup UNION {clearPeerTC(V, {p}, faulty) : V \in Failed(U)}
  <2>1. SyncPeerTC(S, p, hasQdisc, faulty)
          = IF Skip THEN {S} ELSE UNION {Outcomes(U) : U \in bares}
    BY DEF SyncPeerTC
  <2>2. CASE Skip
    BY <2>1, <2>2
  <2>3. CASE ~Skip
    <3>1. PICK U \in bares : T \in Outcomes(U)
      <4> HIDE DEF Outcomes, bares
      <4> QED
        BY <2>1, <2>3
    <3>2. \/ hasQdisc /\ T = applyPeerTC(U, p, St(U))
          \/ \E V \in Failed(U) : T \in clearPeerTC(V, {p}, faulty)
      <4> HIDE DEF Failed, bares
      <4> QED
        BY <3>1
    <3> HIDE DEF bares
    <3> QED
      BY <2>3, <3>2
  <2> QED
    BY <2>2, <2>3
<1>3. CASE /\ T = S
           /\ ~Limited(want[p]) \/ want[p].n = 0 \/ (S.peers[p].active /\ S.peers[p].lim = want[p])
  BY <1>3
<1> HIDE DEF bares
<1>4. ASSUME NEW U \in bares PROVE St(U) \in PeerStates /\ St(U).active /\ St(U).lim = want[p]
                                   /\ St(U).minor = allocateMinor(U, p)
  BY MinorAllocated DEF PeerStates
<1> HIDE DEF St
<1>5. ASSUME Limited(want[p]), NEW U \in bares, hasQdisc, T = applyPeerTC(U, p, St(U))
      PROVE  /\ Kept(T, hasQdisc)
             /\ \A q \in Peer \ {p} : T.peers[q] = S.peers[q]
             /\ T.peers[p].active /\ T.peers[p].lim = want[p]
  <2>1. PICK st : st = St(U)
    OBVIOUS
  <2>2. /\ TableOK(U) /\ Owned(U) /\ ~U.peers[p].active /\ (\A q \in Peer : InForce(U, q))
        /\ (KeysApart => AtHome(U) /\ U.hit = {})
    BY <1>1, <1>5 DEF Kept
  <2>3. st \in PeerStates /\ st.active /\ st.minor \in Minor /\ st.minor \notin MinorsUsed(U, p)
        /\ st.lim = want[p] /\ st.minor = allocateMinor(U, p)
    BY <1>4, <2>1, MinorAllocated
  <2>4. T = Applied(U, p, st, ClassRate(U, st), FiltersOf(p, st))
    BY <1>5, <2>1 DEF applyPeerTC
  <2>5. /\ TableOK(T) /\ Owned(T)
        /\ T.peers[p] = st /\ (\A q \in Peer \ {p} : T.peers[q] = U.peers[q])
        /\ T.hit \subseteq U.hit
        /\ \A q \in Peer \ {p} : InForce(U, q) => InForce(T, q)
        /\ InForce(T, p)
    <3>1. PICK rate, made : rate = ClassRate(U, st) /\ made = FiltersOf(p, st)
      OBVIOUS
    <3>2. TableOK(U) /\ Owned(U) /\ ~U.peers[p].active
      BY <2>2
    <3>3. AppliedTo(U, p, st, rate, made, T)
      BY <2>3, <2>4, <3>1, <3>2 DEF AppliedTo
    <3> QED
      BY <3>1, <3>3, ApplyingKeeps
  <2>6. T.peers[p] = st /\ \A q \in Peer \ {p} : T.peers[q] = U.peers[q]
    BY <2>5
  <2>7. KeysApart => AtHome(T)
    <3>1. KeysApart => st.minor = Slot(p, 0)
      BY <2>2, <2>3, HomeMinor
    <3> QED
      BY <2>2, <2>6, <3>1 DEF AtHome
  <2>8. Kept(T, hasQdisc)
    BY <2>2, <2>5, <2>7 DEF Kept
  <2> QED
    BY <1>1, <2>3, <2>6, <2>8
<1>6. ASSUME Limited(want[p]), NEW U \in bares, faulty \/ ~hasQdisc,
             NEW V \in FailedApplies(U, p, St(U), hasQdisc), T \in clearPeerTC(V, {p}, faulty)
      PROVE  Kept(T, hasQdisc) /\ \A q \in Peer \ {p} : T.peers[q] = S.peers[q]
  <2>1. PICK st : st = St(U)
    OBVIOUS
  <2>2. st \in PeerStates /\ st.active /\ st.minor = allocateMinor(U, p)
    BY <1>4, <2>1
  <2>3. V \in FailedApplies(U, p, st, hasQdisc)
    BY <1>6, <2>1
  <2>4. Kept(U, hasQdisc) /\ ~U.peers[p].active
    BY <1>1
  <2>5. Kept(T, hasQdisc) /\ \A q \in Peer \ {p} : T.peers[q] = U.peers[q]
    <3>1. FailedTo(U, hasQdisc, p, st, V, faulty, T)
      BY <1>6, <2>2, <2>3, <2>4 DEF FailedTo
    <3> QED
      BY <3>1, FailingKeeps
  <2> QED
    BY <1>1, <2>5
<1> QED
  BY <1>2, <1>3, <1>5, <1>6
-----------------------------------------------------------------------------
(* The loop over the peers *)

SyncEach(outcomes, p, hasQdisc, faulty) ==
    UNION {SyncPeerTC(S, p, hasQdisc, faulty) : S \in outcomes}

After(g, n, outcomes, hasQdisc, faulty) ==
    g = [k \in 0..n |-> IF k = 0 THEN outcomes
                        ELSE SyncEach(g[k - 1], Peers[k], hasQdisc, faulty)]

LEMMA OneMore ==
    ASSUME NEW outcomes, NEW hasQdisc, NEW faulty, NEW n \in Nat, NEW g,
           After(g, n, outcomes, hasQdisc, faulty)
    PROVE  \E h : After(h, n + 1, outcomes, hasQdisc, faulty)
<1> DEFINE Step(s, k) == SyncEach(s, Peers[k], hasQdisc, faulty)
           h == [k \in 0..n + 1 |-> IF k = n + 1 THEN Step(g[n], n + 1) ELSE g[k]]
<1>1. g = [k \in 0..n |-> IF k = 0 THEN outcomes ELSE Step(g[k - 1], k)]
  BY DEF After
<1> HIDE DEF Step
<1>2. \A k \in 0..n : g[k] = IF k = 0 THEN outcomes ELSE Step(g[k - 1], k)
  BY <1>1
<1>3. ASSUME NEW k \in 0..n + 1 PROVE h[k] = IF k = 0 THEN outcomes ELSE Step(h[k - 1], k)
  <2>1. CASE k = n + 1
    <3>1. k # 0 /\ k - 1 = n /\ n \in 0..n + 1 /\ n # n + 1
      BY <2>1
    <3>2. h[n] = g[n] /\ h[k] = Step(g[n], k)
      BY <2>1, <3>1
    <3> QED
      BY <3>1, <3>2
  <2>2. CASE k # n + 1 /\ k # 0
    <3>1. k \in 0..n /\ k - 1 \in 0..n + 1 /\ k - 1 # n + 1
      BY <2>2
    <3>2. h[k] = g[k] /\ h[k - 1] = g[k - 1]
      BY <2>2, <3>1
    <3> QED
      BY <1>2, <2>2, <3>1, <3>2
  <2>3. CASE k = 0
    <3>1. 0 \in 0..n /\ 0 \in 0..n + 1 /\ 0 # n + 1
      OBVIOUS
    <3> QED
      BY <1>2, <2>3, <3>1
  <2> QED
    BY <2>1, <2>2, <2>3
<1>4. h = [k \in 0..n + 1 |-> IF k = 0 THEN outcomes ELSE Step(h[k - 1], k)]
  <2>1. h = [k \in 0..n + 1 |-> h[k]]
    OBVIOUS
  <2> HIDE DEF h
  <2> QED
    BY <1>3, <2>1
<1> HIDE DEF h
<1> QED
  BY <1>4 DEF After, Step

LEMMA LoopEnds ==
    ASSUME NEW outcomes, NEW hasQdisc, NEW faulty, NEW n \in Nat
    PROVE  \E g : After(g, n, outcomes, hasQdisc, faulty)
<1> DEFINE Done(k) == \E g : After(g, k, outcomes, hasQdisc, faulty)
           Bad == {k \in Nat : ~Done(k)}
<1>1. Done(0)
  <2> DEFINE g == [k \in 0..0 |-> outcomes]
  <2>1. \A k \in 0..0 : k = 0
    OBVIOUS
  <2>2. g = [k \in 0..0 |-> IF k = 0 THEN outcomes
                            ELSE SyncEach(g[k - 1], Peers[k], hasQdisc, faulty)]
    BY <2>1
  <2> QED
    BY <2>2 DEF After
<1>2. \A k \in Nat : Done(k) => Done(k + 1)
  BY OneMore
<1> SUFFICES ASSUME Bad # {} PROVE FALSE
  OBVIOUS
<1> HIDE DEF Done
<1>3. PICK k \in Bad : \A j \in Bad : k <= j
  <2>1. Bad \subseteq Nat
    OBVIOUS
  <2> HIDE DEF Bad
  <2> QED
    BY <2>1, Least
<1>4. k \in Nat /\ k # 0 /\ ~Done(k)
  BY <1>1
<1>5. k - 1 \in Nat /\ ~(k <= k - 1) /\ (k - 1) + 1 = k
  BY <1>4
<1>6. Done(k - 1)
  BY <1>3, <1>5
<1> QED
  BY <1>2, <1>4, <1>5, <1>6

(* What one peer's sync keeps is kept by the loop.  The peers without a     *)
(* limit have been cleared before; when no command fails, the others have   *)
(* theirs afterwards.                                                       *)
Freed(S) == \A p \in Peer : ~Limited(want[p]) => ~S.peers[p].active

Has(S, p) == Limited(want[p]) /\ want[p].n # 0 => S.peers[p].active /\ S.peers[p].lim = want[p]

LEMMA LoopKeeps ==
    ASSUME NEW outcomes, NEW hasQdisc, \A S \in outcomes : Kept(S, hasQdisc) /\ Freed(S),
           want \in [Peer -> Limits], NEW faulty, NEW T \in SyncedTC(outcomes, hasQdisc, faulty)
    PROVE  /\ Kept(T, hasQdisc) /\ Freed(T)
           /\ hasQdisc /\ ~faulty => \A p \in Peer : Has(T, p)
<1>1. /\ Len(Peers) \in Nat /\ \A k \in 1..Len(Peers) : Peers[k] \in Peer
      /\ \A p \in Peer : \E k \in 1..Len(Peers) : Peers[k] = p
  BY PeersAssumption DEF Peer, Range
<1>2. PICK n : n = Len(Peers)
  OBVIOUS
<1> DEFINE g == CHOOSE g : After(g, n, outcomes, hasQdisc, faulty)
<1>3. After(g, n, outcomes, hasQdisc, faulty)
  BY <1>1, <1>2, LoopEnds
<1>4. SyncedTC(outcomes, hasQdisc, faulty) = g[n]
  BY <1>2 DEF SyncedTC, After, SyncEach
<1> HIDE DEF g
<1> DEFINE Good(k) == \A U \in g[k] : /\ Kept(U, hasQdisc) /\ Freed(U)
                                      /\ hasQdisc /\ ~faulty => \A j \in 1..k : Has(U, Peers[j])
           Bad == {k \in 0..n : ~Good(k)}
<1>5. n \in Nat /\ \A k \in 0..n : k \in Nat
  BY <1>1, <1>2
<1>6. g[0] = outcomes
  BY <1>3, <1>5 DEF After
<1>7. ASSUME NEW k \in 0..n, k # 0, Good(k - 1) PROVE Good(k)
  <2>1. g[k] = SyncEach(g[k - 1], Peers[k], hasQdisc, faulty)
    BY <1>3, <1>7 DEF After
  <2>2. Peers[k] \in Peer /\ \A j \in 1..k : Peers[j] \in Peer /\ (j = k \/ j \in 1..k - 1)
    BY <1>1, <1>2, <1>5, <1>7
  <2> SUFFICES ASSUME NEW U \in g[k]
               PROVE  /\ Kept(U, hasQdisc) /\ Freed(U)
                      /\ hasQdisc /\ ~faulty => \A j \in 1..k : Has(U, Peers[j])
    OBVIOUS
  <2>3. PICK p : p = Peers[k]
    OBVIOUS
  <2>4. PICK S \in g[k - 1] : U \in SyncPeerTC(S, p, hasQdisc, faulty)
    BY <2>1, <2>3 DEF SyncEach
  <2>5. /\ Kept(S, hasQdisc) /\ Freed(S)
        /\ hasQdisc /\ ~faulty => \A j \in 1..k - 1 : Has(S, Peers[j])
    BY <1>7
  <2>6. /\ Kept(U, hasQdisc)
        /\ \A q \in Peer \ {p} : U.peers[q] = S.peers[q]
        /\ ~Limited(want[p]) => U = S
        /\ hasQdisc /\ ~faulty /\ Limited(want[p]) /\ want[p].n # 0
             => U.peers[p].active /\ U.peers[p].lim = want[p]
    BY <2>2, <2>3, <2>4, <2>5, PeerSyncKeeps
  <2>7. Freed(U)
    BY <2>5, <2>6 DEF Freed
  <2>8. ASSUME hasQdisc, ~faulty, NEW j \in 1..k PROVE Has(U, Peers[j])
    <3>1. CASE Peers[j] = p
      BY <2>6, <2>8, <3>1 DEF Has
    <3>2. CASE Peers[j] # p
      <4>1. j \in 1..k - 1 /\ Peers[j] \in Peer \ {p}
        BY <2>2, <2>3, <3>2
      <4>2. Has(S, Peers[j]) /\ U.peers[Peers[j]] = S.peers[Peers[j]]
        BY <2>5, <2>6, <2>8, <4>1
      <4> QED
        BY <4>2 DEF Has
    <3> QED
      BY <3>1, <3>2
  <2> QED
    BY <2>6, <2>7, <2>8
<1>8. Good(0)
  BY <1>6
<1> HIDE DEF Good
<1>9. Bad = {}
  <2> SUFFICES ASSUME Bad # {} PROVE FALSE
    OBVIOUS
  <2>1. PICK k \in Bad : \A j \in Bad : k <= j
    <3>1. Bad \subseteq Nat
      BY <1>5
    <3> HIDE DEF Bad
    <3> QED
      BY <3>1, Least
  <2>2. k \in 0..n /\ k # 0 /\ ~Good(k)
    BY <1>8
  <2>3. k - 1 \in 0..n /\ ~(k <= k - 1)
    BY <1>5, <2>2
  <2>4. Good(k - 1)
    BY <2>1, <2>3
  <2> QED
    BY <1>7, <2>2, <2>4
<1>10. Good(n)
  BY <1>5, <1>9
<1>11. /\ Kept(T, hasQdisc) /\ Freed(T)
       /\ hasQdisc /\ ~faulty => \A j \in 1..n : Has(T, Peers[j])
  BY <1>4, <1>10 DEF Good
<1> QED
  BY <1>1, <1>2, <1>11
-----------------------------------------------------------------------------
(* What every step keeps *)

SettingsOK ==
    /\ want \in [Peer -> Limits]
    /\ backend \in Backends
    /\ bwEdits \in 0..MaxBwEdits /\ bwFaults \in 0..MaxBwFaults
    /\ qdisc \in BOOLEAN /\ table \in BOOLEAN /\ tcReady \in BOOLEAN /\ nftReady \in BOOLEAN

RulesOK ==
    /\ nftPeers \in [Peer -> Limits]
    /\ \A r \in nrules : r.ip[1] \in Peer /\ r.rate > 0
    /\ ~table => nrules = {}

(* A daemon that has not made the qdiscs has no limit to remember. *)
NothingRemembered == \A p \in Peer : ~tcPeers[p].active

LimitInv ==
    /\ SettingsOK /\ RulesOK
    /\ Kept(Current, tcReady /\ qdisc)
    /\ ~tcReady => NothingRemembered

LEMMA NothingSet ==
    /\ [p \in Peer |-> NoTC] \in [Peer -> PeerStates]
    /\ [m \in Minor |-> 0] \in [Minor -> Rates]
    /\ [p \in Peer |-> NoLimit] \in [Peer -> Limits]
BY NoRate DEF NoTC, PeerStates

LEMMA CurrentIs ==
    /\ Current.peers = tcPeers /\ Current.classes = classes /\ Current.filters = filters
    /\ Current.strays = strays /\ Current.hit = hit
BY DEF Current

LEMMA CurrentThen ==
    /\ Current'.peers = tcPeers' /\ Current'.classes = classes' /\ Current'.filters = filters'
    /\ Current'.strays = strays' /\ Current'.hit = hit'
BY DEF Current

(* A daemon that remembers nothing: what is on the link is strays. *)
LEMMA NothingKept ==
    ASSUME NEW S, S.peers = [p \in Peer |-> NoTC], S.classes \in [Minor -> Rates],
           \A f \in S.filters : FilterOK(f), S.strays = S.filters, S.hit = {}, NEW hasQdisc
    PROVE  Kept(S, hasQdisc)
<1>1. \A p \in Peer : S.peers[p] = NoTC /\ ~S.peers[p].active
  BY NothingApplied
<1>2. TableOK(S)
  BY <1>1, NothingSet DEF TableOK
<1>3. Owned(S) /\ AtHome(S) /\ \A p \in Peer : InForce(S, p)
  BY <1>1 DEF Owned, Known, AtHome, InForce
<1> QED
  BY <1>2, <1>3 DEF Kept

LEMMA LimitsStart == BwInit => LimitInv
<1> SUFFICES ASSUME BwInit PROVE LimitInv
  OBVIOUS
<1>1. SettingsOK /\ RulesOK
  <2>1. bwEdits \in 0..MaxBwEdits /\ bwFaults \in 0..MaxBwFaults
    BY BandwidthBounds DEF BwInit
  <2>2. want \in [Peer -> Limits] /\ nftPeers \in [Peer -> Limits] /\ nrules = {}
    BY NothingSet DEF BwInit
  <2>3. backend \in Backends /\ qdisc = FALSE /\ table = FALSE /\ tcReady = FALSE
        /\ nftReady = FALSE
    BY DEF BwInit
  <2> QED
    BY <2>1, <2>2, <2>3 DEF SettingsOK, RulesOK
<1>2. PICK S : S = Current
  OBVIOUS
<1>3. Kept(S, tcReady /\ qdisc)
  BY <1>2, NothingKept, NothingSet, CurrentIs DEF BwInit
<1>4. NothingRemembered
  BY NothingApplied DEF BwInit, NothingRemembered
<1> QED
  BY <1>1, <1>2, <1>3, <1>4 DEF LimitInv

(* What a sync is threaded through is what it leaves. *)
LEMMA BecomingKeeps ==
    ASSUME NEW T, NEW hasQdisc, Kept(T, hasQdisc),
           tcPeers' = T.peers /\ classes' = T.classes /\ filters' = T.filters,
           strays' = T.strays /\ hit' = T.hit
    PROVE  Kept(Current', hasQdisc)
<1>1. PICK S : S = Current'
  OBVIOUS
<1>2. /\ S.peers = T.peers /\ S.classes = T.classes /\ S.filters = T.filters
      /\ S.strays = T.strays /\ S.hit = T.hit
  BY <1>1, CurrentThen
<1>3. /\ TableOK(T) => TableOK(S)
      /\ Owned(T) => Owned(S)
      /\ AtHome(T) => AtHome(S)
      /\ \A p \in Peer : InForce(T, p) => InForce(S, p)
  BY <1>2 DEF TableOK, Owned, Known, AtHome, InForce
<1>4. Kept(S, hasQdisc)
  BY <1>2, <1>3 DEF Kept
<1> QED
  BY <1>1, <1>4

LEMMA KeptNow ==
    ASSUME LimitInv, NEW hasQdisc, hasQdisc => qdisc \/ ~tcReady
    PROVE  Kept(Current, hasQdisc)
<1>1. PICK S : S = Current
  OBVIOUS
<1>2. Kept(S, tcReady /\ qdisc) /\ (~tcReady => \A p \in Peer : ~S.peers[p].active)
  BY <1>1, CurrentIs DEF LimitInv, NothingRemembered
<1>3. tcReady \in BOOLEAN
  BY DEF LimitInv, SettingsOK
<1>4. ASSUME hasQdisc, NEW p \in Peer PROVE InForce(S, p)
  <2>1. CASE tcReady
    BY <1>2, <1>4, <2>1 DEF Kept
  <2>2. CASE ~tcReady
    BY <1>2, <2>2 DEF InForce
  <2> QED
    BY <2>1, <2>2
<1>5. Kept(S, hasQdisc)
  BY <1>2, <1>4 DEF Kept
<1> QED
  BY <1>1, <1>5

(* Peers that lost their limit go first. *)
LEMMA Lifting ==
    ASSUME LimitInv, NEW hasQdisc, hasQdisc => qdisc \/ ~tcReady,
           NEW faulty, NEW T \in Lifted(Current, faulty)
    PROVE  /\ Kept(T, hasQdisc) /\ Freed(T)
           /\ NothingRemembered => \A p \in Peer : ~T.peers[p].active
<1>1. PICK S, ps : S = Current /\ ps = Gone
  OBVIOUS
<1>2. /\ S.peers = tcPeers
      /\ ps \subseteq Peer
      /\ \A p \in Peer : p \in ps <=> tcPeers[p].active /\ ~Limited(want[p])
  BY <1>1, CurrentIs DEF Gone
<1>3. Kept(S, hasQdisc)
  BY <1>1, KeptNow
<1>4. T \in clearPeerTC(S, ps, faulty) /\ \A p \in ps : S.peers[p].active
  BY <1>1, <1>2 DEF Lifted
<1>5. Kept(T, hasQdisc) /\ T.peers = [p \in Peer |-> IF p \in ps THEN NoTC ELSE S.peers[p]]
  BY <1>2, <1>3, <1>4, ClearedKept
<1>6. \A p \in Peer : T.peers[p].active => S.peers[p].active /\ p \notin ps
  BY <1>5, NothingApplied
<1> QED
  BY <1>2, <1>5, <1>6 DEF Freed, NothingRemembered

(* The rules of the other backend go, or stay with their table. *)
LEMMA NoRulesKeep ==
    ASSUME SettingsOK, RulesOK, NEW faulty, clearInterfaceNFT(faulty)
    PROVE  RulesOK' /\ table' \in BOOLEAN /\ nftReady' \in BOOLEAN
<1>1. nftPeers' \in [Peer -> Limits] /\ nftReady' \in BOOLEAN
  BY NothingSet DEF clearInterfaceNFT
<1>2. (table' = FALSE /\ nrules' = {}) \/ (table' = table /\ nrules' = nrules)
  BY DEF clearInterfaceNFT, nftHost
<1> QED
  BY <1>1, <1>2 DEF SettingsOK, RulesOK

(* Whichever qdisc stays, no one remembers what is in it. *)
LEMMA NoTableKeeps ==
    ASSUME LimitInv, NEW faulty, clearInterfaceTCOnly(faulty)
    PROVE  /\ Kept(Current', tcReady' /\ qdisc')
           /\ NothingRemembered' /\ qdisc' \in BOOLEAN /\ tcReady' = FALSE
<1>1. PICK kept : /\ qdisc' = (qdisc /\ kept = Dirs)
                  /\ classes' = IF "tx" \in kept THEN classes ELSE [m \in Minor |-> 0]
                  /\ filters' = {f \in filters : f.dir \in kept}
  BY DEF clearInterfaceTCOnly
<1>2. strays' = filters' /\ hit' = {} /\ tcReady' = FALSE /\ tcPeers' = [p \in Peer |-> NoTC]
  BY DEF clearInterfaceTCOnly
<1>3. classes \in [Minor -> Rates] /\ \A f \in filters : FilterOK(f)
  BY CurrentIs DEF LimitInv, Kept, TableOK
<1>4. classes' \in [Minor -> Rates] /\ \A f \in filters' : FilterOK(f)
  <2>1. classes' \in [Minor -> Rates]
    BY <1>1, <1>3, NothingSet
  <2>2. \A f \in filters' : FilterOK(f)
    BY <1>1, <1>3
  <2> QED
    BY <2>1, <2>2
<1>5. PICK S, hasQdisc : S = Current' /\ hasQdisc = (tcReady' /\ qdisc')
  OBVIOUS
<1>6. /\ S.peers = [p \in Peer |-> NoTC] /\ S.classes \in [Minor -> Rates]
      /\ S.strays = S.filters /\ S.hit = {} /\ \A f \in S.filters : FilterOK(f)
  BY <1>2, <1>4, <1>5, CurrentThen
<1>7. Kept(S, hasQdisc)
  BY <1>6, NothingKept
<1>8. NothingRemembered'
  BY <1>2, NothingApplied DEF NothingRemembered
<1> QED
  BY <1>1, <1>2, <1>5, <1>7, <1>8

LEMMA FaultCounted ==
    ASSUME SettingsOK, NEW kind, Fails(kind)
    PROVE  bwFaults' \in 0..MaxBwFaults /\ bwFaults' # bwFaults
BY BandwidthBounds DEF SettingsOK, Fails

(* A clean sync is one that counts no fault. *)
LEMMA FaultyCounted ==
    ASSUME SettingsOK, NEW faulty \in BOOLEAN, Faulty(faulty)
    PROVE  bwFaults' \in 0..MaxBwFaults /\ (bwFaults' = bwFaults => ~faulty)
<1>1. CASE faulty
  BY <1>1, FaultCounted DEF Faulty
<1>2. CASE ~faulty
  BY <1>2 DEF Faulty, SettingsOK
<1> QED
  BY <1>1, <1>2

(* A tc sync, whatever fails in it; when nothing does, no peer without a    *)
(* limit is left one, and with the qdiscs there the others have theirs.     *)
LEMMA SyncTCKeeps ==
    ASSUME LimitInv, NEW faulty \in BOOLEAN, Faulty(faulty), SyncTC(faulty)
    PROVE  /\ LimitInv'
           /\ ~faulty => /\ Freed(Current')
                         /\ AnyLimit => tcReady'
                         /\ AnyLimit /\ qdisc' => \A p \in Peer : Has(Current', p)
<1>1. SettingsOK /\ RulesOK /\ want \in [Peer -> Limits]
  BY DEF LimitInv, SettingsOK
<1>2. /\ UNCHANGED <<want, bwEdits, backend>> /\ clearInterfaceNFT(faulty)
      /\ \/ ~AnyLimit /\ Becomes(Lifted(Current, faulty)) /\ UNCHANGED <<qdisc, tcReady>>
         \/ /\ AnyLimit /\ ~tcReady /\ faulty
            /\ Becomes(Lifted(Current, faulty))
            /\ qdisc' \in {qdisc, TRUE} /\ UNCHANGED tcReady
         \/ /\ AnyLimit
            /\ qdisc' = (qdisc \/ ~tcReady) /\ tcReady' = TRUE
            /\ Becomes(SyncedTC(Lifted(Current, faulty), qdisc', faulty))
  BY DEF SyncTC, dbVars
<1>3. RulesOK' /\ table' \in BOOLEAN /\ nftReady' \in BOOLEAN
  BY <1>1, <1>2, NoRulesKeep
<1>4. ASSUME Becomes(Lifted(Current, faulty)), NEW hasQdisc, hasQdisc => qdisc \/ ~tcReady
      PROVE  /\ Kept(Current', hasQdisc) /\ Freed(Current')
             /\ NothingRemembered => NothingRemembered'
  <2>1. PICK T \in Lifted(Current, faulty) :
            /\ tcPeers' = T.peers /\ classes' = T.classes /\ filters' = T.filters
            /\ strays' = T.strays /\ hit' = T.hit
    BY <1>4 DEF Becomes
  <2>2. /\ Kept(T, hasQdisc) /\ Freed(T)
        /\ NothingRemembered => \A p \in Peer : ~T.peers[p].active
    BY <1>4, Lifting
  <2>3. Kept(Current', hasQdisc)
    BY <2>1, <2>2, BecomingKeeps
  <2> QED
    BY <2>1, <2>2, <2>3, CurrentThen DEF Freed, NothingRemembered
<1>5. qdisc \in BOOLEAN /\ tcReady \in BOOLEAN /\ (~tcReady => NothingRemembered)
  BY DEF LimitInv, SettingsOK
<1>6. CASE ~AnyLimit /\ Becomes(Lifted(Current, faulty)) /\ UNCHANGED <<qdisc, tcReady>>
  <2>1. PICK hasQdisc : hasQdisc = (tcReady /\ qdisc)
    OBVIOUS
  <2>2. /\ Kept(Current', hasQdisc) /\ Freed(Current')
        /\ NothingRemembered => NothingRemembered'
    BY <1>4, <1>6, <2>1
  <2>3. SettingsOK'
    BY <1>1, <1>2, <1>3, <1>6, FaultyCounted DEF SettingsOK
  <2> QED
    BY <1>3, <1>5, <1>6, <2>1, <2>2, <2>3 DEF LimitInv
<1>7. CASE ~tcReady /\ faulty /\ Becomes(Lifted(Current, faulty))
           /\ qdisc' \in {qdisc, TRUE} /\ UNCHANGED tcReady
  <2>1. Kept(Current', FALSE) /\ (NothingRemembered => NothingRemembered')
    BY <1>4, <1>7
  <2>2. SettingsOK'
    BY <1>1, <1>2, <1>3, <1>5, <1>7, FaultyCounted DEF SettingsOK
  <2> QED
    BY <1>3, <1>5, <1>7, <2>1, <2>2 DEF LimitInv
<1>8. CASE qdisc' = (qdisc \/ ~tcReady) /\ tcReady' = TRUE
           /\ Becomes(SyncedTC(Lifted(Current, faulty), qdisc', faulty))
  <2>1. PICK outcomes, hasQdisc : outcomes = Lifted(Current, faulty) /\ hasQdisc = qdisc'
    OBVIOUS
  <2>2. PICK T \in SyncedTC(outcomes, hasQdisc, faulty) :
            /\ tcPeers' = T.peers /\ classes' = T.classes /\ filters' = T.filters
            /\ strays' = T.strays /\ hit' = T.hit
    BY <1>8, <2>1 DEF Becomes
  <2>3. \A S \in outcomes : Kept(S, hasQdisc) /\ Freed(S)
    BY <1>8, <2>1, Lifting
  <2>4. /\ Kept(T, hasQdisc) /\ Freed(T)
        /\ hasQdisc /\ ~faulty => \A p \in Peer : Has(T, p)
    BY <1>1, <2>2, <2>3, LoopKeeps
  <2>5. Kept(Current', hasQdisc)
    BY <2>2, <2>4, BecomingKeeps
  <2>6. Freed(Current') /\ (\A p \in Peer : Has(T, p) => Has(Current', p))
    BY <2>2, <2>4, CurrentThen DEF Freed, Has
  <2>7. SettingsOK'
    BY <1>1, <1>2, <1>3, <1>5, <1>8, FaultyCounted DEF SettingsOK
  <2>8. Kept(Current', tcReady' /\ qdisc')
    BY <1>8, <2>1, <2>5 DEF Kept
  <2> QED
    BY <1>3, <1>8, <2>1, <2>4, <2>6, <2>7, <2>8 DEF LimitInv
<1> QED
  BY <1>2, <1>6, <1>7, <1>8

(* Every rule is for a limit that nft remembers. *)
LEMMA RulesForLimits ==
    ASSUME NEW lims \in [Peer -> Limits], NEW r \in nftRules(lims)
    PROVE  /\ r.ip[1] \in Peer /\ r.rate > 0
           /\ \E k \in 1..lims[r.ip[1]].n : r.ip = <<r.ip[1], k>>
           /\ r.dir \in Dirs /\ r.rate = lims[r.ip[1]][r.dir]
<1>1. PICK p \in Peer : \E ip \in IPs(p, lims[p].n), dir \in {d \in Dirs : lims[p][d] > 0} :
                              r = [dir |-> dir, ip |-> ip, rate |-> lims[p][dir]]
  BY DEF nftRules
<1>2. PICK ip \in IPs(p, lims[p].n), dir \in {d \in Dirs : lims[p][d] > 0} :
          r = [dir |-> dir, ip |-> ip, rate |-> lims[p][dir]]
  BY <1>1
<1>3. PICK k \in 1..lims[p].n : ip = <<p, k>>
  BY DEF IPs
<1> QED
  BY <1>2, <1>3

LEMMA SyncNFTKeeps ==
    ASSUME LimitInv, NEW faulty \in BOOLEAN, Faulty(faulty), SyncNFT(faulty)
    PROVE  LimitInv'
<1>1. SettingsOK /\ RulesOK
  BY DEF LimitInv
<1>2. /\ Kept(Current', tcReady' /\ qdisc') /\ NothingRemembered'
      /\ qdisc' \in BOOLEAN /\ tcReady' \in BOOLEAN
  BY NoTableKeeps DEF SyncNFT
<1>3. PICK lims : lims = [p \in Peer |-> NFTWanted(p)]
  OBVIOUS
<1>4. lims \in [Peer -> Limits]
  <2>1. \A p \in Peer : NFTWanted(p) \in Limits
    BY <1>1, NoRate DEF NFTWanted, SettingsOK, RulesOK
  <2> QED
    BY <1>3, <2>1
<1>5. nftPeers' = lims
  BY <1>3 DEF SyncNFT
<1>6. \/ /\ nftReady' = FALSE
         /\ (table' = FALSE /\ nrules' = {}) \/ (table' = table /\ nrules' = nrules)
      \/ nftReady' = nftReady /\ nrules' = nrules /\ table' \in {table, TRUE}
      \/ /\ nftReady' = TRUE /\ table' = (table \/ ~nftReady)
         /\ nrules' \in nftRenders(lims, table', faulty)
  BY <1>3 DEF SyncNFT, nftHost
<1>7. table' \in BOOLEAN /\ nftReady' \in BOOLEAN
  BY <1>1, <1>6 DEF SettingsOK
<1>8. nrules' \in nftRenders(lims, table', faulty)
        => nrules' \subseteq nrules \cup nftRules(lims) /\ (~table' => nrules' = {})
  BY DEF nftRenders
<1>9. nrules' \subseteq nrules \cup nftRules(lims) /\ (~table' => nrules' = {})
  BY <1>1, <1>6, <1>8 DEF RulesOK, SettingsOK
<1>10. RulesOK'
  BY <1>1, <1>4, <1>5, <1>9, RulesForLimits DEF RulesOK
<1>11. UNCHANGED <<want, bwEdits, backend>>
  BY DEF SyncNFT, dbVars
<1>12. SettingsOK'
  BY <1>1, <1>2, <1>7, <1>11, FaultyCounted DEF SettingsOK
<1> QED
  BY <1>2, <1>10, <1>12 DEF LimitInv

LEMMA BwRestartKeeps ==
    ASSUME LimitInv, NEW next \in Backends, BwRestart(next)
    PROVE  LimitInv'
<1>1. SettingsOK /\ RulesOK /\ TableOK(Current)
  BY DEF LimitInv, Kept
<1>2. bwFaults' \in 0..MaxBwFaults
  BY <1>1, FaultCounted DEF BwRestart
<1>3. /\ tcReady' = FALSE /\ nftReady' = FALSE /\ backend' = next
      /\ tcPeers' = [p \in Peer |-> NoTC] /\ nftPeers' = [p \in Peer |-> NoLimit]
      /\ strays' = filters /\ hit' = {}
      /\ UNCHANGED <<want, bwEdits, qdisc, table, classes, filters, nrules>>
  BY DEF BwRestart, dbVars, tcHost, nftHost
<1>4. SettingsOK'
  BY <1>1, <1>2, <1>3 DEF SettingsOK
<1>5. RulesOK'
  BY <1>1, <1>3, NothingSet DEF RulesOK
<1>6. PICK S : S = Current'
  OBVIOUS
<1>7. classes \in [Minor -> Rates] /\ \A f \in filters : FilterOK(f)
  BY <1>1, CurrentIs DEF TableOK
<1>8. /\ S.peers = [p \in Peer |-> NoTC] /\ S.classes = classes
      /\ S.filters = filters /\ S.strays = filters /\ S.hit = {}
  BY <1>3, <1>6, CurrentThen
<1>9. Kept(S, FALSE)
  BY <1>7, <1>8, NothingKept
<1>10. NothingRemembered'
  BY <1>3, NothingApplied DEF NothingRemembered
<1> QED
  BY <1>3, <1>4, <1>5, <1>6, <1>9, <1>10 DEF LimitInv

(* A new link has neither classes nor filters; the memory of them stays. *)
LEMMA LinkRecreatedKeeps == LimitInv /\ LinkRecreated => LimitInv'
<1> SUFFICES ASSUME LimitInv, LinkRecreated PROVE LimitInv'
  OBVIOUS
<1>1. SettingsOK /\ RulesOK /\ Kept(Current, FALSE) /\ (~tcReady => NothingRemembered)
  BY DEF LimitInv, Kept
<1>2. bwFaults' \in 0..MaxBwFaults
  BY <1>1, FaultCounted DEF LinkRecreated
<1>3. /\ qdisc' = FALSE /\ classes' = [m \in Minor |-> 0]
      /\ filters' = {} /\ strays' = {} /\ hit' = {}
      /\ UNCHANGED <<want, bwEdits, backend, table, nrules, tcReady, tcPeers, nftReady, nftPeers>>
  BY DEF LinkRecreated, dbVars, nftHost, tcMem, nftMem
<1>4. SettingsOK' /\ RulesOK'
  BY <1>1, <1>2, <1>3 DEF SettingsOK, RulesOK
<1>5. PICK S, T : S = Current /\ T = Current'
  OBVIOUS
<1>6. /\ T.peers = S.peers /\ T.classes = [m \in Minor |-> 0]
      /\ T.filters = {} /\ T.strays = {} /\ T.hit = {}
  BY <1>3, <1>5, CurrentIs, CurrentThen
<1>7. TableOK(T) /\ Owned(T) /\ (AtHome(S) => AtHome(T))
  BY <1>1, <1>5, <1>6, NothingSet DEF Kept, TableOK, Owned, Known, AtHome
<1>8. Kept(T, FALSE)
  BY <1>1, <1>5, <1>6, <1>7 DEF Kept
<1>9. NothingRemembered => NothingRemembered'
  BY <1>3 DEF NothingRemembered
<1> QED
  BY <1>1, <1>3, <1>4, <1>5, <1>8, <1>9 DEF LimitInv

(* A step that leaves tc's part of the host and the memory of it alone. *)
LEMMA TCAlone ==
    ASSUME LimitInv, UNCHANGED <<tcHost, tcMem, strays, hit>>, SettingsOK', RulesOK'
    PROVE  LimitInv'
<1>1. Current' = Current /\ UNCHANGED <<qdisc, tcReady, tcPeers>>
  BY DEF Current, tcHost, tcMem
<1>2. Kept(Current', tcReady' /\ qdisc')
  BY <1>1 DEF LimitInv
<1> QED
  BY <1>1, <1>2 DEF LimitInv, NothingRemembered

(* Handlers, a removed interface, a flushed ruleset. *)
LEMMA EditKeeps ==
    ASSUME LimitInv, NEW p \in Peer, NEW w \in Limits, WriteLimit(p, w)
    PROVE  LimitInv'
<1>1. bwEdits' \in 0..MaxBwEdits
  BY BandwidthBounds DEF LimitInv, SettingsOK, WriteLimit
<1>2. want' \in [Peer -> Limits]
  BY DEF LimitInv, SettingsOK, WriteLimit
<1>3. UNCHANGED <<backend, bwFaults, tcHost, tcMem, strays, hit>>
      /\ UNCHANGED <<qdisc, table, nrules, tcReady, nftReady, nftPeers>>
  BY DEF WriteLimit, tcHost, nftHost, tcMem, nftMem
<1>4. SettingsOK' /\ RulesOK'
  BY <1>1, <1>2, <1>3 DEF LimitInv, SettingsOK, RulesOK
<1> QED
  BY <1>3, <1>4, TCAlone

LEMMA RemoveInterfaceKeeps == LimitInv /\ RemoveInterface => LimitInv'
<1> SUFFICES ASSUME LimitInv, RemoveInterface PROVE LimitInv'
  OBVIOUS
<1>1. PICK faulty \in BOOLEAN :
          Faulty(faulty) /\ clearInterfaceTCOnly(faulty) /\ clearInterfaceNFT(faulty)
  BY DEF RemoveInterface
<1>2. SettingsOK /\ RulesOK
  BY DEF LimitInv
<1>3. /\ Kept(Current', tcReady' /\ qdisc') /\ NothingRemembered'
      /\ qdisc' \in BOOLEAN /\ tcReady' \in BOOLEAN
  BY <1>1, NoTableKeeps
<1>4. RulesOK' /\ table' \in BOOLEAN /\ nftReady' \in BOOLEAN
  BY <1>1, <1>2, NoRulesKeep
<1>5. bwEdits' \in 0..MaxBwEdits
  BY <1>2, BandwidthBounds DEF SettingsOK, RemoveInterface
<1>6. want' \in [Peer -> Limits] /\ backend' = backend
  BY NothingSet DEF RemoveInterface
<1>7. bwFaults' \in 0..MaxBwFaults
  BY <1>1, <1>2, FaultyCounted
<1>8. SettingsOK'
  BY <1>2, <1>3, <1>4, <1>5, <1>6, <1>7 DEF SettingsOK
<1> QED
  BY <1>3, <1>4, <1>8 DEF LimitInv

LEMMA TableLostKeeps == LimitInv /\ TableLost => LimitInv'
<1> SUFFICES ASSUME LimitInv, TableLost PROVE LimitInv'
  OBVIOUS
<1>1. bwFaults' \in 0..MaxBwFaults
  BY FaultCounted DEF LimitInv, TableLost
<1>2. /\ table' = FALSE /\ nrules' = {}
      /\ UNCHANGED <<tcHost, tcMem, strays, hit>>
      /\ UNCHANGED <<want, bwEdits, backend, qdisc, tcReady, nftReady, nftPeers>>
  BY DEF TableLost, dbVars, tcHost, tcMem, nftMem
<1>3. SettingsOK' /\ RulesOK'
  BY <1>1, <1>2 DEF LimitInv, SettingsOK, RulesOK
<1> QED
  BY <1>2, <1>3, TCAlone

LEMMA SyncKeeps == LimitInv /\ SyncBandwidth => LimitInv'
<1> SUFFICES ASSUME LimitInv, SyncBandwidth PROVE LimitInv'
  OBVIOUS
<1>1. ASSUME NEW faulty \in BOOLEAN, Faulty(faulty), SyncTC(faulty) \/ SyncNFT(faulty)
      PROVE  LimitInv'
  BY <1>1, SyncTCKeeps, SyncNFTKeeps
<1>2. CASE SyncNone
  <2>1. /\ UNCHANGED <<tcHost, tcMem, strays, hit>>
        /\ UNCHANGED <<want, bwEdits, backend, bwFaults, qdisc, table, nrules, tcReady, nftReady,
                       nftPeers>>
    BY <1>2 DEF SyncNone, bwVars, dbVars, tcHost, nftHost, tcMem, nftMem
  <2>2. SettingsOK' /\ RulesOK'
    BY <2>1 DEF LimitInv, SettingsOK, RulesOK
  <2> QED
    BY <2>1, <2>2, TCAlone
<1> QED
  BY <1>1, <1>2 DEF SyncBandwidth

LEMMA LimitStep == LimitInv /\ [BwNext]_bwVars => LimitInv'
<1> SUFFICES ASSUME LimitInv, [BwNext]_bwVars PROVE LimitInv'
  OBVIOUS
<1>1. CASE UNCHANGED bwVars
  <2>1. /\ UNCHANGED <<tcHost, tcMem, strays, hit>>
        /\ UNCHANGED <<want, bwEdits, backend, bwFaults, qdisc, table, nrules, tcReady, nftReady,
                       nftPeers>>
    BY <1>1 DEF bwVars, dbVars, tcHost, nftHost, tcMem, nftMem
  <2>2. SettingsOK' /\ RulesOK'
    BY <2>1 DEF LimitInv, SettingsOK, RulesOK
  <2> QED
    BY <2>1, <2>2, TCAlone
<1>2. CASE SyncBandwidth
  BY <1>2, SyncKeeps
<1>3. ASSUME NEW p \in Peer, NEW w \in Limits, WriteLimit(p, w) PROVE LimitInv'
  BY <1>3, EditKeeps
<1>4. CASE RemoveInterface
  BY <1>4, RemoveInterfaceKeeps
<1>5. CASE LinkRecreated
  BY <1>5, LinkRecreatedKeeps
<1>6. CASE TableLost
  BY <1>6, TableLostKeeps
<1>7. ASSUME NEW next \in Backends, BwRestart(next) PROVE LimitInv'
  BY <1>7, BwRestartKeeps
<1> QED
  BY <1>1, <1>2, <1>3, <1>4, <1>5, <1>6, <1>7 DEF BwNext

LEMMA SpecLimitInv == BwSpec => []LimitInv
<1> QED
  BY LimitsStart, LimitStep, PTL DEF BwSpec

(* Minors and class ids stay in the range that is reserved for them,        *)
(* however many peers there are up to that number, whatever their keys hash *)
(* to, and whichever commands fail.                                         *)
THEOREM LimitsTypeCorrect == BwSpec => []BwTypeOK
<1>1. LimitInv => BwTypeOK
  <2> SUFFICES ASSUME LimitInv PROVE BwTypeOK
    OBVIOUS
  <2>1. PICK S : S = Current
    OBVIOUS
  <2>2. TableOK(S) /\ S.peers = tcPeers /\ S.classes = classes /\ S.filters = filters
        /\ S.strays = strays /\ S.hit = hit
    BY <2>1, CurrentIs DEF LimitInv, Kept
  <2>3. /\ classes \in [Minor -> {w.tx : w \in Limits}]
        /\ tcPeers \in [Peer -> [active: BOOLEAN, minor: Minor \cup {0}, lim: Limits]]
        /\ \A f \in filters : f.ip[1] \in Peer /\ (f.dir = "tx" => f.to \in Minor)
        /\ strays \subseteq filters /\ hit \subseteq Peer
    BY <2>2 DEF TableOK, FilterOK, PeerStates, Rates
  <2>4. {qdisc, table, tcReady, nftReady} \subseteq BOOLEAN
    BY DEF LimitInv, SettingsOK
  <2> QED
    BY <2>3, <2>4 DEF LimitInv, SettingsOK, RulesOK, BwTypeOK
<1> QED
  BY <1>1, SpecLimitInv, PTL

(* A filter the daemon knows is one that the limit it applied asks for. *)
LEMMA KnownIs ==
    ASSUME NEW S, TableOK(S), Owned(S), NEW f \in S.filters \ S.strays
    PROVE  /\ f.ip[1] \in Peer /\ S.peers[f.ip[1]].active
           /\ f \in FiltersOf(f.ip[1], S.peers[f.ip[1]])
           /\ f.dir = "tx" => f.to = S.peers[f.ip[1]].minor
<1>1. PICK p \in Peer : S.peers[p].active /\ f \in FiltersOf(p, S.peers[p])
  BY DEF Owned, Known
<1>2. S.peers[p] \in PeerStates
  BY DEF TableOK
<1> QED
  BY <1>1, <1>2, FiltersInWindow

(* allocateMinor, clearPeerTC and the loop of tcState.sync never put two    *)
(* peers in one HTB class, whatever the keys hash to and whichever commands *)
(* fail, those that delete included, in whatever order limits are set,      *)
(* lifted, fail to apply and are applied again.  Of the link this is said   *)
(* of the filters the daemon still knows: those that a failed deletion or a *)
(* restart left may lead to a class that another peer is given.             *)
THEOREM ClassesStayDistinct == BwSpec => []ClassesDistinct
<1>1. LimitInv => ClassesDistinct
  <2> SUFFICES ASSUME LimitInv PROVE ClassesDistinct
    OBVIOUS
  <2>1. PICK S : S = Current
    OBVIOUS
  <2>2. TableOK(S) /\ Owned(S) /\ S.peers = tcPeers /\ S.filters = filters /\ S.strays = strays
    BY <2>1, CurrentIs DEF LimitInv, Kept
  <2>3. \A p, q \in Peer : tcPeers[p].active /\ tcPeers[q].active /\ p # q
                             => tcPeers[p].minor # tcPeers[q].minor
    BY <2>2 DEF TableOK
  <2>4. ASSUME NEW f \in filters \ strays, NEW g \in filters \ strays,
               f.dir = "tx", g.dir = "tx", f.to = g.to
        PROVE  f.ip[1] = g.ip[1]
    <3>1. f.ip[1] \in Peer /\ tcPeers[f.ip[1]].active /\ f.to = tcPeers[f.ip[1]].minor
      BY <2>2, <2>4, KnownIs
    <3>2. g.ip[1] \in Peer /\ tcPeers[g.ip[1]].active /\ g.to = tcPeers[g.ip[1]].minor
      BY <2>2, <2>4, KnownIs
    <3> QED
      BY <2>3, <2>4, <3>1, <3>2
  <2> QED
    BY <2>3, <2>4 DEF ClassesDistinct
<1> QED
  BY <1>1, SpecLimitInv, PTL

(* tcState.sync skips a peer whose limit it remembers as applied.  While    *)
(* the qdiscs are there it is right to, but for a peer that lost filters to *)
(* the clearing of another: the class is at its rate and every filter of    *)
(* the limit on the link, whatever other peers had applied or cleared since *)
(* and whichever commands of that failed.                                   *)
RememberedInForce == tcReady /\ qdisc => \A p \in Peer : InForce(Current, p)

THEOREM LimitsRemembered == BwSpec => []RememberedInForce
<1>1. LimitInv => RememberedInForce
  BY DEF LimitInv, Kept, RememberedInForce
<1> QED
  BY <1>1, SpecLimitInv, PTL

(* With keys that hash far enough apart no peer ever loses a filter to the  *)
(* clearing of another: then that exception is none.                        *)
THEOREM ApartNoneHit == KeysApart => (BwSpec => [](hit = {}))
<1> SUFFICES ASSUME KeysApart PROVE BwSpec => [](hit = {})
  OBVIOUS
<1>1. LimitInv => hit = {}
  BY CurrentIs DEF LimitInv, Kept
<1> QED
  BY <1>1, SpecLimitInv, PTL
-----------------------------------------------------------------------------
(* A clean sync puts every limit in force, and lifts the others. *)

(* The filters of a limit: one for each address, in each direction it has a *)
(* rate for.                                                                *)
LEMMA FilterIs ==
    ASSUME NEW p \in Peer, NEW st \in PeerStates, NEW k \in Nat, NEW dir \in Dirs
    PROVE  /\ \A f \in FiltersOf(p, st) :
                 f.dir = dir /\ f.ip = <<p, k>>
                    => /\ k <= st.lim.n /\ st.lim[dir] > 0
                       /\ f.to = IF dir = "tx" THEN st.minor ELSE st.lim.rx
           /\ k >= 1 /\ k <= st.lim.n /\ st.lim[dir] > 0
                => \E f \in FiltersOf(p, st) : f.dir = dir /\ f.ip = <<p, k>>
<1>1. PICK n, txs, m : n = st.lim.n /\ txs = (IF st.lim.tx > 0 THEN st.lim.n ELSE 0) /\ m = st.minor
  OBVIOUS
<1>2. n \in Nat /\ st.lim.tx \in Nat /\ st.lim.rx \in Nat
  BY <1>1, LimitIs DEF PeerStates
<1> DEFINE Tx(j) == [dir |-> "tx", pref |-> m + j - 1, ip |-> <<p, j>>, to |-> m]
           Rx(j) == [dir |-> "rx", pref |-> m + txs + j - 1, ip |-> <<p, j>>, to |-> st.lim.rx]
           nrx == IF st.lim.rx > 0 THEN n ELSE 0
<1>3. FiltersOf(p, st) = {Tx(j) : j \in 1..txs} \cup {Rx(j) : j \in 1..nrx}
  BY <1>1 DEF FiltersOf
<1>4. \A j : /\ Tx(j).dir = "tx" /\ Tx(j).ip = <<p, j>> /\ Tx(j).to = m
             /\ Rx(j).dir = "rx" /\ Rx(j).ip = <<p, j>> /\ Rx(j).to = st.lim.rx
  OBVIOUS
<1> HIDE DEF Tx, Rx
<1>5. CASE dir = "tx"
  BY <1>1, <1>2, <1>3, <1>4, <1>5
<1>6. CASE dir = "rx"
  BY <1>1, <1>2, <1>3, <1>4, <1>6
<1> QED
  BY <1>5, <1>6 DEF Dirs

LEMMA FilterMade ==
    ASSUME NEW p \in Peer, NEW st \in PeerStates, NEW k \in Nat, NEW dir \in Dirs,
           k >= 1, k <= st.lim.n, st.lim[dir] > 0
    PROVE  \E f \in FiltersOf(p, st) : f.dir = dir /\ f.ip = <<p, k>>
BY FilterIs

(* The rates the link has for an address, by the filters the daemon knows,  *)
(* and the one a limit asks for.                                            *)
KnownRates(S, ip, dir) ==
    {IF dir = "tx" THEN S.classes[f.to] ELSE f.to :
        f \in {g \in S.filters \ S.strays : g.dir = dir /\ g.ip = ip}}

Asked(w, k, dir) == IF k <= w.n /\ w[dir] > 0 THEN {w[dir]} ELSE {}

LEMMA LinkRates ==
    ASSUME NEW S, TableOK(S), Owned(S), NEW p \in Peer, S.peers[p].active, p \notin S.hit,
           InForce(S, p), NEW k \in Nat, k >= 1, NEW dir \in Dirs
    PROVE  KnownRates(S, <<p, k>>, dir) = Asked(S.peers[p].lim, k, dir)
<1>1. PICK st : st = S.peers[p]
  OBVIOUS
<1>2. /\ st \in PeerStates /\ FiltersOf(p, st) \subseteq S.filters \ S.strays
      /\ st.lim.tx > 0 => S.classes[st.minor] = st.lim.tx
  BY <1>1 DEF TableOK, InForce, Known
<1> DEFINE those == {g \in S.filters \ S.strays : g.dir = dir /\ g.ip = <<p, k>>}
           Rate(f) == IF dir = "tx" THEN S.classes[f.to] ELSE f.to
<1>3. ASSUME NEW f \in those PROVE k <= st.lim.n /\ st.lim[dir] > 0 /\ Rate(f) = st.lim[dir]
  <2>1. f.ip[1] = p
    OBVIOUS
  <2>2. f \in FiltersOf(p, st)
    BY <1>1, <2>1, KnownIs
  <2>3. k <= st.lim.n /\ st.lim[dir] > 0 /\ f.to = IF dir = "tx" THEN st.minor ELSE st.lim.rx
    BY <1>2, <2>2, FilterIs
  <2> QED
    BY <1>2, <2>3 DEF Dirs
<1>4. k <= st.lim.n /\ st.lim[dir] > 0 => \E f \in those : TRUE
  <2> SUFFICES ASSUME k <= st.lim.n, st.lim[dir] > 0 PROVE \E f \in those : TRUE
    OBVIOUS
  <2>1. \E f \in FiltersOf(p, st) : f.dir = dir /\ f.ip = <<p, k>>
    <3>1. st \in PeerStates /\ k >= 1
      BY <1>2
    <3> HIDE DEF those, Rate
    <3> QED
      BY ONLY <3>1, FilterMade, k \in Nat, dir \in Dirs, p \in Peer, k <= st.lim.n, st.lim[dir] > 0
  <2> QED
    BY <1>2, <2>1
<1>5. {Rate(f) : f \in those} = IF k <= st.lim.n /\ st.lim[dir] > 0 THEN {st.lim[dir]} ELSE {}
  <2> HIDE DEF those, Rate
  <2> QED
    BY <1>3, <1>4
<1>6. KnownRates(S, <<p, k>>, dir) = {Rate(f) : f \in those}
  BY DEF KnownRates
<1> HIDE DEF those, Rate
<1> QED
  BY <1>1, <1>5, <1>6 DEF Asked

LEMMA TCSettles ==
    ASSUME LimitInv, Faulty(FALSE), SyncTC(FALSE), ~ReadyIsStale', NEW p \in Peer
    PROVE  LimitSettled(p)' /\ LimitLifted(p)'
<1>1. /\ LimitInv' /\ Freed(Current')
      /\ AnyLimit => tcReady'
      /\ AnyLimit /\ qdisc' => \A q \in Peer : Has(Current', q)
  BY SyncTCKeeps
<1>2. want' = want /\ nrules' = {}
  BY DEF SyncTC, dbVars, clearInterfaceNFT
<1>3. PICK S : S = Current'
  OBVIOUS
<1>4. /\ S.peers = tcPeers' /\ S.classes = classes' /\ S.filters = filters'
      /\ S.strays = strays' /\ S.hit = hit'
      /\ TableOK(S) /\ Owned(S)
      /\ tcReady' /\ qdisc' => \A q \in Peer : InForce(S, q)
  BY <1>1, <1>3, CurrentThen DEF LimitInv, Kept
<1>5. ~Limited(want[p]) => \A f \in filters' \ strays' : f.ip[1] # p
  BY <1>1, <1>3, <1>4, KnownIs DEF Freed
<1>6. ASSUME Limited(want[p]), want[p].n > 0, p \notin hit' PROVE Enforced(p)'
  <2>1. AnyLimit /\ tcReady' /\ qdisc'
    BY <1>1, <1>6 DEF AnyLimit, ReadyIsStale
  <2>2. want[p] \in Limits
    BY DEF LimitInv, SettingsOK
  <2>3. S.peers[p].active /\ S.peers[p].lim = want[p]
    BY <1>1, <1>3, <1>6, <2>1, <2>2, LimitIs DEF Has
  <2>4. p \notin S.hit /\ InForce(S, p)
    BY <1>4, <1>6, <2>1
  <2> SUFFICES ASSUME NEW k \in Addresses, NEW dir \in Dirs
               PROVE  InForceRates(<<p, k>>, dir)'
                        = IF k <= want[p].n /\ want[p][dir] > 0 THEN {want[p][dir]} ELSE {}
    BY <1>2 DEF Enforced
  <2>5. k \in Nat /\ k >= 1
    BY LimitIs DEF Addresses
  <2>6. KnownRates(S, <<p, k>>, dir) = Asked(want[p], k, dir)
    BY <1>4, <2>3, <2>4, <2>5, LinkRates
  <2>7. InForceRates(<<p, k>>, dir)' = KnownRates(S, <<p, k>>, dir)
    BY <1>2, <1>4 DEF InForceRates, KnownRates
  <2> QED
    BY <2>6, <2>7 DEF Asked
<1> QED
  BY <1>2, <1>5, <1>6 DEF LimitSettled, LimitLifted

LEMMA NFTSettles ==
    ASSUME LimitInv, Faulty(FALSE), SyncNFT(FALSE), ~ReadyIsStale', NEW p \in Peer
    PROVE  LimitSettled(p)' /\ LimitLifted(p)'
<1>1. SettingsOK /\ RulesOK /\ want[p] \in Limits
  BY DEF LimitInv, SettingsOK
<1>2. want' = want /\ filters' = {}
  <2>1. clearInterfaceTCOnly(FALSE) /\ want' = want
    BY DEF SyncNFT, dbVars
  <2> QED
    BY <2>1 DEF clearInterfaceTCOnly
<1>3. PICK lims : lims = [q \in Peer |-> NFTWanted(q)]
  OBVIOUS
<1>4. lims \in [Peer -> Limits]
  <2>1. \A q \in Peer : NFTWanted(q) \in Limits
    BY <1>1, NoRate DEF NFTWanted, SettingsOK, RulesOK
  <2> QED
    BY <1>3, <2>1
<1>5. \/ /\ \A q \in Peer : ~Limited(lims[q])
         /\ nftReady' = FALSE
         /\ (table' = FALSE /\ nrules' = {}) \/ (table' = table /\ nrules' = nrules)
      \/ /\ nftReady' = TRUE /\ nrules' \in nftRenders(lims, table', FALSE)
  BY <1>3 DEF SyncNFT, nftHost
<1>6. nrules' \in nftRenders(lims, table', FALSE) => nrules' = IF table' THEN nftRules(lims) ELSE {}
  BY DEF nftRenders
<1>7. ASSUME ~Limited(want[p])
      PROVE  (table' /\ ~nftReady') \/ \A r \in nrules' : r.ip[1] # p
  <2>1. CASE nftReady' = TRUE /\ nrules' = (IF table' THEN nftRules(lims) ELSE {})
    <3>1. lims[p] = NoLimit /\ NoLimit.n = 0
      BY <1>3, <1>7 DEF NFTWanted, NoLimit
    <3>2. \A r \in nftRules(lims) : r.ip[1] = p => FALSE
      BY <1>4, <3>1, RulesForLimits
    <3> QED
      BY <2>1, <3>2
  <2>2. CASE nftReady' = FALSE /\ ((table' = FALSE /\ nrules' = {}) \/ (table' = table /\ nrules' = nrules))
    BY <1>1, <2>2 DEF RulesOK, SettingsOK
  <2> QED
    BY <1>5, <1>6, <2>1, <2>2
<1>8. ASSUME Limited(want[p]), want[p].n > 0 PROVE Enforced(p)'
  <2>1. lims[p] = want[p] /\ want[p].n # 0
    BY <1>1, <1>3, <1>8, LimitIs DEF NFTWanted
  <2>2. nrules' = nftRules(lims)
    BY <1>5, <1>6, <1>8, <2>1 DEF ReadyIsStale
  <2> SUFFICES ASSUME NEW k \in Addresses, NEW dir \in Dirs
               PROVE  InForceRates(<<p, k>>, dir)'
                        = IF k <= want[p].n /\ want[p][dir] > 0 THEN {want[p][dir]} ELSE {}
    BY <1>2 DEF Enforced
  <2>3. k \in Nat /\ k >= 1
    BY LimitIs DEF Addresses
  <2> DEFINE those == {r \in nftRules(lims) : r.dir = dir /\ r.ip = <<p, k>>}
  <2>4. ASSUME NEW r \in those PROVE k <= want[p].n /\ want[p][dir] > 0 /\ r.rate = want[p][dir]
    <3>1. r.ip[1] = p
      OBVIOUS
    <3>2. \E j \in 1..want[p].n : r.ip = <<p, j>>
      BY <1>4, <2>1, <3>1, RulesForLimits
    <3>3. r.rate > 0 /\ r.rate = want[p][dir]
      BY <1>4, <2>1, <3>1, RulesForLimits
    <3>4. k \in 1..want[p].n
      BY <3>2
    <3> QED
      BY <3>3, <3>4
  <2>5. k <= want[p].n /\ want[p][dir] > 0 => \E r \in those : r.rate = want[p][dir]
    <3> SUFFICES ASSUME k <= want[p].n, want[p][dir] > 0
                 PROVE  [dir |-> dir, ip |-> <<p, k>>, rate |-> want[p][dir]] \in nftRules(lims)
      OBVIOUS
    <3>1. want[p].n \in Nat
      BY <1>1, LimitIs
    <3>2. <<p, k>> \in IPs(p, lims[p].n) /\ dir \in {d \in Dirs : lims[p][d] > 0}
      BY <2>1, <2>3, <3>1 DEF IPs
    <3> QED
      BY <2>1, <3>2 DEF nftRules
  <2>6. InForceRates(<<p, k>>, dir)' = {r.rate : r \in those}
    BY <1>2, <2>2 DEF InForceRates
  <2> HIDE DEF those
  <2> QED
    BY <2>4, <2>5, <2>6
<1> QED
  BY <1>2, <1>7, <1>8 DEF LimitSettled, LimitLifted

(* tc_limits.go: SyncBandwidth "applies full per-peer bandwidth limits and  *)
(* removes stale peers".  One sync in which no command fails is enough for  *)
(* both: each limit is in force in both directions, at its rate and no      *)
(* other, and peers without one are not limited, with either backend and    *)
(* whatever failed or restarted before.  Of what failed deletions and       *)
(* restarts left (strays), of peers hit by the clearing of another and of   *)
(* stale ready flags it says what LimitsSettle and LiftedIsFree say.        *)
SyncsEnforce ==
    [][SyncBandwidth /\ UNCHANGED bwFaults /\ backend # "none" /\ ~ReadyIsStale'
          => \A p \in Peer : LimitSettled(p)' /\ LimitLifted(p)']_bwVars

THEOREM SyncsEnforceLimits == BwSpec => SyncsEnforce
<1>1. ASSUME LimitInv, SyncBandwidth, UNCHANGED bwFaults, backend # "none", ~ReadyIsStale'
      PROVE  \A p \in Peer : LimitSettled(p)' /\ LimitLifted(p)'
  <2>1. PICK faulty \in BOOLEAN : Faulty(faulty) /\ (SyncTC(faulty) \/ SyncNFT(faulty))
    BY <1>1 DEF SyncBandwidth, SyncNone
  <2>2. faulty = FALSE
    BY <1>1, <2>1, FaultyCounted DEF LimitInv
  <2>3. SyncTC(FALSE) => \A p \in Peer : LimitSettled(p)' /\ LimitLifted(p)'
    BY <1>1, <2>1, <2>2, TCSettles
  <2>4. SyncNFT(FALSE) => \A p \in Peer : LimitSettled(p)' /\ LimitLifted(p)'
    BY <1>1, <2>1, <2>2, NFTSettles
  <2> QED
    BY <2>1, <2>2, <2>3, <2>4
<1>2. LimitInv /\ [BwNext]_bwVars
        => [SyncBandwidth /\ UNCHANGED bwFaults /\ backend # "none" /\ ~ReadyIsStale'
              => \A p \in Peer : LimitSettled(p)' /\ LimitLifted(p)']_bwVars
  BY <1>1
<1> QED
  BY <1>2, SpecLimitInv, PTL DEF BwSpec, SyncsEnforce
=============================================================================
