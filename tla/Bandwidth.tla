------------------------------ MODULE Bandwidth ------------------------------
(***************************************************************************)
(* Per-peer bandwidth limits of one interface: what SyncBandwidth leaves   *)
(* on the host with the tc backend (an HTB class per peer for TX, police   *)
(* filters for RX) and with the nft backend (one table per interface).     *)
(*                                                                         *)
(* tc keeps what it applied and touches only peers that changed; nft       *)
(* rebuilds its rules at every sync and remembers only that its table is   *)
(* there.  A rate is a number, 0 when there is none; a peer has n          *)
(* host-sized addresses <<p, 1>> .. <<p, n>>.                              *)
(*                                                                         *)
(* A sync in which no command fails is clean.  In one that is faulty any   *)
(* of its commands may fail, several and each time anew, as when a request *)
(* is cancelled: what tc then leaves is a set of outcomes, not one.  The   *)
(* code drops the error of every command that deletes, and forgets what it *)
(* meant to delete.  strays and hit observe what that and an overlong      *)
(* deletion leave; no guard reads them.                                    *)
(* Names that HostState, the backend's other part, has too start with Bw.  *)
(***************************************************************************)
EXTENDS Naturals, Sequences, Functions

CONSTANTS
    Peers,      \* the peers in the order state.db lists them, a sequence
    Hint,       \* Hint[p]: peerMinorHint, the hash of the public key
    Slots,      \* number of class minors from tcMinorMin on (4079 in the code)
    Limits,     \* the limits requests set: [tx, rx, n], NoLimit included
    MaxBwEdits, \* bound: changes of a peer's limit or addresses
    MaxBwFaults,\* bound: faulty syncs, losses and restarts
    BwFaults    \* the failures of an instance

Peer == Range(Peers)

AllBwFaults == {"command", "linkLost", "tableLost", "restart"}

Dirs == {"tx", "rx"}

Backends == {"tc", "nft", "none"}

ASSUME PeersAssumption == Peers \in Seq(Peer)
ASSUME SlotsAssumption == Slots \in Nat /\ Len(Peers) <= Slots
ASSUME HintAssumption == \A p \in Peer : Hint[p] \in Nat
ASSUME LimitsAssumption ==
    [tx |-> 0, rx |-> 0, n |-> 0] \in Limits /\ Limits \subseteq [tx: Nat, rx: Nat, n: Nat]
ASSUME BandwidthBounds ==
    MaxBwEdits \in Nat /\ MaxBwFaults \in Nat /\ BwFaults \subseteq AllBwFaults

VARIABLES
    want,      \* state.db: want[p], NoLimit when p has no limit or no row
    backend,   \* bandwidth_backend of this daemon life
    bwEdits, bwFaults,
    (* the host *)
    qdisc,     \* the root and ingress qdiscs are on the link
    classes,   \* classes[m]: rate of class 1:m, 0 when there is none
    filters,   \* tc filters
    table,     \* the nft table is there
    nrules,    \* its rules
    (* HostBackend *)
    tcReady,   \* rootReady and ingressReady
    tcPeers,   \* ifaceTCState.peers
    nftReady,  \* ifaceNFTState.ready
    nftPeers,  \* ifaceNFTState.peers
    (* observation only *)
    strays,    \* filters a failed deletion or an earlier daemon life left
    hit        \* peers that lost filters to the clearing of another one

tcHost  == <<qdisc, classes, filters>>
nftHost == <<table, nrules>>
tcMem   == <<tcReady, tcPeers>>
nftMem  == <<nftReady, nftPeers>>
dbVars  == <<want, bwEdits>>
bwVars  == <<dbVars, backend, bwFaults, tcHost, nftHost, tcMem, nftMem, strays, hit>>

tcMinorMin == 16

Minor == tcMinorMin .. tcMinorMin + Slots - 1

NoLimit == [tx |-> 0, rx |-> 0, n |-> 0]

Limited(w) == w.tx > 0 \/ w.rx > 0

(* peerHostIPs *)
IPs(p, n) == {<<p, k>> : k \in 1..n}

NoTC == [active |-> FALSE, minor |-> 0, lim |-> NoLimit]

(* A failure of this kind happens in this step. *)
Fails(kind) ==
    /\ kind \in BwFaults
    /\ bwFaults < MaxBwFaults
    /\ bwFaults' = bwFaults + 1
-----------------------------------------------------------------------------
(* tc: operators on S, the part of the state a sync threads through its     *)
(* peers: [peers, classes, filters, strays, hit].  One that runs commands   *)
(* gives the set of their outcomes, one outcome when the sync is clean.     *)

MinorsUsed(S, p) == {S.peers[q].minor : q \in {x \in Peer \ {p} : S.peers[x].active}}

(* Mutants: the probe does not look who has a minor; it does not wrap.      *)
allocateMinorFirst(S, p) == tcMinorMin + (Hint[p] % Slots)

allocateMinorNoWrap(S, p) ==
    LET used == MinorsUsed(S, p)
        free(k) == tcMinorMin + (Hint[p] % Slots) + k \notin used
        i == CHOOSE i \in 0..Slots - 1 : free(i) /\ \A j \in 0..i - 1 : ~free(j)
    IN  tcMinorMin + (Hint[p] % Slots) + i

(* The first minor from the hash on that no other active peer has. *)
allocateMinor(S, p) ==
    LET used == MinorsUsed(S, p)
        slot(k) == tcMinorMin + ((Hint[p] + k) % Slots)
        free(k) == slot(k) \notin used
        i == CHOOSE i \in 0..Slots - 1 : free(i) /\ \A j \in 0..i - 1 : ~free(j)
    IN  slot(i)

(* Mutant: only as many preferences as the peer has addresses. *)
WindowOfAddresses(st) == st.minor .. st.minor + st.lim.n - 1

(* The preferences clearPeerTC deletes, on both parents. *)
Window(st) == st.minor .. st.minor + 2 * st.lim.n + 7

(* What the deletions of the filters and classes of the peers ps leave.     *)
(* Each is by preference and parent, so it takes the filters of others too. *)
Deletions(S, ps, faulty) ==
    LET tried   == {f \in S.filters : \E p \in ps : f.pref \in Window(S.peers[p])}
        minors  == {S.peers[p].minor : p \in ps}
        keys    == {<<f.dir, f.pref>> : f \in tried}
        left(done, freed) ==
            LET gone == {f \in tried : <<f.dir, f.pref>> \in done} IN
            [peers   |-> S.peers,
             classes |-> [m \in Minor |-> IF m \in freed THEN 0 ELSE S.classes[m]],
             filters |-> S.filters \ gone,
             strays  |-> (S.strays \cup {f \in tried : f.ip[1] \in ps}) \ gone,
             hit     |-> (S.hit \cup {f.ip[1] : f \in gone \ S.strays}) \ ps]
    IN  {left(done, freed) : done  \in IF faulty THEN SUBSET keys ELSE {keys},
                             freed \in IF faulty THEN SUBSET minors ELSE {minors}}

(* Mutant: a cleared peer stays active. *)
clearPeerKeepsActive(S, ps, faulty) == Deletions(S, ps, faulty)

(* Clears the peers ps, in any order.  Whatever failed, they are inactive   *)
(* afterwards, and nothing of an inactive peer's state is read again.       *)
clearPeerTC(S, ps, faulty) ==
    {[T EXCEPT !.peers = [p \in Peer |-> IF p \in ps THEN NoTC ELSE S.peers[p]]] :
        T \in Deletions(S, ps, faulty)}

(* One preference per address and direction, from the minor on. *)
FiltersOf(p, st) ==
    LET txs == IF st.lim.tx > 0 THEN st.lim.n ELSE 0 IN
    {[dir |-> "tx", pref |-> st.minor + k - 1, ip |-> <<p, k>>, to |-> st.minor] :
        k \in 1..txs}
    \cup {[dir |-> "rx", pref |-> st.minor + txs + k - 1, ip |-> <<p, k>>, to |-> st.lim.rx] :
        k \in 1..(IF st.lim.rx > 0 THEN st.lim.n ELSE 0)}

(* The class at some rate, and the filters made. *)
Applied(S, p, st, rate, made) ==
    [peers   |-> [S.peers EXCEPT ![p] = st],
     classes |-> [S.classes EXCEPT ![st.minor] = rate],
     filters |-> S.filters \cup made,
     strays  |-> S.strays \ made,
     hit     |-> S.hit \ {p}]

ClassRate(S, st) == IF st.lim.tx > 0 THEN st.lim.tx ELSE S.classes[st.minor]

(* applyPeerTC when no command of it fails. *)
applyPeerTC(S, p, st) == Applied(S, p, st, ClassRate(S, st), FiltersOf(p, st))

(* It stops at the first command that fails, the class or filter g; without *)
(* the qdiscs that is the first of all.                                     *)
FailedApplies(S, p, st, hasQdisc) ==
    {Applied(S, p, st, S.classes[st.minor], {})}
    \cup IF hasQdisc
         THEN {Applied(S, p, st, ClassRate(S, st), {f \in FiltersOf(p, st) : f.pref < g.pref}) :
                  g \in FiltersOf(p, st)}
         ELSE {}

(* One peer of tcState.sync: no limit and no address to match are skipped,  *)
(* so is a peer whose limit is applied already; otherwise what it had is    *)
(* cleared and the new limit applied, or cleaned up when that fails.        *)
SyncPeerTC(S, p, hasQdisc, faulty) ==
    LET prev  == S.peers[p]
        bares == IF prev.active THEN clearPeerTC(S, {p}, faulty) ELSE {S}
    IN
    IF ~Limited(want[p]) \/ want[p].n = 0 \/ (prev.active /\ prev.lim = want[p])
    THEN {S}
    ELSE UNION {LET st     == [active |-> TRUE, minor |-> allocateMinor(T, p), lim |-> want[p]]
                    failed == IF faulty \/ ~hasQdisc THEN FailedApplies(T, p, st, hasQdisc) ELSE {}
                IN  (IF hasQdisc THEN {applyPeerTC(T, p, st)} ELSE {})
                    \cup UNION {clearPeerTC(U, {p}, faulty) : U \in failed} :
                T \in bares}

Gone == {p \in Peer : tcPeers[p].active /\ ~Limited(want[p])}

(* Peers that lost their limit or their row are cleared first. *)
Lifted(S, faulty) == clearPeerTC(S, Gone, faulty)

Current ==
    [peers |-> tcPeers, classes |-> classes, filters |-> filters, strays |-> strays, hit |-> hit]

Becomes(outcomes) ==
    \E S \in outcomes :
        /\ tcPeers' = S.peers /\ classes' = S.classes /\ filters' = S.filters
        /\ strays' = S.strays /\ hit' = S.hit

(* The loop over the peers: after[n] is what the first n of them leave.     *)
SyncedTC(outcomes, hasQdisc, faulty) ==
    LET after[n \in 0..Len(Peers)] ==
            IF n = 0 THEN outcomes
            ELSE UNION {SyncPeerTC(S, Peers[n], hasQdisc, faulty) : S \in after[n - 1]}
    IN  after[Len(Peers)]

AnyLimit == \E p \in Peer : Limited(want[p])

(* clearInterfaceNFT: what the other backend left.  The memory of it goes   *)
(* even when the table does not.                                            *)
clearInterfaceNFT(faulty) ==
    /\ \/ table' = FALSE /\ nrules' = {}
       \/ faulty /\ UNCHANGED nftHost
    /\ nftReady' = FALSE
    /\ nftPeers' = [p \in Peer |-> NoLimit]

(* Two qdiscs; each that stays keeps its filters, which no one remembers.   *)
clearInterfaceTCOnly(faulty) ==
    /\ \E kept \in IF faulty THEN SUBSET Dirs ELSE {{}} :
          /\ qdisc' = (qdisc /\ kept = Dirs)
          /\ classes' = IF "tx" \in kept THEN classes ELSE [m \in Minor |-> 0]
          /\ filters' = {f \in filters : f.dir \in kept}
    /\ strays' = filters'
    /\ hit' = {}
    /\ tcReady' = FALSE
    /\ tcPeers' = [p \in Peer |-> NoTC]

(* tcState.sync; ready flags are trusted, missing qdiscs not noticed. *)
SyncTC(faulty) ==
    /\ backend = "tc"
    /\ clearInterfaceNFT(faulty)
    /\ \/ ~AnyLimit /\ Becomes(Lifted(Current, faulty)) /\ UNCHANGED <<qdisc, tcReady>>
       \/ /\ AnyLimit
          /\ ~tcReady /\ faulty
          /\ Becomes(Lifted(Current, faulty))
          /\ qdisc' \in {qdisc, TRUE}
          /\ UNCHANGED tcReady
       \/ /\ AnyLimit
          /\ qdisc' = (qdisc \/ ~tcReady)
          /\ tcReady' = TRUE
          /\ Becomes(SyncedTC(Lifted(Current, faulty), qdisc', faulty))
    /\ UNCHANGED <<dbVars, backend>>
-----------------------------------------------------------------------------
(* nftState.sync *)

(* What nft remembers after its first loops: a limit without an address to  *)
(* match leaves the previous one.                                           *)
NFTWanted(p) ==
    CASE ~Limited(want[p])              -> NoLimit
      [] Limited(want[p]) /\ want[p].n = 0 -> nftPeers[p]
      [] OTHER                          -> want[p]

nftRules(lims) ==
    UNION {{[dir |-> dir, ip |-> ip, rate |-> lims[p][dir]] :
               ip \in IPs(p, lims[p].n), dir \in {d \in Dirs : lims[p][d] > 0}} :
           p \in Peer}

(* The chains rx and tx are flushed in turn, which fails without the table  *)
(* and stops at a failure; then every rule is added, each on its own.       *)
nftRenders(lims, there, faulty) ==
    IF ~there THEN {{}}
    ELSE IF faulty THEN {nrules, {r \in nrules : r.dir = "tx"}} \cup SUBSET nftRules(lims)
    ELSE {nftRules(lims)}

(* The table is made unless remembered, and deleted with the last limit.    *)
SyncNFT(faulty) ==
    LET lims == [p \in Peer |-> NFTWanted(p)]
        none == \A p \in Peer : ~Limited(lims[p])
    IN
    /\ backend = "nft"
    /\ clearInterfaceTCOnly(faulty)
    /\ nftPeers' = lims
    /\ \/ /\ none
          /\ nftReady' = FALSE
          /\ \/ nftReady /\ table' = FALSE /\ nrules' = {}
             \/ (~nftReady \/ faulty) /\ UNCHANGED nftHost
       \/ /\ ~none
          /\ ~nftReady /\ faulty
          /\ table' \in {table, TRUE}
          /\ UNCHANGED <<nftReady, nrules>>
       \/ /\ ~none
          /\ nftReady' = TRUE
          /\ table' = (table \/ ~nftReady)
          /\ nrules' \in nftRenders(lims, table', faulty)
    /\ UNCHANGED <<dbVars, backend>>

(* With "none" nothing is touched, whatever an earlier life left there. *)
SyncNone == backend = "none" /\ UNCHANGED bwVars

(* A clean sync, or a faulty one, in which any of the commands may fail. *)
Faulty(faulty) == IF faulty THEN Fails("command") ELSE UNCHANGED bwFaults

SyncBandwidth ==
    \/ \E faulty \in BOOLEAN : Faulty(faulty) /\ (SyncTC(faulty) \/ SyncNFT(faulty))
    \/ SyncNone
-----------------------------------------------------------------------------
(* Handlers change a peer's limits or addresses, or delete the peer. *)
WriteLimit(p, w) ==
    /\ bwEdits < MaxBwEdits
    /\ w # want[p]
    /\ want' = [want EXCEPT ![p] = w]
    /\ bwEdits' = bwEdits + 1
    /\ UNCHANGED <<backend, bwFaults, tcHost, nftHost, tcMem, nftMem, strays, hit>>

(* The row and its peers are deleted, then what is on the host: both        *)
(* backends' limits and the link, with the qdiscs unless that fails too.    *)
RemoveInterface ==
    /\ bwEdits < MaxBwEdits
    /\ bwEdits' = bwEdits + 1
    /\ want' = [p \in Peer |-> NoLimit]
    /\ \E faulty \in BOOLEAN :
          Faulty(faulty) /\ clearInterfaceTCOnly(faulty) /\ clearInterfaceNFT(faulty)
    /\ UNCHANGED backend

(* The link is deleted behind the daemon and made again by the next run:    *)
(* its qdiscs are gone.                                                     *)
LinkRecreated ==
    /\ Fails("linkLost")
    /\ qdisc' = FALSE
    /\ classes' = [m \in Minor |-> 0]
    /\ filters' = {} /\ strays' = {} /\ hit' = {}
    /\ UNCHANGED <<dbVars, backend, nftHost, tcMem, nftMem>>

(* A firewall reload flushes the ruleset. *)
TableLost ==
    /\ Fails("tableLost")
    /\ table
    /\ table' = FALSE
    /\ nrules' = {}
    /\ UNCHANGED <<dbVars, backend, tcHost, tcMem, nftMem, strays, hit>>

(* The daemon starts again, perhaps with the other backend configured. *)
BwRestart(next) ==
    /\ Fails("restart")
    /\ backend' = next
    /\ tcReady' = FALSE
    /\ tcPeers' = [p \in Peer |-> NoTC]
    /\ nftReady' = FALSE
    /\ nftPeers' = [p \in Peer |-> NoLimit]
    /\ strays' = filters /\ hit' = {}
    /\ UNCHANGED <<dbVars, tcHost, nftHost>>

BwInit ==
    /\ want = [p \in Peer |-> NoLimit]
    /\ backend \in Backends
    /\ bwEdits = 0
    /\ bwFaults = 0
    /\ qdisc = FALSE
    /\ classes = [m \in Minor |-> 0]
    /\ filters = {}
    /\ table = FALSE
    /\ nrules = {}
    /\ tcReady = FALSE
    /\ tcPeers = [p \in Peer |-> NoTC]
    /\ nftReady = FALSE
    /\ nftPeers = [p \in Peer |-> NoLimit]
    /\ strays = {} /\ hit = {}

BwNext ==
    \/ SyncBandwidth
    \/ \E p \in Peer, w \in Limits : WriteLimit(p, w)
    \/ RemoveInterface
    \/ LinkRecreated
    \/ TableLost
    \/ \E next \in Backends : BwRestart(next)

BwSpec == BwInit /\ [][BwNext]_bwVars

(* Every run of the reconciler syncs the limits. *)
BwFairSpec == BwSpec /\ WF_bwVars(SyncBandwidth)
-----------------------------------------------------------------------------
(* The values the variables take; minors stay in the range the class ids    *)
(* and filter preferences are reserved for.                                 *)
BwTypeOK ==
    /\ want \in [Peer -> Limits]
    /\ backend \in Backends
    /\ bwEdits \in 0..MaxBwEdits /\ bwFaults \in 0..MaxBwFaults
    /\ {qdisc, table, tcReady, nftReady} \subseteq BOOLEAN
    /\ classes \in [Minor -> {w.tx : w \in Limits}]
    /\ tcPeers \in [Peer -> [active: BOOLEAN, minor: Minor \cup {0}, lim: Limits]]
    /\ nftPeers \in [Peer -> Limits]
    /\ \A r \in nrules : r.ip[1] \in Peer /\ r.rate > 0
    /\ \A f \in filters : f.ip[1] \in Peer /\ (f.dir = "tx" => f.to \in Minor)
    /\ strays \subseteq filters /\ hit \subseteq Peer

(* Two peers never share an HTB class, although the class is a hash of the  *)
(* key: not when hashes collide, nor when a peer is cleared by a failure    *)
(* and comes back after another took its minor, nor across restarts.  Of    *)
(* the link this is said of the filters the daemon still knows: a deletion  *)
(* that failed, and a restart, leave filters into a class that a later peer *)
(* is given.                                                                *)
ClassesDistinct ==
    /\ \A p, q \in Peer : tcPeers[p].active /\ tcPeers[q].active /\ p # q
                            => tcPeers[p].minor # tcPeers[q].minor
    /\ \A f, g \in filters \ strays :
          f.dir = "tx" /\ g.dir = "tx" /\ f.to = g.to => f.ip[1] = g.ip[1]

(* The rates the daemon has in force for an address: in a class, in a       *)
(* police filter or in a rule, of either backend.                           *)
InForceRates(ip, dir) ==
    {IF dir = "tx" THEN classes[f.to] ELSE f.to :
        f \in {g \in filters \ strays : g.dir = dir /\ g.ip = ip}}
    \cup {r.rate : r \in {x \in nrules : x.dir = dir /\ x.ip = ip}}

Addresses == UNION {1..w.n : w \in Limits}

(* The limit of p and no other one is in force: on each address it has now, *)
(* in each direction it has a limit for, and nowhere else.                  *)
Enforced(p) ==
    \A k \in Addresses, dir \in Dirs :
        InForceRates(<<p, k>>, dir) =
            IF k <= want[p].n /\ want[p][dir] > 0 THEN {want[p][dir]} ELSE {}

(* A ready flag says there is something on the host that is not. *)
ReadyIsStale == (tcReady /\ ~qdisc) \/ (nftReady /\ ~table)

(* The limit of p is in force, or lost filters to the clearing of another.  *)
LimitSettled(p) == Limited(want[p]) /\ want[p].n > 0 => p \in hit \/ Enforced(p)

(* A peer without a limit is limited by neither backend.                    *)
LimitLifted(p) ==
    ~Limited(want[p]) =>
        /\ \A f \in filters \ strays : f.ip[1] # p
        /\ (table /\ ~nftReady) \/ \A r \in nrules : r.ip[1] # p

(* tc_limits.go: SyncBandwidth "applies full per-peer bandwidth limits".    *)
(* Every limit is in force in the end, at its rate and no other, whichever  *)
(* commands failed and however rates, addresses and the backend changed,    *)
(* restarts included.  Three hazards of the code are excepted: filters that *)
(* a failed deletion or an earlier life left (strays), which the kernel may *)
(* match first; filters that clearing another peer took (hit); and ready    *)
(* flags, trusted when the qdiscs or the table are gone.                    *)
LimitsSettle ==
    <>[]~ReadyIsStale => <>[](backend # "none" => \A p \in Peer : LimitSettled(p))

(* ... "and removes stale peers": a peer without a limit is in the end not  *)
(* limited by either backend.  Excepted are strays, of a deletion that      *)
(* failed in this life as much as of an earlier life, and a table that the  *)
(* daemon does not know of, until a limit makes nft render it again.        *)
LiftedIsFree == <>[](\A p \in Peer : LimitLifted(p))
=============================================================================
