---------------------------- MODULE PeerAddresses ----------------------------
(***************************************************************************)
(* Tunnel addresses of one interface's peers: the allocator a peer create  *)
(* falls back on when the request names no address (netutil.               *)
(* AllocateNextHost), the rows that hold addresses, and the requests that  *)
(* create and edit them concurrently.  A create or a PATCH may name any    *)
(* addresses: their syntax is all that is checked.                         *)
(*                                                                         *)
(* An address is a number of Width bits in one of two families; a network  *)
(* is an address with its number of host bits, so bits = 0 is a /32 or     *)
(* /128.                                                                   *)
(***************************************************************************)
EXTENDS Naturals, Sequences, FiniteSetsExt

CONSTANTS
    Pub,        \* public keys
    Handler,    \* concurrent create requests
    Editor,     \* concurrent requests that write a row back, PATCH above all
    Width,      \* bits of an address
    ScanLimit,  \* addresses an IPv6 scan tries (4096)
    Addresses,  \* values the interface's Address list takes
    Assigned,   \* assigned_ips requests name, sets of hosts
    Allowed,    \* allowed_ips requests name, sets of networks
    MaxEdits    \* bound: explicit creates, edits, deletes, address changes

(* A scan is too short to come round to where it began: 4096 addresses of   *)
(* 2^128.                                                                   *)
ASSUME WidthAssumption == Width \in Nat /\ ScanLimit \in Nat /\ ScanLimit < 2^Width

(* The arithmetic of powers that the provers do not know. *)
ASSUME PowersAssumption == 2^0 = 1 /\ \A n \in 1..Width : 2^n = 2 * 2^(n - 1)

Family == {"v4", "v6"}

Space == 0..(2^Width - 1)

Network == [fam: Family, ip: Space, bits: 0..Width, linkLocal: BOOLEAN]

Host == [fam: Family, ip: Space]

ASSUME AddressesAssumption ==
    /\ Addresses \subseteq Seq(Network)
    /\ Assigned \subseteq SUBSET Host /\ Allowed \subseteq SUBSET Network
    /\ MaxEdits \in Nat

VARIABLES
    addrs,  \* the interface row's addresses
    peers,  \* peers[p]: the row, NoPeer when there is none
    req,    \* req[h]: a create request between its reads and its insert
    edit,   \* edit[e]: an edit between its read of a row and its write
    edits   \* bound

vars == <<addrs, peers, req, edit, edits>>

NoHost == [fam |-> "none", ip |-> 0]

(* auto and late only observe: assigned is still what the allocator chose,  *)
(* and the peers that got that address after the allocator listed the rows. *)
NoPeer == [exists |-> FALSE, auto |-> FALSE, assigned |-> {}, allowed |-> {}, late |-> {}]

NoRequest == [at |-> "none", addrs |-> <<>>, host |-> NoHost, used |-> {}, late |-> {}]

NoEdit == [at |-> "none", of |-> {}, assigned |-> {}, allowed |-> {}]
-----------------------------------------------------------------------------
(* netutil *)

HostOf(net) == [fam |-> net.fam, ip |-> net.ip]

HostRoute(h) == [fam |-> h.fam, ip |-> h.ip, bits |-> 0, linkLocal |-> FALSE]

Base(net) == net.ip - (net.ip % 2^net.bits)

NetContains(net, ip) == ip \in Base(net)..(Base(net) + 2^net.bits - 1)

(* Mutant: assigned addresses are not in use. *)
CollectAllowedOnly(nets, rows) ==
    {HostOf(nets[i]) : i \in DOMAIN nets}
    \cup (UNION {{HostOf(n) : n \in {m \in rows[p].allowed : m.bits = 0}} : p \in Pub})

(* Of the allowed networks only host routes are in use; an interface or     *)
(* assigned address counts whatever its mask.                               *)
CollectUsedHosts(nets, rows) ==
    {HostOf(nets[i]) : i \in DOMAIN nets}
    \cup (UNION {rows[p].assigned : p \in Pub})
    \cup (UNION {{HostOf(n) : n \in {m \in rows[p].allowed : m.bits = 0}} : p \in Pub})

(* The scan of one subnet from an offset on, incIP wrapping at the          *)
(* top of the space: IPv4 stops at the broadcast address, IPv6 after        *)
(* ScanLimit addresses.                                                     *)
Tried(net, i) == (Base(net) + i) % 2^Width

ScanEnds(net, i) ==
    IF net.fam = "v4" THEN Tried(net, i) = Base(net) + 2^net.bits - 1 ELSE i > ScanLimit

ScanTakes(net, used, i) ==
    /\ NetContains(net, Tried(net, i))
    /\ [fam |-> net.fam, ip |-> Tried(net, i)] \notin used

ScanFrom(net, used, first) ==
    LET last == Min({i \in first..(2^Width + ScanLimit) :
                        ScanEnds(net, i) \/ ScanTakes(net, used, i)})
    IN IF ScanEnds(net, last) THEN NoHost ELSE [fam |-> net.fam, ip |-> Tried(net, last)]

(* Mutant: the scan starts at the network address. *)
ScanNetworkToo(net, used) == ScanFrom(net, used, 0)

Scan(net, used) == ScanFrom(net, used, 1)

(* Pools with room for a host next to network and broadcast (/30, /126 and  *)
(* larger), IPv4 ones first; link-local addresses are no pool.              *)
Pools(nets) == {i \in DOMAIN nets : ~nets[i].linkLocal /\ nets[i].bits >= 2}

Before(nets, i, j) ==
    \/ nets[i].fam = "v4" /\ nets[j].fam = "v6"
    \/ nets[i].fam = nets[j].fam /\ i < j

FirstOf(nets, pools) == CHOOSE i \in pools : \A j \in pools : ~Before(nets, j, i)

(* Mutant: only the first pool is tried. *)
AllocateFirstPool(nets, used) ==
    IF Pools(nets) = {} THEN NoHost ELSE Scan(nets[FirstOf(nets, Pools(nets))], used)

AllocateNextHost(nets, used) ==
    LET found == {i \in Pools(nets) : Scan(nets[i], used) # NoHost}
    IN IF found = {} THEN NoHost ELSE Scan(nets[FirstOf(nets, found)], used)
-----------------------------------------------------------------------------
(* Rows *)

(* The hosts a row holds. *)
Held(row) == row.assigned \cup {HostOf(n) : n \in {m \in row.allowed : m.bits = 0}}

(* Of the hosts chosen once: is p late, when its row becomes this one?      *)
LateAfter(late, hosts, p, row) ==
    IF hosts \cap Held(row) = {} THEN late \ {p}
    ELSE IF hosts \cap Held(peers[p]) = {} THEN late \cup {p}
    ELSE late

(* The rows, and the requests, when the row of p becomes this one.          *)
Written(p, row) ==
    [q \in Pub |-> IF q = p THEN row
                   ELSE IF peers[q].auto
                   THEN [peers[q] EXCEPT !.late = LateAfter(@, peers[q].assigned, p, row)]
                   ELSE peers[q]]

Noted(p, row) ==
    [h \in Handler |-> IF req[h].at = "insert"
                       THEN [req[h] EXCEPT !.late = LateAfter(@, {req[h].host}, p, row)]
                       ELSE req[h]]
-----------------------------------------------------------------------------
(* handleCreatePeer without addresses: GetInterfaceByName ... *)
GetInterface(h) ==
    /\ req[h] = NoRequest
    /\ req' = [req EXCEPT ![h] = [NoRequest EXCEPT !.at = "list", !.addrs = addrs]]
    /\ UNCHANGED <<addrs, peers, edit, edits>>

(* ... allocatePeerIP: ListPeersByInterface and the scan.  No address left  *)
(* is answered with an error ...                                            *)
allocatePeerIP(h) ==
    LET used == CollectUsedHosts(req[h].addrs, peers)
        host == AllocateNextHost(req[h].addrs, used)
    IN
    /\ req[h].at = "list"
    /\ req' = [req EXCEPT ![h] = IF host = NoHost THEN NoRequest
                                 ELSE [at |-> "insert", addrs |-> req[h].addrs,
                                       host |-> host, used |-> used, late |-> {}]]
    /\ UNCHANGED <<addrs, peers, edit, edits>>

(* ... and CreatePeer, whose only uniqueness is of the public key. *)
CreatePeer(h, p) ==
    /\ req[h].at = "insert"
    /\ ~peers[p].exists
    /\ LET row == [exists |-> TRUE, auto |-> TRUE, assigned |-> {req[h].host},
                   allowed |-> {HostRoute(req[h].host)}, late |-> req[h].late]
       IN  /\ peers' = Written(p, row)
           /\ req' = [Noted(p, row) EXCEPT ![h] = NoRequest]
    /\ UNCHANGED <<addrs, edit, edits>>

(* The key is taken: 409. *)
CreateConflict(h, p) ==
    /\ req[h].at = "insert"
    /\ peers[p].exists
    /\ req' = [req EXCEPT ![h] = NoRequest]
    /\ UNCHANGED <<addrs, peers, edit, edits>>

(* The step is one of the bounded ones. *)
Counted == edits < MaxEdits /\ edits' = edits + 1

(* A create that names assigned_ips, allowed_ips or both. *)
CreateExplicit(p, assigned, allowed) ==
    /\ Counted
    /\ ~peers[p].exists
    /\ assigned # {} \/ allowed # {}
    /\ LET row == [exists |-> TRUE, auto |-> FALSE, assigned |-> assigned,
                   allowed |-> allowed, late |-> {}]
       IN  peers' = Written(p, row) /\ req' = Noted(p, row)
    /\ UNCHANGED <<addrs, edit>>

(* PATCH reads the row, and issuing a key does: GetPeer ... *)
GetPeer(e, p) ==
    /\ Counted
    /\ edit[e] = NoEdit
    /\ peers[p].exists
    /\ edit' = [edit EXCEPT ![e] = [at |-> "write", of |-> {p}, assigned |-> peers[p].assigned,
                                    allowed |-> peers[p].allowed]]
    /\ UNCHANGED <<addrs, peers, req>>

(* ... and UpdatePeer writes all of it back, with assigned_ips and          *)
(* allowed_ips set where the request has them, empty lists too.             *)
UpdatePeer(e, p, assigned, allowed) ==
    /\ edit[e].at = "write" /\ edit[e].of = {p}
    /\ LET auto == peers[p].auto /\ assigned = peers[p].assigned
           row  == [exists |-> TRUE, auto |-> auto, assigned |-> assigned,
                    allowed |-> allowed, late |-> IF auto THEN peers[p].late ELSE {}]
       IN  peers' = Written(p, row) /\ req' = Noted(p, row)
    /\ edit' = [edit EXCEPT ![e] = NoEdit]
    /\ UNCHANGED <<addrs, edits>>

PatchPeer(e, p) ==
    \E assigned \in Assigned \cup {edit[e].assigned}, allowed \in Allowed \cup {edit[e].allowed} :
        UpdatePeer(e, p, assigned, allowed)

(* The row of an edit is found by its id: one deleted in between, or        *)
(* created again, is answered with an error.                                *)
DeletePeer(p) ==
    /\ Counted
    /\ peers[p].exists
    /\ peers' = Written(p, NoPeer)
    /\ req' = Noted(p, NoPeer)
    /\ edit' = [e \in Editor |-> IF p \in edit[e].of THEN NoEdit ELSE edit[e]]
    /\ UNCHANGED addrs

(* PATCH of the interface's addresses; peers keep theirs. *)
UpdateAddresses(nets) ==
    /\ Counted
    /\ addrs' = nets
    /\ UNCHANGED <<peers, req, edit>>

Init ==
    /\ addrs \in Addresses
    /\ peers = [p \in Pub |-> NoPeer]
    /\ req = [h \in Handler |-> NoRequest]
    /\ edit = [e \in Editor |-> NoEdit]
    /\ edits = 0

Next ==
    \/ \E h \in Handler : GetInterface(h) \/ allocatePeerIP(h)
    \/ \E h \in Handler, p \in Pub : CreatePeer(h, p) \/ CreateConflict(h, p)
    \/ \E p \in Pub, assigned \in Assigned, allowed \in Allowed :
          CreateExplicit(p, assigned, allowed)
    \/ \E e \in Editor, p \in Pub : GetPeer(e, p) \/ PatchPeer(e, p)
    \/ \E p \in Pub : DeletePeer(p)
    \/ \E nets \in Addresses : UpdateAddresses(nets)

Spec == Init /\ [][Next]_vars
-----------------------------------------------------------------------------
(* The values the variables take. *)
TypeOK ==
    /\ addrs \in Addresses
    /\ \A p \in Pub :
          /\ peers[p].assigned \subseteq Host
          /\ peers[p].allowed \subseteq Network
    /\ \A h \in Handler :
          /\ req[h].at \in {"none", "list", "insert"}
          /\ req[h].host \in Host \cup {NoHost}
          /\ req[h].addrs \in Addresses \cup {<<>>}

(* The hosts a pool offers: neither its network address nor, for IPv4, its  *)
(* broadcast address.                                                       *)
Offers(net) ==
    {[fam |-> net.fam, ip |-> ip] : ip \in
        IF net.fam = "v4" THEN (Base(net) + 1)..(Base(net) + 2^net.bits - 2)
        ELSE {i \in (Base(net) + 1)..(Base(net) + 2^net.bits - 1) : i <= Base(net) + ScanLimit}}

(* What the allocator chose, by the reference definition: the least unused  *)
(* host of the first pool that has one, never the interface's own address,  *)
(* although the scan increments a wrapping address and a pool may end the   *)
(* address space.                                                           *)
AllocatesLeastFree ==
    \A h \in Handler : req[h].at = "insert" =>
        LET nets == req[h].addrs
            free(i) == Offers(nets[i]) \ req[h].used
        IN \E i \in Pools(nets) :
              /\ req[h].host \in free(i)
              /\ \A other \in free(i) : other.ip >= req[h].host.ip
              /\ \A j \in Pools(nets) : Before(nets, j, i) => free(j) = {}

(* A create is refused an address only when no pool has one left.           *)
RefusedOnlyWhenFull ==
    [][\A h \in Handler : req[h].at = "list" /\ req'[h].at = "none" =>
          \A i \in Pools(req[h].addrs) :
              Offers(req[h].addrs[i]) \subseteq CollectUsedHosts(req[h].addrs, peers)]_vars

(* docs/API.md: a create without addresses "auto-allocates the next free    *)
(* host IP".  Another peer holds that address, as an assigned one or as a   *)
(* host route, only if it got it after the create listed the rows: from a   *)
(* create that overlapped, or from a request that named it or wrote back    *)
(* what it had read before.                                                 *)
NoSharedHost ==
    \A p, q \in Pub :
        p # q /\ peers[q].auto /\ peers[q].assigned \cap Held(peers[p]) # {}
            => p \in peers[q].late

(* No two peers have one allocated address: so with one create at a time.   *)
AllocatedApart ==
    \A p, q \in Pub :
        p # q /\ peers[p].auto /\ peers[q].auto
            => peers[p].assigned \cap peers[q].assigned = {}
==============================================================================
